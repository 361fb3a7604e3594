--------------------------- MODULE MCRegistration ---------------------------
(* A small chat for TLC: two strangers, of whom both or one mention the    *)
(* bot, and wirings of the kinds the router tells apart.                   *)
EXTENDS ChannelRegistration

CONSTANTS x, y, g1, g2

Symmetric == Permutations(Slots)

MCFrom == <<x, y>>

Chat(asks, m, ea, eb, follows, accumulates) ==
  [policy |-> asks, mentions |-> m,
   engages |-> [g \in Agents |-> IF g = g1 THEN ea ELSE eb],
   sticky |-> follows, keeps |-> accumulates]

\* Both strangers mention the bot, and every agent hears mentions.
Mentions(asks) == Chat(asks, {1, 2}, {1, 2}, {1, 2}, {}, {g1, g2})

\* One mentions the bot; g1 hears everything, g2 mentions only.
MixedModes(accumulates) == Chat("request_approval", {1}, {1, 2}, {1}, {}, accumulates)

\* One mentions the bot, and g1 follows the thread after that; g2 hears the
\* other.
Follows == Chat("request_approval", {1}, {1}, {2}, {g1}, {g1})

MCSetups ==
  {Mentions("request_approval"), Mentions("strict"),
   MixedModes({g1, g2}), MixedModes({}), Follows}
UnheardSetups == {Mentions("request_approval")}
=============================================================================
