---------------------------- MODULE MCMembership ----------------------------
EXTENDS Membership, TLC

CONSTANTS a, b, chat

MCSubs == 1..2
MCFounders == {1}
MCTokens == {a, b}

\* A device that registers, a caller that names a channel, and one that says little.
MCPosts == {[Blank EXCEPT !.tokens = {a}], [Blank EXCEPT !.tokens = {b}, !.chat = chat],
            [Blank EXCEPT !.locale = "it"]}
MCSymmetry == Permutations(Handlers)
=============================================================================
