---------------------------- MODULE MCVoiceSession ----------------------------
EXTENDS VoiceSession

\* One session in which nothing goes wrong: three utterances, the first and the last
\* of which may begin a thought, with the follow-up of the first in between.
MCTwoThoughts == {
  [utterances |-> 3, sessions |-> 1, responses |-> 4, callers |-> {1, 4}, cards |-> 2, faults |-> 0] }

\* That; two utterances, with any tool calls and their follow-ups; two sessions with
\* a card that is removed, a refusal or a lost transcript.
MCVoiceLimits == MCTwoThoughts \union {
  [utterances |-> 2, sessions |-> 1, responses |-> 4, callers |-> 1..4, cards |-> 2, faults |-> 0],
  [utterances |-> 2, sessions |-> 2, responses |-> 3, callers |-> 1..3, cards |-> 2, faults |-> 1] }

\* One session of two utterances in which nothing goes wrong.
MCOneSession == {
  [utterances |-> 2, sessions |-> 1, responses |-> 4, callers |-> 1..4, cards |-> 1, faults |-> 0] }
=============================================================================
