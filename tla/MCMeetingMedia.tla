--------------------------- MODULE MCMeetingMedia ---------------------------
EXTENDS MeetingMedia

\* One thing at a time goes wrong, or two where they meet: a camera switched
\* and a meeting left, a restart, a loss, both cameras with all candidates.
MCScenarios == {
  [gathering |-> {1, 2}, actors |-> {1, 2}, streams |-> 1, switches |-> 1, events |-> 0, faults |-> 0],
  [gathering |-> {},     actors |-> {2},    streams |-> 1, switches |-> 1, events |-> 1, faults |-> 0],
  [gathering |-> {},     actors |-> {1},    streams |-> 1, switches |-> 0, events |-> 1, faults |-> 0],
  [gathering |-> {},     actors |-> {2},    streams |-> 2, switches |-> 0, events |-> 1, faults |-> 0],
  [gathering |-> {},     actors |-> {},     streams |-> 2, switches |-> 0, events |-> 0, faults |-> 1],
  [gathering |-> {2},    actors |-> {},     streams |-> 1, switches |-> 0, events |-> 0, faults |-> 1] }

\* Nothing but starting.
MCQuiet == {
  [gathering |-> {}, actors |-> {}, streams |-> 1, switches |-> 0, events |-> 0, faults |-> 0] }
=============================================================================
