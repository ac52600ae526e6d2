-------------------------- MODULE MCConsoleSchedule --------------------------
\* A small instance of ConsoleSchedule: a TTL of 2 ticks, a threshold of 4, the
\* heartbeat on every tick and snapshots on every second.  A broker's clock is
\* just fit for the threshold or too far behind for it.
EXTENDS ConsoleSchedule

CONSTANTS k1, k2

Frame(skew, equity) == [skew |-> skew, equity |-> equity]

MCFrames == {Frame(-2, TRUE), Frame(-2, FALSE), Frame(-3, TRUE)}
MCTtls   == {2}
MCValues == [ts : -3..(MaxNow - 2), equity : BOOLEAN]

\* Snapshots are due one tick after the start: two runs, with time before each.
MCScheduleInit == ScheduleInit /\ snapNext = 1

MCScheduleSpec == MCScheduleInit /\ [][ScheduleNext]_svars /\ WF_svars(Evict)

=============================================================================
