-------------------------- MODULE RideMatchingQueue --------------------------
(***************************************************************************)
(* RideMatchingQueue: the two kinds of delayed job of the queue            *)
(* "ride-matching".  BullMQ hands a job to the worker at some time after   *)
(* it falls due, in no order the code may rely on, and one at a time.      *)
(***************************************************************************)
EXTENDS RideStore

\* addMatchingJob.  Its jobId ends in the millisecond of the call, so that BullMQ drops
\* a second call for the ride only within the very millisecond of the first.  A tick
\* stands for many milliseconds: here every call adds a job.
AddMatchingJob(r, delay) ==
  matchJobs' = [matchJobs EXCEPT ![r][now + delay] = @ + 1]

TakeMatchingJob(r, t) ==
  matchJobs' = [matchJobs EXCEPT ![r][t] = @ - 1]

\* scheduleOfferTimeout: the jobId is that of the offer, so a job still waiting
\* for an earlier round of the same offer stays, with its old delay.
ScheduleOfferTimeout(r, d, due) ==
  timeoutJob' = [timeoutJob EXCEPT ![r][d] = IF @ = Null THEN due ELSE @]

TakeTimeoutJob(r, d) ==
  timeoutJob' = [timeoutJob EXCEPT ![r][d] = Null]

DueMatchingJob(r, t) == t <= now /\ matchJobs[r][t] > 0
DueTimeoutJob(r, d)  == timeoutJob[r][d] # Null /\ timeoutJob[r][d] <= now
=============================================================================
