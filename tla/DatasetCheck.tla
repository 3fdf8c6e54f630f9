---------------------------- MODULE DatasetCheck ----------------------------
(***************************************************************************)
(* How the relay makes sure that a dataset version on Kaggle holds exactly *)
(* what a job uploaded.  Each check runs in a child process, which reads   *)
(* the archive or, if there is none, file after file, and leaves evidence  *)
(* in a store that outlives it: a check may be killed, cut short to a      *)
(* batch, or orphaned by a crash of the relay and go on next to its        *)
(* successor.  All children of an account share its pace and its cooldown. *)
(* Times are relative, in units of REQUEST_INTERVAL_SECONDS / Interval.    *)
(***************************************************************************)
EXTENDS Integers

CONSTANTS
    Jobs,          \* jobs of one account, each with one uploaded version
    Files,         \* the files of a version
    Procs,         \* verification children (a bound)
    Differs,       \* in which files a version on Kaggle may differ from the upload
    Interval,      \* REQUEST_INTERVAL_SECONDS
    MaxDelay,      \* the longest wait for a turn, 5 s
    Cooldowns,     \* what Retry-After may say
    BatchLimit,    \* FILE_BATCH_LIMIT
    NoJob

ASSUME TimeAssumption ==
    /\ Interval \in Nat \ {0} /\ MaxDelay \in Nat /\ Cooldowns \subseteq Nat
    /\ BatchLimit \in Nat \ {0}
ASSUME FileAssumption == Files # {} /\ Differs \subseteq SUBSET Files
ASSUME JobAssumption == NoJob \notin Jobs

VARIABLES
    state,         \* what the worker and the scheduler know of the candidate
    basis,         \* what the evidence of a job was computed from, "none" without a row
    verified,      \* files whose bytes matched, persisted
    complete,      \* jobs whose evidence is marked complete
    nextIn,        \* accounts.next_request_at, from now
    coolIn,        \* accounts.cooldown_until, from now
    fresh,         \* the cooldown began since the last tick
    proc,          \* the children
    local,         \* the frozen dataset directory of a job: "frozen" or "changed"
    differ         \* files of the version on Kaggle that differ from the upload

store == <<basis, verified, complete>>
account == <<nextIn, coolIn, fresh>>
world == <<local, differ>>
vars == <<state, store, account, proc, world>>

Open == {"waiting", "rechecking"}      \* checked by the worker, or by the scheduler's recheck

(* "parked": scheduled for a recheck; "exhausted": the 24 hours of its     *)
(* rechecks are over; "rejected": the content is not what was uploaded;    *)
(* "blocked": given up for any other reason.                               *)
States == Open \cup {"parked", "exhausted", "accepted", "rejected", "blocked", "canceled"}

Child(j, background) ==
    [job |-> j, background |-> background, owned |-> TRUE, pc |-> "ask",
     need |-> "archive", wake |-> 0, seen |-> {}, count |-> 0]
Free == [job |-> NoJob, background |-> FALSE, owned |-> FALSE, pc |-> "free",
         need |-> "archive", wake |-> 0, seen |-> {}, count |-> 0]

Init ==
    /\ state = [j \in Jobs |-> "waiting"]
    /\ basis = [j \in Jobs |-> "none"]
    /\ verified = [j \in Jobs |-> {}]
    /\ complete = {}
    /\ nextIn = 0 /\ coolIn = 0 /\ fresh = FALSE
    /\ proc = [p \in Procs |-> Free]
    /\ local = [j \in Jobs |-> "frozen"]
    /\ differ \in [Jobs -> Differs]

At(p, l) == proc[p].pc = l
Job(p) == proc[p].job
Goto(p, l) == proc' = [proc EXCEPT ![p].pc = l]
OnlyChild == UNCHANGED <<state, store, account, world>>

-----------------------------------------------------------------------------
(* How a check ends.  run_verification reads the child's result or error,  *)
(* and wait_dataset and the worker's handler decide what it means for the  *)
(* candidate.  A background check leaves every retry to the scheduler;     *)
(* wait_dataset itself repeats a foreground check while its budgets last.  *)

(* schedule_recheck: the next check, unless the window ends before it.     *)
Deferred == {"parked", "exhausted"}

Outcomes(background, e) ==
    CASE e = "ok" -> {"accepted"}
      [] e = "integrity" -> {"rejected"}
      [] e = "fatal" -> {"blocked"}
      [] e = "denied" -> IF background THEN {"blocked"} ELSE {"waiting", "blocked"}
      [] e = "progress" -> Deferred
      [] OTHER -> IF background THEN Deferred ELSE {"waiting"} \cup Deferred

(* Nobody reads the result of an orphan.                                   *)
End(p, e) ==
    /\ IF proc[p].owned
       THEN \E s \in Outcomes(proc[p].background, e) : state' = [state EXCEPT ![Job(p)] = s]
       ELSE UNCHANGED state
    /\ proc' = [proc EXCEPT ![p] = Free]

OnlyEnd(p, e) == End(p, e) /\ UNCHANGED <<store, account, world>>

(* The publication or transfer budget is used up, or the disk is full: the *)
(* child is killed.                                                        *)
Kill(p) ==
    /\ proc[p].owned
    /\ \E e \in {"publication", "transient", "fatal"} : OnlyEnd(p, e)

(* The time budget of a background check ends at one of its check()s.      *)
TimeUp(p) == proc[p].background /\ ~At(p, "send") /\ OnlyEnd(p, "progress")

-----------------------------------------------------------------------------
(* The child: pacing of its requests *)

Max2(a, b) == IF a > b THEN a ELSE b

(* Mutant: the turn is taken from now, not from the turns before it.       *)
ReserveFromNow(p) ==
    /\ At(p, "ask")
    /\ coolIn = 0 /\ nextIn <= MaxDelay
    /\ nextIn' = Interval
    /\ proc' = [proc EXCEPT ![p].pc = "turn", ![p].wake = nextIn]
    /\ UNCHANGED <<state, store, coolIn, fresh, world>>

(* reserve_request: take the account's next turn, unless it is too far     *)
(* away or the account is cooling down.                                    *)
Reserve(p) ==
    /\ At(p, "ask")
    /\ \/ coolIn > 0 /\ End(p, "transient") /\ UNCHANGED nextIn
       \/ coolIn = 0 /\ nextIn > MaxDelay /\ End(p, "progress") /\ UNCHANGED nextIn
       \/ /\ coolIn = 0 /\ nextIn <= MaxDelay
          /\ nextIn' = nextIn + Interval
          /\ proc' = [proc EXCEPT ![p].pc = "turn", ![p].wake = nextIn]
          /\ UNCHANGED state
    /\ UNCHANGED <<store, coolIn, fresh, world>>

(* Mutant: the cooldown is read before the wait only.                      *)
ClearAnyway(p) == At(p, "turn") /\ proc[p].wake = 0 /\ Goto(p, "send") /\ OnlyChild

(* before_request: having waited for its turn, the child looks at the      *)
(* cooldown again.                                                         *)
Clear(p) ==
    /\ At(p, "turn") /\ proc[p].wake = 0
    /\ \/ coolIn > 0 /\ OnlyEnd(p, "transient")
       \/ coolIn = 0 /\ Goto(p, "send") /\ OnlyChild

Send(p) == At(p, "send") /\ Goto(p, "sent") /\ OnlyChild

(* A 429 starts or prolongs the cooldown of the account.                   *)
TooMany(p) ==
    /\ At(p, "sent")
    /\ \E s \in Cooldowns : coolIn' = Max2(coolIn, s)
    /\ fresh' = (fresh \/ coolIn = 0)
    /\ End(p, "transient")
    /\ UNCHANGED <<store, nextIn, world>>

(* Any other failure: of the transport, of the authorization, for good.    *)
Fails(p) ==
    /\ At(p, "sent")
    /\ \E e \in {"transient", "denied", "fatal"} : OnlyEnd(p, e)

-----------------------------------------------------------------------------
(* The child: verify_dataset_content and verify_version_files *)

(* The archive is compared with the directory as it is, or Kaggle says     *)
(* that there is none: only then the version is read file by file.         *)
Archive(p) ==
    /\ At(p, "sent") /\ proc[p].need = "archive"
    /\ \/ /\ local[Job(p)] = "changed" \/ differ[Job(p)] = {}
          /\ Goto(p, "final") /\ OnlyChild
       \/ /\ local[Job(p)] = "changed" \/ differ[Job(p)] # {}
          /\ OnlyEnd(p, "integrity")
       \/ proc' = [proc EXCEPT ![p].pc = "ask", ![p].need = "list"] /\ OnlyChild

(* Kaggle lists other files or sizes than were uploaded: a version that is *)
(* still being published, for all that the child can know.                 *)
Unlisted(p) ==
    /\ At(p, "sent") /\ proc[p].need \in {"list", "relist"}
    /\ OnlyEnd(p, "publication")

(* The loop over the files: a background check ends with its batch.        *)
Continue(p, seen, count) ==
    IF seen # Files /\ proc[p].background /\ count >= BatchLimit
    THEN End(p, "progress")
    ELSE /\ proc' = [proc EXCEPT ![p].pc = "ask",
                        ![p].need = IF seen = Files THEN "relist" ELSE "file",
                        ![p].seen = seen,
                        ![p].count = IF proc[p].background THEN count ELSE 0]
         /\ UNCHANGED state

(* upload_content_inventory and VerificationStore.load: the evidence of    *)
(* earlier checks counts if it was gathered against the same content.      *)
List(p) ==
    /\ At(p, "sent") /\ proc[p].need = "list"
    /\ LET j == Job(p) IN
       \/ /\ basis[j] \in {"none", local[j]}
          /\ basis' = [basis EXCEPT ![j] = local[j]]
          /\ Continue(p, verified[j], 0)
          /\ UNCHANGED <<verified, complete, account, world>>
       \/ basis[j] \notin {"none", local[j]} /\ OnlyEnd(p, "integrity")

(* What was computed from a changed directory may match anything.          *)
Matches(j, f) == basis[j] = "changed" \/ f \notin differ[j]
Mismatches(j, f) == basis[j] = "changed" \/ f \in differ[j]

(* Mutants: the child's own list replaces the stored one, or a match is    *)
(* not stored.                                                             *)
StoresOwnList(p) ==
    /\ At(p, "sent") /\ proc[p].need = "file"
    /\ \E f \in Files \ proc[p].seen :
        /\ Matches(Job(p), f)
        /\ verified' = [verified EXCEPT ![Job(p)] = proc[p].seen \cup {f}]
        /\ Continue(p, proc[p].seen \cup {f}, proc[p].count + 1)
    /\ UNCHANGED <<basis, complete, account, world>>
StoresNothing(p) ==
    /\ At(p, "sent") /\ proc[p].need = "file"
    /\ \E f \in Files \ proc[p].seen :
        Matches(Job(p), f) /\ Continue(p, proc[p].seen \cup {f}, proc[p].count + 1)
    /\ UNCHANGED <<store, account, world>>

(* A file's bytes have been read; mark_file adds a match to the evidence.  *)
File(p) ==
    /\ At(p, "sent") /\ proc[p].need = "file"
    /\ \E f \in Files \ proc[p].seen :
        \/ /\ Matches(Job(p), f)
           /\ verified' = [verified EXCEPT ![Job(p)] = @ \cup {f}]
           /\ Continue(p, proc[p].seen \cup {f}, proc[p].count + 1)
           /\ UNCHANGED <<basis, complete, account, world>>
        \/ Mismatches(Job(p), f) /\ OnlyEnd(p, "integrity")

(* The whole inventory is read again before the result is accepted.        *)
Relist(p) ==
    /\ At(p, "sent") /\ proc[p].need = "relist"
    /\ Goto(p, "final")
    /\ OnlyChild

FinalTrusts(p) == At(p, "final") /\ OnlyEnd(p, "ok")      \* mutant: the directory is not looked at again

(* The directory must still be what the candidate was uploaded from; then  *)
(* mark_complete, if files were read one by one.                           *)
Final(p) ==
    /\ At(p, "final")
    /\ \/ local[Job(p)] = "changed" /\ OnlyEnd(p, "integrity")
       \/ /\ local[Job(p)] = "frozen" /\ proc[p].need = "archive"
          /\ OnlyEnd(p, "ok")
       \/ /\ local[Job(p)] = "frozen" /\ proc[p].need = "relist"
          /\ verified[Job(p)] = Files
          /\ complete' = complete \cup {Job(p)}
          /\ End(p, "ok")
          /\ UNCHANGED <<basis, verified, account, world>>
       \/ /\ local[Job(p)] = "frozen" /\ proc[p].need = "relist"
          /\ verified[Job(p)] # Files
          /\ OnlyEnd(p, "integrity")

-----------------------------------------------------------------------------
(* The relay *)

Checking(j) == \E p \in Procs : Job(p) = j /\ proc[p].owned

(* One check at a time per job, next to whatever orphans of earlier ones   *)
(* still run.  It starts with the digest of the directory.                 *)
Spawn(j, p) ==
    /\ state[j] \in Open
    /\ ~Checking(j)
    /\ At(p, "free")
    /\ IF local[j] = "frozen"
       THEN /\ proc' = [proc EXCEPT ![p] = Child(j, state[j] = "rechecking")]
            /\ UNCHANGED state
       ELSE state' = [state EXCEPT ![j] = "rejected"] /\ UNCHANGED proc
    /\ UNCHANGED <<store, account, world>>

OnlyState(j, s) ==
    /\ state' = [state EXCEPT ![j] = s]
    /\ UNCHANGED <<store, account, proc, world>>

(* schedule_dataset_rechecks: a due candidate, its account not cooling.    *)
Recheck(j) == state[j] = "parked" /\ coolIn = 0 /\ OnlyState(j, "rechecking")

(* It is due, but the 24 hours since its first failure are over.           *)
WindowEnds(j) == state[j] = "parked" /\ OnlyState(j, "exhausted")

(* It is due, but the account was disabled or the upload intent is gone.   *)
Revoked(j) == state[j] = "parked" /\ coolIn = 0 /\ OnlyState(j, "blocked")

(* complete_job with restart_recheck: a new window, if a client asks for it.*)
RestartRecheck(j) == state[j] = "exhausted" /\ OnlyState(j, "rechecking")

Cancel(j) ==
    /\ state[j] \in Open \cup Deferred
    /\ state' = [state EXCEPT ![j] = "canceled"]
    /\ proc' = [p \in Procs |-> IF Job(p) = j /\ proc[p].owned THEN Free ELSE proc[p]]
    /\ UNCHANGED <<store, account, world>>

(* An orderly shutdown kills the children.  A background check takes it    *)
(* for a fatal error, and the candidate is not checked again: unlike what  *)
(* dataset-verification-recovery.md:42 says of restarts.                   *)
Shutdown ==
    /\ \E p \in Procs : proc[p].owned
    /\ state' = [j \in Jobs |-> IF Checking(j) /\ state[j] = "rechecking"
                                THEN "blocked" ELSE state[j]]
    /\ proc' = [p \in Procs |-> IF proc[p].owned THEN Free ELSE proc[p]]
    /\ UNCHANGED <<store, account, world>>

(* A crash leaves the children to themselves, each in a session of its     *)
(* own; recovery checks the same candidates again.                         *)
Crash ==
    /\ \E p \in Procs : proc[p].owned
    /\ proc' = [p \in Procs |-> [proc[p] EXCEPT !.owned = FALSE]]
    /\ UNCHANGED <<state, store, account, world>>

(* An orphan ends with its work, or when it next writes to its pipe.       *)
OrphanEnds(p) ==
    /\ ~proc[p].owned /\ ~At(p, "free")
    /\ proc' = [proc EXCEPT ![p] = Free]
    /\ UNCHANGED <<state, store, account, world>>

-----------------------------------------------------------------------------
(* Time, Kaggle and the disk *)

Less(n) == IF n > 0 THEN n - 1 ELSE 0

(* A cleared request goes out within the same unit of time.                *)
Tick ==
    /\ \A p \in Procs : ~At(p, "send")
    /\ nextIn > 0 \/ coolIn > 0 \/ \E p \in Procs : proc[p].wake > 0
    /\ nextIn' = Less(nextIn)
    /\ coolIn' = Less(coolIn)
    /\ fresh' = FALSE
    /\ proc' = [p \in Procs |-> [proc[p] EXCEPT !.wake = Less(@)]]
    /\ UNCHANGED <<state, store, world>>

(* The frozen directory is touched, which the code guards against.  It is  *)
(* not changed back: a change undone during a check is not modelled.       *)
Touch(j) ==
    /\ local[j] = "frozen"
    /\ local' = [local EXCEPT ![j] = "changed"]
    /\ UNCHANGED <<state, store, account, proc, differ>>

Step(p) ==
    \/ Reserve(p) \/ Clear(p) \/ Send(p)
    \/ Archive(p) \/ List(p) \/ File(p) \/ Relist(p) \/ Final(p)

Trouble == \/ \E p \in Procs : TooMany(p) \/ Fails(p) \/ Unlisted(p) \/ TimeUp(p) \/ Kill(p)
           \/ \E j \in Jobs : Revoked(j)
           \/ Shutdown \/ Crash

Calm ==
    \/ \E p \in Procs : Step(p) \/ OrphanEnds(p)
    \/ \E j \in Jobs : Recheck(j) \/ WindowEnds(j) \/ RestartRecheck(j) \/ Cancel(j) \/ Touch(j)
    \/ \E j \in Jobs, p \in Procs : Spawn(j, p)
    \/ Tick

Next == Calm \/ Trouble

Spec == Init /\ [][Next]_vars

(* The relay and Kaggle go on; nobody has to cancel or crash.  Time passes *)
(* however often a request goes out in between.                            *)
FairSpec ==
    /\ Spec
    /\ SF_vars(Tick)
    /\ \A p \in Procs : WF_vars(Step(p)) /\ WF_vars(OrphanEnds(p))
    /\ \A j \in Jobs : /\ WF_vars(\E p \in Procs : Spawn(j, p))
                       /\ WF_vars(Recheck(j))

-----------------------------------------------------------------------------
(* Properties *)

Children ==
    [job : Jobs \cup {NoJob}, background : BOOLEAN, owned : BOOLEAN,
     pc : {"free", "ask", "turn", "send", "sent", "final"},
     need : {"archive", "list", "file", "relist"}, wake : Nat, seen : SUBSET Files, count : Nat]

(* Who works, works for a job.                                             *)
Sane(c) == IF c.pc = "free" THEN ~c.owned /\ ~c.background ELSE c.job \in Jobs

TypeOK ==
    /\ state \in [Jobs -> States]
    /\ basis \in [Jobs -> {"none", "frozen", "changed"}]
    /\ verified \in [Jobs -> SUBSET Files]
    /\ complete \subseteq Jobs
    /\ nextIn \in Nat /\ coolIn \in Nat /\ fresh \in BOOLEAN
    /\ proc \in [Procs -> Children]
    /\ \A p \in Procs : Sane(proc[p])
    /\ local \in [Jobs -> {"frozen", "changed"}]
    /\ differ \in [Jobs -> SUBSET Files]

(* A candidate is accepted, or its evidence called complete, only if the   *)
(* version holds what the job uploaded: whichever checks gathered the      *)
(* evidence, killed, cut short, orphaned or side by side, and whenever the *)
(* directory was changed, if it then stays changed.                        *)
AcceptedMatches ==
    \A j \in Jobs : state[j] = "accepted" \/ j \in complete => differ[j] = {}

(* Evidence is never lost: a file that matched is not read again, although *)
(* an orphaned check and its successor write to the same row.              *)
EvidenceKept == [][\A j \in Jobs : verified[j] \subseteq verified'[j]]_verified

(* Children that wait for their turn, of whatever job, have turns at least *)
(* REQUEST_INTERVAL_SECONDS apart.                                         *)
TurnsApart ==
    \A p, q \in Procs :
        p # q /\ At(p, "turn") /\ At(q, "turn") /\ proc[p].wake > 0 /\ proc[q].wake > 0
            => \/ proc[p].wake >= proc[q].wake + Interval
               \/ proc[q].wake >= proc[p].wake + Interval

(* Once a 429 was stored, nobody sends another request in the cooldown,    *)
(* except who had already looked at it when the 429 arrived.               *)
CooldownHeld ==
    [][\A p \in Procs : At(p, "send") /\ At(p, "sent")' => coolIn = 0 \/ fresh]_vars

(* If no more requests fail and nobody kills a check, a version that holds *)
(* what the job uploaded is accepted: batch by batch, at the account's     *)
(* pace, from the evidence of the checks before.  It is never rejected,    *)
(* unless the directory was changed.  The relay gives it up only when the  *)
(* window of the rechecks ends, until a client restarts it, or when it was *)
(* blocked before: by a failure for good, a lost account, or a shutdown.   *)
GoodIsAccepted ==
    <>[][Calm]_vars =>
        \A j \in Jobs : differ[j] = {} ~>
            \/ state[j] \in {"accepted", "canceled", "exhausted", "blocked"}
            \/ local[j] = "changed"

=============================================================================
