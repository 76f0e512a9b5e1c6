------------------------------ MODULE JobQueue ------------------------------
(***************************************************************************)
(* The background jobs of stdlib_jobs.c: a table of SQLite, _vek_jobs,     *)
(* that the worker processes of one program share.  jobs.run_one is not a  *)
(* transaction.  It selects a job, marks it, looks for its handler, calls  *)
(* it and records the result, and every statement is a step that the other *)
(* workers see and between any two of which the worker may crash.          *)
(* A statement uses the time that time(NULL) returned just before; since   *)
(* the clock may be set meanwhile, that is one step with the statement.    *)
(* MaxTime stands for the time at the start and all later ones: a job is   *)
(* not due only when the clock has been set back since it was enqueued.    *)
(* The column attempts, which nothing reads, and the arguments of jobs are *)
(* left out.                                                               *)
(***************************************************************************)
EXTENDS Integers, Sequences, SequencesExt

CONSTANTS
    Workers,      \* worker processes
    Names,        \* names of jobs
    MaxHandlers,  \* MAX_HANDLERS
    Nil,          \* no job
    MaxJobs,      \* bound: rows inserted
    MaxTime,      \* times
    MaxFaults     \* bound: crashes of workers, statements that fail, and how
                  \* often the clock is set back

ASSUME JobQueueAssumption ==
    /\ MaxHandlers \in Nat
    /\ MaxJobs \in Nat
    /\ MaxTime \in Nat
    /\ MaxFaults \in Nat
    /\ Nil \notin Nat \cup Names

Jobs == 1..MaxJobs  \* values of id, AUTOINCREMENT
Times == 0..MaxTime

VARIABLES
    \* the table
    last,      \* the last id given
    status,    \* status[j], "none" if there is no row j
    name,      \* name[j]
    run_at,    \* run_at[j]
    clock,     \* what time(NULL) returns
    \* the workers
    handlers,  \* handlers[w]: the names in the handlers array, in order
    phase,     \* phase[w]: where w is in jobs.run_one, "idle" if it is not
    job,       \* job[w]: job_id in run_one
    now,       \* now[w]: now in run_one
    \* history
    runs,      \* runs[j][w]: calls of a handler for j by w, 2 for more than one
    reverted,  \* jobs that were set back to 'pending' for want of a handler
    raced,     \* jobs that a worker selected before another had marked them
    won,       \* jobs for which some call returned a true value
    missed,    \* jobs that an UPDATE should have changed and did not
    faults,    \* crashes and failed statements so far
    setbacks   \* how often the clock was set back

tableVars == <<last, status, name, run_at>>
workerVars == <<handlers, phase, job, now>>
historyVars == <<runs, reverted, raced, won, missed, faults, setbacks>>
vars == <<tableVars, clock, workerVars, historyVars>>

MayFail == faults + setbacks < MaxFaults

\* An UPDATE by id, whatever the status is by now: nothing happens if the row
\* was deleted, or if the statement fails (SQLITE_BUSY, SQLITE_FULL), which the
\* code does not look at.
SetStatus(j, s) ==
    \/ /\ status' = IF status[j] = "none" THEN status
                                         ELSE [status EXCEPT ![j] = s]
       /\ UNCHANGED <<missed, faults>>
    \/ /\ MayFail
       /\ faults' = faults + 1
       /\ missed' = missed \cup {j}
       /\ UNCHANGED status

-----------------------------------------------------------------------------

clock_advances(time) ==
    /\ clock < time
    /\ clock' = time
    /\ UNCHANGED <<tableVars, workerVars, historyVars>>

clock_set_back(time) ==
    /\ time < clock /\ MayFail
    /\ clock' = time
    /\ setbacks' = setbacks + 1
    /\ UNCHANGED <<tableVars, workerVars, runs, reverted, raced, won, missed, faults>>

native_jobs_enqueue(n) ==
    /\ last < MaxJobs
    /\ last' = last + 1
    /\ status' = [status EXCEPT ![last + 1] = "pending"]
    /\ name' = [name EXCEPT ![last + 1] = n]
    /\ run_at' = [run_at EXCEPT ![last + 1] = clock]
    /\ UNCHANGED <<clock, workerVars, historyVars>>

native_jobs_process(w, n) ==
    /\ phase[w] \in {"idle", "handling"}
    /\ Len(handlers[w]) < MaxHandlers
    /\ handlers' = [handlers EXCEPT ![w] = Append(@, n)]
    /\ UNCHANGED <<tableVars, clock, phase, job, now, historyVars>>

native_jobs_clear ==
    /\ status' = [j \in Jobs |-> "none"] /\ run_at' = [j \in Jobs |-> 0]
    /\ UNCHANGED <<last, name, clock, workerVars, historyVars>>

Leaves(w) ==
    /\ phase' = [phase EXCEPT ![w] = "idle"]
    /\ job' = [job EXCEPT ![w] = Nil]
    /\ now' = [now EXCEPT ![w] = 0]

Due(time) == {j \in Jobs : status[j] = "pending" /\ run_at[j] <= time}

Selects(w, j) ==
    /\ phase[w] = "idle"
    /\ job' = [job EXCEPT ![w] = j]
    /\ now' = [now EXCEPT ![w] = clock]
    /\ phase' = [phase EXCEPT ![w] = "selected"]
    /\ raced' = IF \E v \in Workers : phase[v] = "selected" /\ job[v] = j
                THEN raced \cup {j} ELSE raced
    /\ UNCHANGED <<tableVars, clock, handlers, runs, reverted, won, missed, faults, setbacks>>

\* Mutant: no ORDER BY.
select_job_unordered(w) == \E j \in Due(clock) : Selects(w, j)

select_job(w) ==
    \E j \in Due(clock) :
        /\ \A i \in Due(clock) : j <= i
        /\ Selects(w, j)

\* Mutant: only the number of attempts is written.
mark_running_only_counting(w) ==
    /\ phase[w] = "selected"
    /\ phase' = [phase EXCEPT ![w] = "marked"]
    /\ UNCHANGED <<tableVars, clock, handlers, job, now, historyVars>>

mark_running(w) ==
    /\ phase[w] = "selected"
    /\ SetStatus(job[w], "running")
    /\ phase' = [phase EXCEPT ![w] = "marked"]
    /\ UNCHANGED <<last, name, run_at, clock, handlers, job, now, runs, reverted, raced, won, setbacks>>

HasHandler(w) == name[job[w]] \in Range(handlers[w])

\* Mutant: the job is not given back.
no_handler_unreverted(w) ==
    /\ phase[w] = "marked"
    /\ ~HasHandler(w)
    /\ Leaves(w)
    /\ UNCHANGED <<tableVars, clock, handlers, historyVars>>

no_handler(w) ==
    /\ phase[w] = "marked"
    /\ ~HasHandler(w)
    /\ SetStatus(job[w], "pending")
    /\ reverted' = reverted \cup {job[w]}
    /\ Leaves(w)
    /\ UNCHANGED <<last, name, run_at, clock, handlers, runs, raced, won, setbacks>>

call_handler(w) ==
    /\ phase[w] = "marked"
    /\ HasHandler(w)
    /\ runs' = [runs EXCEPT ![job[w]][w] = IF @ = 0 THEN 1 ELSE 2]
    /\ phase' = [phase EXCEPT ![w] = "handling"]
    /\ UNCHANGED <<tableVars, clock, handlers, job, now, reverted, raced, won, missed, faults, setbacks>>

\* Mutant: an error of the handler, nil, counts as success.
handler_returns_unchecked(w, ok) ==
    /\ phase[w] = "handling"
    /\ SetStatus(job[w], "completed")
    /\ won' = IF ok THEN won \cup {job[w]} ELSE won
    /\ Leaves(w)
    /\ UNCHANGED <<last, name, run_at, clock, handlers, runs, reverted, raced, setbacks>>

\* The handler returns a true value, or nil or false.  An error of the handler
\* gives nil too; vm->had_error then ends the program, a crash of an idle
\* worker.
handler_returns(w, ok) ==
    /\ phase[w] = "handling"
    /\ SetStatus(job[w], IF ok THEN "completed" ELSE "failed")
    /\ won' = IF ok THEN won \cup {job[w]} ELSE won
    /\ Leaves(w)
    /\ UNCHANGED <<last, name, run_at, clock, handlers, runs, reverted, raced, setbacks>>

\* The worker process dies; the supervisor of cli.c starts it again, and it
\* has yet to register its handlers.
crash(w) ==
    /\ MayFail
    /\ faults' = faults + 1
    /\ handlers' = [handlers EXCEPT ![w] = <<>>]
    /\ Leaves(w)
    /\ UNCHANGED <<tableVars, clock, runs, reverted, raced, won, missed, setbacks>>

-----------------------------------------------------------------------------

Init ==
    /\ last = 0
    /\ status = [j \in Jobs |-> "none"]
    /\ name = [j \in Jobs |-> Nil]
    /\ run_at = [j \in Jobs |-> 0]
    /\ clock = MaxTime
    /\ handlers = [w \in Workers |-> <<>>]
    /\ phase = [w \in Workers |-> "idle"]
    /\ job = [w \in Workers |-> Nil]
    /\ now = [w \in Workers |-> 0]
    /\ runs = [j \in Jobs |-> [w \in Workers |-> 0]]
    /\ reverted = {}
    /\ raced = {}
    /\ won = {}
    /\ missed = {}
    /\ faults = 0 /\ setbacks = 0

native_jobs_run_one(w) ==
    \/ select_job(w)
    \/ mark_running(w)
    \/ no_handler(w)
    \/ call_handler(w)
    \/ \E ok \in BOOLEAN : handler_returns(w, ok)

Next ==
    \/ \E n \in Names : native_jobs_enqueue(n)
    \/ native_jobs_clear
    \/ \E time \in Times : clock_advances(time) \/ clock_set_back(time)
    \/ \E w \in Workers :
          \/ \E n \in Names : native_jobs_process(w, n)
          \/ native_jobs_run_one(w)
          \/ crash(w)

Spec == Init /\ [][Next]_vars

\* A worker calls jobs.run_one again and again, and its handlers return.
\* Whether it ever registers a handler is up to the program.
FairSpec == Spec /\ \A w \in Workers : WF_vars(native_jobs_run_one(w))

-----------------------------------------------------------------------------
(* Properties.                                                             *)

\* The types of the table's columns and of a worker's place in
\* native_jobs_run_one; native_jobs_process stays within the array.
TypeOK ==
    /\ last \in 0..MaxJobs
    /\ status \in [Jobs -> {"none", "pending", "running", "completed", "failed"}]
    /\ name \in [Jobs -> Names \cup {Nil}]
    /\ handlers \in [Workers -> Seq(Names)]
    /\ \A w \in Workers : Len(handlers[w]) <= MaxHandlers
    /\ run_at \in [Jobs -> Times] /\ clock \in Times
    /\ phase \in [Workers -> {"idle", "selected", "marked", "handling"}]
    /\ job \in [Workers -> Jobs \cup {Nil}]
    /\ now \in [Workers -> Times]
    /\ \A w \in Workers : phase[w] = "idle" <=> job[w] = Nil
    /\ runs \in [Jobs -> [Workers -> 0..2]]
    /\ reverted \subseteq Jobs
    /\ raced \subseteq Jobs
    /\ won \subseteq Jobs
    /\ missed \subseteq Jobs
    /\ faults \in Nat /\ setbacks \in Nat

\* native_jobs_run_one marks a job before it calls the handler, and select and
\* mark are two steps.  So each worker calls a handler for a job at most once,
\* even if it crashes and starts again, and two workers do so only if the second
\* selected the job before the first had marked it.  The exceptions are a job
\* that some worker without a handler has given back, and one whose UPDATE has
\* failed unnoticed.
RunOnce ==
    \A j \in Jobs \ (reverted \cup missed) : \A v, w \in Workers :
        /\ runs[j][w] <= 1
        /\ runs[j][v] # 0 /\ runs[j][w] # 0 => v = w \/ j \in raced

\* First in, first out, although select_job and mark_running are two steps and
\* the clock may be set back: while a worker has a job, no job enqueued earlier
\* and due when the worker read the time waits to be selected, unless some
\* worker has given it back.
InOrder ==
    \A w \in Workers : \A i \in Jobs \ reverted :
        job[w] # Nil /\ i < job[w] /\ run_at[i] <= now[w] => status[i] # "pending"

\* A job is recorded as completed only if a call of its handler returned a
\* true value, whoever wrote the row last and whatever crashed or failed.
CompletedHasSucceeded == \A j \in Jobs : status[j] = "completed" => j \in won

Waiting(j) == status[j] \in {"pending", "running"}

\* Some worker that calls jobs.run_one has no handler for this job or one
\* before it that waits.
Unserved(j) ==
    \E w \in Workers, i \in 1..j : Waiting(i) /\ name[i] \notin Range(handlers[w])

\* A job keeps waiting, once it is due and the clock stays, only for one reason:
\* some worker that has no handler for it, or for a job before it, takes that job
\* and gives it back again and again (native_jobs_run_one).  Otherwise it is
\* tried, as long as no worker crashes and no statement fails; after a crash in
\* run_one it may stay 'running' for ever.
JobsTried ==
    \A j \in Jobs :
        (Waiting(j) /\ [](~Unserved(j) /\ run_at[j] <= clock))
            ~> (~Waiting(j) \/ faults > 0)

\* README.md:153 calls the queue "persisted to SQLite, retry with backoff": a
\* job that has failed is tried again, unless it is cleared.  In the code a
\* failed job stays failed, since only 'pending' jobs are selected.
FailedAreRetried == \A j \in Jobs : status[j] = "failed" ~> status[j] # "failed"
=============================================================================
