------------------------------- MODULE Crawl -------------------------------
(***************************************************************************)
(* What crawling promises to users, without queue, handlers, agents or     *)
(* files: a search is a set of jobs, a job is handed out once, its result  *)
(* comes once or never and goes to the search that lists it, and a search  *)
(* is completed when all its jobs have had their results.  A fault takes   *)
(* results that are still to come, or all searches at once; it never takes *)
(* one search, one result, or the completion of a search.                  *)
(***************************************************************************)
EXTENDS Integers, FiniteSets

CONSTANT Jobs     \* jobs: records with (at least) the search they are for

VARIABLES
  known,          \* from the searches there are to what users see of them
  handed,         \* the jobs that were handed out
  waiting,        \* those whose result may still come
  missed          \* those whose result came when no search listed them

cvars == <<known, handed, waiting, missed>>

Fresh == [listed |-> {}, results |-> {}, completed |-> FALSE]

CInit ==
  /\ known = [s \in {} |-> Fresh]
  /\ handed = {} /\ waiting = {} /\ missed = {}

\* A user posts a search.
Accept(s) ==
  /\ s \notin DOMAIN known
  /\ known' = [t \in DOMAIN known \cup {s} |-> IF t = s THEN Fresh ELSE known[t]]
  /\ UNCHANGED <<handed, waiting, missed>>

\* The search gets a job more, and is completed no longer if it was.
List(job) ==
  /\ job.search \in DOMAIN known
  /\ job \notin known[job.search].listed
  /\ known' = [known EXCEPT ![job.search] =
       [listed |-> @.listed \cup {job}, results |-> @.results, completed |-> FALSE]]
  /\ UNCHANGED <<handed, waiting, missed>>

\* An agent takes the job, or the answer that gives it to the agent is lost.
Hand(job) ==
  /\ job \notin handed
  /\ handed' = handed \cup {job}
  /\ waiting' \in {waiting, waiting \cup {job}}
  /\ UNCHANGED <<known, missed>>

Lists(job) == job.search \in DOMAIN known /\ job \in known[job.search].listed

\* The result comes and goes to the search that lists the job, if there is one.
Deliver(job) ==
  /\ job \in waiting
  /\ waiting' = waiting \ {job}
  /\ \/ /\ Lists(job)
        /\ known' = [known EXCEPT ![job.search].results = @ \cup {job}]
        /\ UNCHANGED missed
     \/ /\ ~Lists(job)
        /\ missed' = missed \cup {job}
        /\ UNCHANGED known
  /\ UNCHANGED handed

\* Every job of the search has had its result.
Complete(s) ==
  /\ known[s].listed # {}
  /\ known[s].listed \subseteq known[s].results \cup missed
  /\ known' = [known EXCEPT ![s].completed = TRUE]
  /\ UNCHANGED <<handed, waiting, missed>>

Lose ==
  /\ waiting' \in SUBSET waiting
  /\ known' \in {known, [s \in {} |-> Fresh]}
  /\ UNCHANGED <<handed, missed>>

CNext ==
  \/ \E job \in Jobs : Accept(job.search) \/ List(job) \/ Hand(job) \/ Deliver(job)
  \/ \E s \in DOMAIN known : Complete(s)
  \/ Lose

CSpec == CInit /\ [][CNext]_cvars
=============================================================================
