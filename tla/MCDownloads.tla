------------------------------ MODULE MCDownloads ------------------------------
(***************************************************************************)
(* What must not stay as it is, on small instances: a job behind abandoned *)
(* downloads, a window whose session has ended, and the files of a job     *)
(* without a record.  The three share no state; one of them, chosen in the *)
(* beginning, is at work, and the others stay as they are.                 *)
(***************************************************************************)
EXTENDS DownloadLeases

CONSTANTS t1, t2, p1, user, upload, workflow, None

VARIABLES
    part,
    \* accounts
    password, issued, account, version, live, cookie, shown, token, auth, work,
    \* videos and jobs
    asset, disk, status, link, op, dropping, deaths, age, visits

\* One user, two windows, two logins.
Accounts == INSTANCE Sessions WITH
                Users <- {user}, Windows <- {t1, t2}, Polls <- {p1}, MaxSessions <- 2, MaxResets <- 0, Kept <- 1

\* One upload and one workflow job.
Registry == INSTANCE OrphanCollection WITH
                Sessions <- {upload}, Legacy <- {}, Workflows <- {workflow}, MaxCrashes <- 2, crashes <- deaths, left <- visits

accounts == <<password, issued, account, version, live, cookie, shown, token, auth, work>>
registry == <<asset, disk, status, link, op, dropping, deaths, age, visits>>
all == <<part, vars, accounts, registry>>

EndsInit == part \in {"downloads", "accounts", "registry"} /\ Init /\ Accounts!SessionsInit /\ Registry!CollectionInit

InDownloads(A) == part = "downloads" /\ A /\ UNCHANGED <<part, accounts, registry>>
InAccounts(A) == part = "accounts" /\ A /\ UNCHANGED <<part, vars, registry>>
InRegistry(A) == part = "registry" /\ A /\ UNCHANGED <<part, vars, accounts>>

EndsNext == InDownloads(Next) \/ InAccounts(Accounts!SessionsNext) \/ InRegistry(Registry!CollectionNext)

\* The fairness of each.
EndsFairness ==
    /\ \A r \in Readers : WF_all(InDownloads(Reading(r)))
    /\ \A e \in Executors : WF_all(InDownloads(Locking(e))) /\ SF_all(InDownloads(BeginLock(e)))
    /\ \A t \in {t1, t2} :
         /\ WF_all(InAccounts(Accounts!Poll(t, p1)))
         /\ WF_all(InAccounts(Accounts!ServeWork(t, p1)))
         /\ WF_all(InAccounts(Accounts!AnswerWork(t, p1)))
    /\ WF_all(InRegistry(Registry!Operate /\ Registry!Going))
    /\ WF_all(InRegistry(Registry!EndBatch))
    /\ WF_all(InRegistry(Registry!Operate /\ Registry!DropJob(workflow)))
    /\ WF_all(InRegistry(Registry!Age(workflow))) /\ WF_all(InRegistry(Registry!Visit(workflow)))

EndsSpec == EndsInit /\ [][EndsNext]_all /\ EndsFairness

-------------------------------------------------------------------------------
\* DownloadLeases: without downloads, a job can be run, retried and deleted again.
Served == part = "downloads" => ExecutorServed

\* Sessions: a window whose session has ended goes back to the login form.
Dismissed == part = "accounts" => Accounts!Dismissed

\* OrphanCollection: the files of a job without a record are removed in the end, if
\* batches are started.
JobOrphansGo == part = "registry" => Registry!JobOrphansGo
===============================================================================
