----------------------------- MODULE PRActivity -----------------------------
(***************************************************************************)
(* What happens on GitHub to a pull request, and what of it a session      *)
(* hears: the job git.prs keeps the row of the pull request                *)
(* (gitservice.go syncGitHubPR), the job session.pr_activity polls its     *)
(* reviews, review comments and check runs and tells the news              *)
(* (practivity.go SyncPRActivity, sessionservice.go SyncPRActivity).  The  *)
(* two jobs run at the same time and write columns of the same row.        *)
(*                                                                         *)
(* One pull request and the session on its branch.  A review or comment is *)
(* its kind and its id; ids grow, but one may become visible after a later *)
(* one (a review is written before it is submitted).                       *)
(***************************************************************************)
EXTENDS Naturals, FiniteSets

CONSTANTS
  ItemIds,    \* ids of reviews and of comments
  OwnItems,   \* items of the user, or without an author
  Heads,      \* head commits
  Runs,       \* check runs of a commit
  NoHead      \* no commit known

ASSUME GitHubAssumption == ItemIds \subseteq Nat \ {0} /\ NoHead \notin Heads

Kinds   == {"review", "comment"}
Items   == Kinds \X ItemIds
PRs     == {"draft", "open", "closed", "merged"}
Results == {"absent", "running", "good", "bad"}

VARIABLES
  hub,      \* GitHub: what can be listed of the pull request
  prRow,      \* the row of the pull request
  prSync,   \* the job git.prs: what it listed and has not written
  act,      \* the job session.pr_activity: its place, its copy of the row, its news
  sess,     \* the session on the branch: "none", "live" or "archived"
  told,     \* history: how often an item was told
  before,   \* history: items there before the pull request was first looked at
  missed,   \* history: items that a stop of the daemon lost, or that came out of order
  rollup,   \* history: the rollup told last, or lost by a stop, for the commit of the row's checks
  again     \* history: one rollup was told twice

prVars == <<hub, prRow, prSync, act, sess, told, before, missed, rollup, again>>

NoPRRow == [known |-> FALSE, state |-> "open", assigned |-> FALSE, head |-> NoHead,
            marks |-> [k \in Kinds |-> 0], baselined |-> FALSE, checks |-> "none", checksHead |-> NoHead]
Rest  == [at |-> "idle", pr |-> NoPRRow, news |-> {}, event |-> "none"]
Asleep == [at |-> "idle", state |-> "open", assigned |-> FALSE, head |-> NoHead]

PRInit ==
  /\ hub \in [seen : {{}}, state : {"draft", "open"}, assigned : BOOLEAN, head : Heads,
              runs : {[h \in Heads |-> [r \in Runs |-> "absent"]]}]
  /\ prRow = NoPRRow
  /\ prSync = Asleep
  /\ act = Rest
  /\ sess = "none"
  /\ told = [i \in Items |-> 0]
  /\ before = {}
  /\ missed = {}
  /\ rollup = "none"
  /\ again = FALSE

-----------------------------------------------------------------------------
(***************************************************************************)
(* GitHub and the user.                                                    *)
(***************************************************************************)
\* A review or comment becomes visible; below the mark it will never be looked at.
Submit(i) ==
  /\ i \notin hub.seen
  /\ hub' = [hub EXCEPT !.seen = @ \cup {i}]
  /\ missed' = IF \E j \in hub.seen : j[1] = i[1] /\ j[2] > i[2] THEN missed \cup {i} ELSE missed
  /\ UNCHANGED <<prRow, prSync, act, sess, told, before, rollup, again>>

RunChanges(h, r, result) ==
  /\ hub.runs[h][r] # result /\ result # "absent"
  /\ hub' = [hub EXCEPT !.runs[h][r] = result]
  /\ UNCHANGED <<prRow, prSync, act, sess, told, before, missed, rollup, again>>

\* A push, or a change of the state or of the assignees.
PRChanges ==
  /\ \/ \E h \in Heads \ {hub.head} : hub' = [hub EXCEPT !.head = h]
     \/ \E s \in PRs \ {hub.state} : hub.state # "merged" /\ hub' = [hub EXCEPT !.state = s]
     \/ hub' = [hub EXCEPT !.assigned = ~@]
  /\ UNCHANGED <<prRow, prSync, act, sess, told, before, missed, rollup, again>>

\* A session is made on the branch, archived, or activated again.
SessionChanges ==
  /\ sess' \in (IF sess = "live" THEN {"archived"} ELSE {"live"})
  /\ UNCHANGED <<hub, prRow, prSync, act, told, before, missed, rollup, again>>

-----------------------------------------------------------------------------
(***************************************************************************)
(* The job git.prs.                                                        *)
(***************************************************************************)
ListRepoPRs ==
  /\ prSync.at = "idle"
  /\ prSync' = [at |-> "listed", state |-> hub.state, assigned |-> hub.assigned, head |-> hub.head]
  /\ UNCHANGED <<hub, prRow, act, sess, told, before, missed, rollup, again>>

\* Update omits the columns of the activity.
Synced == [prRow EXCEPT !.known = TRUE, !.state = prSync.state, !.assigned = prSync.assigned, !.head = prSync.head]

\* Mutant of Update: the whole row is written as it was built from the listing.
UpdateAll ==
  prRow' = [NoPRRow EXCEPT !.known = TRUE, !.state = prSync.state, !.assigned = prSync.assigned,
                           !.head = prSync.head, !.baselined = prRow.baselined]

Update == prRow' = Synced

NewlyAssigned ==
  prSync.assigned /\ prSync.state = "open" /\ (~prRow.known \/ ~prRow.assigned)

\* The row is written and the change published; an assigned pull request without a
\* session gets one, unless it was dismissed, has no workspace or cannot be created.
SyncGitHubPR ==
  /\ prSync.at = "listed"
  /\ Update
  /\ sess' \in IF NewlyAssigned /\ sess = "none" THEN {"none", "live"} ELSE {sess}
  /\ prSync' = Asleep
  /\ UNCHANGED <<hub, act, told, before, missed, rollup, again>>

-----------------------------------------------------------------------------
(***************************************************************************)
(* The job session.pr_activity.                                            *)
(***************************************************************************)
IsOpen(state) == state \in {"open", "draft"}

StartActivity ==
  /\ act.at = "idle"
  /\ sess = "live" /\ prRow.known /\ IsOpen(prRow.state)
  /\ act' = [Rest EXCEPT !.at = "review", !.pr = prRow]
  /\ UNCHANGED <<hub, prRow, prSync, sess, told, before, missed, rollup, again>>

Highest(ids) == CHOOSE n \in ids : \A m \in ids : m <= n
IdsOf(k)  == {i[2] : i \in {j \in hub.seen : j[1] = k}}
Watermark(k) == Highest(IdsOf(k) \cup {act.pr.marks[k]})

\* newReviews and newReviewComments: above the mark, and not the user's own.
NewItems(k) ==
  {i \in hub.seen \ OwnItems : i[1] = k /\ act.pr.baselined /\ i[2] > act.pr.marks[k]}

\* The list of one kind.
FetchItems(k, next) ==
  /\ act.at = k
  /\ act' = [act EXCEPT !.at = next, !.news = @ \cup NewItems(k), !.pr.marks[k] = Watermark(k)]
  /\ UNCHANGED <<hub, prRow, prSync, sess, told, before, missed, rollup, again>>

FetchReviews  == FetchItems("review", "comment")
FetchComments == FetchItems("comment", "checks")

Final(state) == state \in {"passed", "failed"}

\* checksTransition, from the check runs of the head as this job knows it.
RunsOf(h)   == {r \in Runs : hub.runs[h][r] # "absent"}
RunsComplete(h) == \A r \in RunsOf(h) : hub.runs[h][r] # "running"
FailedRuns(h)   == {r \in RunsOf(h) : hub.runs[h][r] = "bad"}
Rollup(h)   == IF FailedRuns(h) # {} THEN (IF RunsComplete(h) THEN "failed" ELSE "failing")
               ELSE IF RunsComplete(h) /\ RunsOf(h) # {} THEN "passed" ELSE "pending"

\* The rollup the row has for this head; a new commit has none.
ChecksBefore == IF act.pr.checksHead = act.pr.head THEN act.pr.checks ELSE "none"

\* A rollup that was final stays while a late run is under way.
ChecksKept ==
  LET now == Rollup(act.pr.head)
  IN IF ~Final(now) /\ Final(ChecksBefore) THEN ChecksBefore ELSE now

\* Told is a final one that is new, but not at the first sight of a pull request.
ChecksToTell ==
  LET now == Rollup(act.pr.head)
  IN IF Final(now) /\ now # ChecksBefore /\ act.pr.checksHead # NoHead THEN now ELSE "none"

FetchChecks ==
  /\ act.at = "checks"
  /\ act' = [act EXCEPT !.at = "persist", !.event = ChecksToTell, !.pr.baselined = TRUE,
                        !.pr.checks = ChecksKept, !.pr.checksHead = act.pr.head]
  /\ UNCHANGED <<hub, prRow, prSync, sess, told, before, missed, rollup, again>>

\* A call of GitHub or the write of the row fails: the job goes on with the next
\* pull request, and what it had noted of this one is forgotten.
ActivityFails ==
  /\ act.at \in {"review", "comment", "checks", "persist"}
  /\ act' = Rest
  /\ UNCHANGED <<hub, prRow, prSync, sess, told, before, missed, rollup, again>>

\* UpdateActivity writes the columns of the activity only.
UpdateActivity ==
  /\ act.at = "persist"
  /\ prRow' = [prRow EXCEPT !.marks = act.pr.marks, !.baselined = TRUE,
                            !.checks = act.pr.checks, !.checksHead = act.pr.checksHead]
  /\ act' = [act EXCEPT !.at = "tell"]
  /\ before' = IF prRow.baselined THEN before
               ELSE {i \in hub.seen : i[2] <= act.pr.marks[i[1]]}
  /\ rollup' = IF prRow.checksHead = act.pr.checksHead THEN rollup ELSE "none"
  /\ UNCHANGED <<hub, prSync, sess, told, missed, again>>

\* publishNotification of everything that is new.
PublishNews ==
  /\ act.at = "tell"
  /\ told' = [i \in Items |-> IF i \in act.news THEN told[i] + 1 ELSE told[i]]
  /\ rollup' = IF act.event = "none" THEN rollup ELSE act.event
  /\ again' = (again \/ (act.event # "none" /\ act.event = rollup))
  /\ act' = Rest
  /\ UNCHANGED <<hub, prRow, prSync, sess, before, missed>>

\* The daemon stops and starts.
RestartJobs ==
  /\ act.at # "idle" \/ prSync.at # "idle"
  /\ missed' = IF act.at = "tell" THEN missed \cup act.news ELSE missed
  /\ rollup' = IF act.at = "tell" /\ act.event # "none" THEN act.event ELSE rollup
  /\ act' = Rest
  /\ prSync' = Asleep
  /\ UNCHANGED <<hub, prRow, sess, told, before, again>>

-----------------------------------------------------------------------------
OnGitHub ==
  \/ \E i \in Items : Submit(i)
  \/ \E h \in Heads, r \in Runs, result \in Results : RunChanges(h, r, result)
  \/ PRChanges
  \/ SessionChanges
  \/ RestartJobs
  \/ ActivityFails

PRJobs ==
  \/ ListRepoPRs \/ SyncGitHubPR
  \/ StartActivity \/ FetchReviews \/ FetchComments \/ FetchChecks \/ UpdateActivity \/ PublishNews

PRNext == OnGitHub \/ PRJobs
PRSpec == PRInit /\ [][PRNext]_prVars

-----------------------------------------------------------------------------
(***************************************************************************)
(* Properties.                                                             *)
(***************************************************************************)
\* The type of every variable.
PRRowType == [known : BOOLEAN, state : PRs, assigned : BOOLEAN, head : Heads \cup {NoHead},
              marks : [Kinds -> Nat], baselined : BOOLEAN,
              checks : {"none", "pending", "failing", "passed", "failed"}, checksHead : Heads \cup {NoHead}]
ActType == [at : {"idle", "review", "comment", "checks", "persist", "tell"}, pr : PRRowType,
            news : SUBSET Items, event : {"none", "passed", "failed"}]
PRTypeOK ==
  /\ hub \in [seen : SUBSET Items, state : PRs, assigned : BOOLEAN, head : Heads, runs : [Heads -> [Runs -> Results]]]
  /\ prRow \in PRRowType
  /\ prSync \in [at : {"idle", "listed"}, state : PRs, assigned : BOOLEAN, head : Heads \cup {NoHead}]
  /\ act \in ActType
  /\ sess \in {"none", "live", "archived"}
  /\ told \in [Items -> Nat]
  /\ before \subseteq Items /\ missed \subseteq Items
  /\ rollup \in {"none", "passed", "failed"} /\ again \in BOOLEAN

Looked(i) == prRow.baselined /\ i[2] <= prRow.marks[i[1]]

\* A review or comment is told at most once, restarts of the daemon, failing calls and the
\* other job's writes of the row notwithstanding; and when the job rests, whatever lies
\* below its marks was told, unless it was there before the pull request was first looked
\* at, is the user's own, was lost by a stop between the write of the row and the
\* notification, or became visible after an item with a higher id (practivity.go:89).
NothingToldTwice == \A i \in Items : told[i] <= 1
NothingSkipped ==
  act.at = "idle" =>
    \A i \in hub.seen \ (OwnItems \cup before \cup missed) : Looked(i) => told[i] = 1
\* A rollup of the checks is told again only after it was different, or for another head.
RollupsAreNews == ~again
EachIsToldOnce == NothingToldTwice /\ NothingSkipped /\ RollupsAreNews
=============================================================================
