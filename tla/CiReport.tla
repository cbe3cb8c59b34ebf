------------------------------ MODULE CiReport -------------------------------
(***************************************************************************)
(* The ci report command (src/cli/commands/ci.ts, src/ci/): one run of it  *)
(* per pull-request event reads the event and the scan report, builds the  *)
(* surfaces and posts them, and its exit code is the verdict of the job.   *)
(*                                                                         *)
(* Outside is the GitHub REST API: its comments, review comments and       *)
(* statuses of one pull request, other people who comment and delete, and  *)
(* the workflow that cancels a run when the next one starts.  A cancelled  *)
(* run is killed; a request it had sent may still be carried out later.    *)
(***************************************************************************)
EXTENDS Integers, Sequences, FiniteSets, SequencesExt

CONSTANTS
  Invocations, \* what a run may be given, a subset of Invocation
  PerPage,     \* comments on a page of the listing (100 in the code)
  MaxRuns,     \* bound: runs of the workflow for this pull request
  MaxOthers,   \* bound: comments of others
  MaxDeletes,  \* bound: comments that others delete
  MaxFailures  \* bound: requests that are refused or whose answer is lost

Surfaces      == {"comment", "reviewComments", "status"}
ContextPieces == {"eventFile", "eventJson", "pullRequestEvent", "pullRequest",
                  "repository", "number", "baseRef", "headSha"}
Report        == {"missing", "unparseable", "null", "otherVersion", "malformed", "valid"}
Severity      == {"error", "warning"}

Invocation ==
  [maxReviewComments : Int,       \* after Number.parseInt
   missing : SUBSET ContextPieces,
   event : {"object", "null"},    \* what an event file that parses holds
   report : Report, diagnostics : Seq(Severity),
   blocking : {"none", "error", "warn"},
   want : SUBSET Surfaces, dryRun : BOOLEAN, token : BOOLEAN]

ASSUME CiAssumption ==
  /\ Invocations \subseteq Invocation
  /\ PerPage \in Nat \ {0} /\ MaxRuns \in Nat
  /\ MaxOthers \in Nat /\ MaxDeletes \in Nat /\ MaxFailures \in Nat

NoExit    == 9
NoRequest == [run |-> 0, kind |-> "none", arg |-> 0]

VARIABLES
  run,      \* runs started so far: the number of the current one
  pc,       \* where the current run is
  in,       \* what it was given
  page,     \* the page of the listing it asks for next
  existing, \* the comments it has listed
  posted,   \* review comments whose answer was 2xx
  warnings, \* surfaces named on stderr
  request,  \* the request it waits for
  exit,     \* NoExit while it has none; 1 also after an uncaught exception
  crashed,  \* did an exception nothing catches end it?
  orphans,  \* requests of cancelled runs that the server still may carry out
  comments, \* the issue comments: [id, ours, marked, body], created by a run?,
            \* does it bear the marker, and the run that wrote its body
  reviews, statuses, \* what the server has created, in order
  ids,      \* comments ever created
  others, deletes, failures, \* how much the outside has done
  lateWrites, \* late requests that changed a comment, and when
  deleted     \* when comments were deleted

here    == <<pc, page, existing, posted, warnings, request, exit, crashed>>
server  == <<comments, reviews, statuses, ids>>
outside == <<others, deletes, lateWrites, deleted>>
vars    == <<run, in, here, orphans, server, failures, outside>>

-----------------------------------------------------------------------------
(* surfaces.ts                                                             *)
Count(severity) == Cardinality({i \in DOMAIN in.diagnostics : in.diagnostics[i] = severity})

blockingExitCode ==
  IF \/ in.blocking = "error" /\ Count("error") > 0
     \/ in.blocking = "warn" /\ Len(in.diagnostics) > 0 THEN 1 ELSE 0

(* buildSurfaces: a surface that is switched off is left out.              *)
Built == in.want

(* The diagnostics that get a review comment, in report order.             *)
ReviewCount == IF in.maxReviewComments < Len(in.diagnostics)
               THEN in.maxReviewComments ELSE Len(in.diagnostics)

(* context.ts and loadReport: what is wrong ends the run.  JSON null is an *)
(* event and a report whose members the code reads.                        *)
ContextError == in.missing # {}
ContextCrash ==
  in.event = "null" /\ in.missing \cap {"eventFile", "eventJson", "pullRequestEvent"} = {}

LoadReport == CASE in.report = "null"  -> "crash"
                [] in.report = "valid" -> "ok"
                [] OTHER               -> "error"

-----------------------------------------------------------------------------
Init ==
  /\ run = 0 /\ pc = "ended" /\ in \in Invocations
  /\ page = 1 /\ existing = <<>> /\ posted = 0 /\ warnings = {}
  /\ request = NoRequest /\ exit = NoExit /\ crashed = FALSE
  /\ orphans = {}
  /\ comments = <<>> /\ reviews = <<>> /\ statuses = <<>> /\ ids = 0
  /\ others = 0 /\ deletes = 0 /\ failures = 0
  /\ lateWrites = {} /\ deleted = {}

(* The workflow starts a run; cancel-in-progress kills the one before.     *)
StartRun ==
  /\ run < MaxRuns
  /\ run' = run + 1 /\ in' \in Invocations
  /\ pc' = "args" /\ page' = 1 /\ existing' = <<>> /\ posted' = 0
  /\ warnings' = {} /\ exit' = NoExit /\ crashed' = FALSE
  /\ request' = NoRequest
  /\ orphans' = orphans \cup ({request} \ {NoRequest})
  /\ UNCHANGED <<server, failures, outside>>

Goto(place) ==
  /\ pc' = place
  /\ UNCHANGED <<run, in, page, existing, posted, warnings, request, exit, crashed,
                 orphans, server, failures, outside>>

EndWith(code, uncaught) ==
  /\ pc' = "ended" /\ exit' = code /\ crashed' = uncaught
  /\ UNCHANGED <<run, in, page, existing, posted, warnings, request,
                 orphans, server, failures, outside>>

CheckArguments ==
  /\ pc = "args"
  /\ IF in.maxReviewComments < 1 THEN EndWith(2, FALSE) ELSE Goto("context")

ResolveContext ==
  /\ pc = "context"
  /\ CASE ContextCrash -> EndWith(1, TRUE)
       [] ~ContextCrash /\ ContextError  -> EndWith(2, FALSE)
       [] ~ContextCrash /\ ~ContextError -> Goto("report")

ReadReport ==
  /\ pc = "report"
  /\ CASE LoadReport = "crash" -> EndWith(1, TRUE)
       [] LoadReport = "error" -> EndWith(2, FALSE)
       [] OTHER -> Goto("surfaces")

(* buildSurfaces; then --dry-run prints, and without a token every surface *)
(* that was built is named on stderr.                                      *)
BuildSurfaces ==
  /\ pc = "surfaces"
  /\ \/ in.dryRun /\ EndWith(blockingExitCode, FALSE)
     \/ /\ ~in.dryRun /\ ~in.token
        /\ pc' = "ended" /\ exit' = blockingExitCode /\ warnings' = Built
        /\ UNCHANGED <<run, in, page, existing, posted, request, crashed,
                       orphans, server, failures, outside>>
     \/ ~in.dryRun /\ in.token /\ Goto("comment")

-----------------------------------------------------------------------------
(* poster.ts: one request at a time.                                       *)
Send(kind, arg) ==
  /\ request' = [run |-> run, kind |-> kind, arg |-> arg]
  /\ UNCHANGED <<run, in, pc, page, existing, posted, warnings, exit, crashed,
                 orphans, server, failures, outside>>

Marked(list) == SelectInSeq(list, LAMBDA comment : comment.marked)

PostComment ==
  /\ pc = "comment" /\ request = NoRequest
  /\ IF "comment" \in Built THEN Send("list", page) ELSE Goto("reviewComments")

(* The listing is complete: update the first comment that bears the marker,*)
(* or create one.                                                          *)
UpdateOrCreate ==
  /\ pc = "sticky" /\ request = NoRequest
  /\ LET i == Marked(existing)
     IN  IF i # 0 THEN Send("PATCH", existing[i].id) ELSE Send("POST", 0)

PostReviewComments ==
  /\ pc = "reviewComments" /\ request = NoRequest
  /\ IF "reviewComments" \in Built /\ posted < ReviewCount
     THEN Send("review", posted + 1)
     ELSE Goto("status")

PostStatus ==
  /\ pc = "status" /\ request = NoRequest
  /\ IF "status" \in Built THEN Send("status", blockingExitCode)
     ELSE EndWith(blockingExitCode, FALSE)

(* The surface a request is for, and where the run goes once it is done.   *)
SurfaceOf(r) == CASE r.kind \in {"list", "PATCH", "POST"} -> "comment"
                  [] r.kind = "review" -> "reviewComments"
                  [] OTHER -> "status"

After_NothingMore(surface) == IF surface = "comment" THEN "status" ELSE "ended"

After(surface) == CASE surface = "comment" -> "reviewComments"
                    [] surface = "reviewComments" -> "status"
                    [] OTHER -> "ended"

ExitAfter_Warned(surface) ==
  IF surface = "status" THEN (IF warnings = {} THEN blockingExitCode ELSE 1) ELSE exit
ExitAfter(surface) == IF surface = "status" THEN blockingExitCode ELSE exit

-----------------------------------------------------------------------------
(* The server carries out a write; lists and refused requests change none. *)
HasComment(id) == \E i \in DOMAIN comments : comments[i].id = id

Carries(r) == IF r.kind = "PATCH" THEN HasComment(r.arg) ELSE TRUE

CarryOut(r) ==
  /\ comments' =
       CASE r.kind = "POST" ->
              Append(comments, [id |-> ids + 1, ours |-> TRUE, marked |-> TRUE, body |-> r.run])
         [] r.kind = "PATCH" ->
              [i \in DOMAIN comments |->
                 IF comments[i].id = r.arg
                 THEN [comments[i] EXCEPT !.marked = TRUE, !.body = r.run]
                 ELSE comments[i]]
         [] OTHER -> comments
  /\ ids' = IF r.kind = "POST" THEN ids + 1 ELSE ids
  /\ reviews' = IF r.kind = "review" THEN Append(reviews, [run |-> r.run, item |-> r.arg])
                ELSE reviews
  /\ statuses' = IF r.kind = "status" THEN Append(statuses, [run |-> r.run, exit |-> r.arg])
                 ELSE statuses

Page(n)     == SubSeq(comments, (n - 1) * PerPage + 1,
                      IF n * PerPage < Len(comments) THEN n * PerPage ELSE Len(comments))
NextPage_First(n) == FALSE
NextPage(n) == n * PerPage < Len(comments)

(* The answer is 2xx.                                                      *)
Answered ==
  /\ request # NoRequest /\ Carries(request)
  /\ CarryOut(request)
  /\ request' = NoRequest
  /\ CASE request.kind = "list" ->
            /\ existing' = existing \o Page(page)
            /\ page' = page + 1
            /\ pc' = IF NextPage(page) THEN "comment" ELSE "sticky"
            /\ UNCHANGED <<posted, exit>>
       [] request.kind = "review" ->
            posted' = posted + 1 /\ UNCHANGED <<existing, page, pc, exit>>
       [] OTHER ->
            /\ pc' = After(SurfaceOf(request)) /\ exit' = ExitAfter(SurfaceOf(request))
            /\ UNCHANGED <<existing, page, posted>>
  /\ UNCHANGED <<run, in, warnings, crashed, orphans, failures, outside>>

(* The request fails for the run: it was refused, or it was carried out    *)
(* and the answer was lost.  The rest of the surface is given up.          *)
GiveUpSurface_TriesAgain ==
  /\ warnings' = warnings \cup {SurfaceOf(request)} /\ request' = NoRequest
  /\ UNCHANGED <<run, in, pc, page, existing, posted, exit, crashed, orphans, outside>>
GiveUpSurface ==
  LET surface == SurfaceOf(request)
  IN  /\ warnings' = warnings \cup {surface}
      /\ pc' = After(surface) /\ exit' = ExitAfter(surface)
      /\ request' = NoRequest
      /\ UNCHANGED <<run, in, page, existing, posted, crashed, orphans, outside>>

Refused ==
  /\ request # NoRequest
  /\ failures < MaxFailures \/ ~Carries(request)
  /\ failures' = IF Carries(request) THEN failures + 1 ELSE failures
  /\ GiveUpSurface
  /\ UNCHANGED server

AnswerLost ==
  /\ request # NoRequest /\ Carries(request) /\ failures < MaxFailures
  /\ failures' = failures + 1
  /\ CarryOut(request)
  /\ GiveUpSurface

(* A request of a cancelled run is carried out after all, or never.        *)
LateRequest ==
  \E r \in orphans :
    /\ orphans' = orphans \ {r}
    /\ \/ /\ Carries(r) /\ CarryOut(r)
          /\ lateWrites' = IF r.kind \in {"POST", "PATCH"}
                           THEN lateWrites \cup {[run |-> run, by |-> r.run, kind |-> r.kind]}
                           ELSE lateWrites
       \/ UNCHANGED <<server, lateWrites>>
    /\ UNCHANGED <<run, in, here, failures, others, deletes, deleted>>

(* Others comment, perhaps quoting the summary with its marker, and delete.*)
SomeoneComments ==
  /\ others < MaxOthers
  /\ others' = others + 1 /\ ids' = ids + 1
  /\ \E marked \in {FALSE, Marked(comments) # 0} :
       comments' = Append(comments, [id |-> ids + 1, ours |-> FALSE, marked |-> marked, body |-> 0])
  /\ UNCHANGED <<run, in, here, orphans, reviews, statuses, failures, deletes, lateWrites, deleted>>

SomeoneDeletes ==
  /\ deletes < MaxDeletes
  /\ \E i \in DOMAIN comments : comments' = RemoveAt(comments, i)
  /\ deletes' = deletes + 1
  /\ deleted' = deleted \cup {[run |-> run, listing |-> pc = "comment"]}
  /\ UNCHANGED <<run, in, here, orphans, reviews, statuses, ids, failures, others, lateWrites>>

RunStep == \/ CheckArguments \/ ResolveContext \/ ReadReport \/ BuildSurfaces
           \/ PostComment \/ UpdateOrCreate \/ PostReviewComments \/ PostStatus
Answer  == Answered \/ Refused \/ AnswerLost

Next == \/ StartRun \/ RunStep \/ Answer
        \/ LateRequest \/ SomeoneComments \/ SomeoneDeletes

(* A run that is not cancelled is not interrupted, and fetch settles: with *)
(* an answer, or with an error once the connection or its headers time out.*)
Spec == Init /\ [][Next]_vars /\ WF_vars(RunStep) /\ WF_vars(Answer)

-----------------------------------------------------------------------------
(* The run came to its end; it was one that posts.                         *)
Reported == pc = "ended" /\ exit \in {0, 1} /\ ~crashed
Posts    == ~in.dryRun /\ in.token

(* What the server has of run k: the diagnostics reviewed, the statuses.   *)
ReviewsOf(k)  == {reviews[i].item : i \in {j \in DOMAIN reviews : reviews[j].run = k}}
StatusesOf(k) == {i \in DOMAIN statuses : statuses[i].run = k}

(* The exit code is the blocking verdict whatever posting met, the status  *)
(* posted says the same, and a run that exits 2, is a dry run or has no    *)
(* token has created nothing (spec 016 AC-6, AC-9 to AC-12).               *)
ExitIsTheVerdict ==
  pc = "ended" /\ exit # NoExit =>
    /\ ~crashed /\ exit # 2 => exit = blockingExitCode
    /\ \A i \in StatusesOf(run) : statuses[i].exit = exit
    /\ exit = 2 \/ crashed \/ ~Posts =>
         /\ StatusesOf(run) = {} /\ ReviewsOf(run) = {}
         /\ \A i \in DOMAIN comments : comments[i].body # run

(* A surface that no warning names is posted in full, one that was not     *)
(* asked for not at all, and the number in the warning about the review    *)
(* comments is short of what is posted by one answer at most (AC-8, AC-12).*)
(* The review comments of a run, cancelled or not, are the first           *)
(* diagnostics of its report, each once and in the report's order, even    *)
(* when the last of them arrives late (AC-7).                              *)
EverySurfaceIsAnsweredFor ==
  /\ \A i, j \in DOMAIN reviews :
       i < j /\ reviews[i].run = reviews[j].run => reviews[i].item < reviews[j].item
  /\ \A k \in 1..run : \E n \in {0} \cup ReviewsOf(k) : ReviewsOf(k) = 1..n
  /\ Reported /\ Posts =>
    /\ ReviewsOf(run) \in {1..posted, 1..(posted + 1)}
    /\ IF "reviewComments" \notin in.want THEN ReviewsOf(run) = {}
       ELSE "reviewComments" \notin warnings =>
              /\ ReviewsOf(run) = 1..posted
              /\ posted \in {in.maxReviewComments, Len(in.diagnostics)}
              /\ posted <= in.maxReviewComments /\ posted <= Len(in.diagnostics)
    /\ IF "status" \notin in.want THEN StatusesOf(run) = {}
       ELSE "status" \notin warnings => Cardinality(StatusesOf(run)) = 1

(* The summaries that runs have created and nobody has deleted.            *)
Stickies == {comments[i].id : i \in {j \in DOMAIN comments : comments[j].ours}}

(* The runs do not stack summaries: each one after the first is owed to a  *)
(* cancelled run's POST that arrived late, or to a deletion that moved a   *)
(* comment over a page boundary during a listing (AC-13).                  *)
StickiesDoNotStack ==
  Cardinality(Stickies)
    <= 1 + Cardinality({w \in lateWrites : w.kind = "POST"})
         + Cardinality({d \in deleted : d.listing})

(* The summary a reader meets first is the one of the last run that ended  *)
(* without a warning about it, unless a cancelled run's request or a       *)
(* deletion came in its course.                                            *)
FirstStickyIsCurrent ==
  /\ Reported /\ Posts /\ "comment" \in in.want \ warnings
  /\ \A w \in lateWrites : w.run # run
  /\ \A d \in deleted : d.run # run
  => Marked(comments) # 0 /\ comments[Marked(comments)].body = run

(* There is one summary for the pull request, and it is the newest one.    *)
OneCurrentSticky == StickiesDoNotStack /\ FirstStickyIsCurrent

(* A run ends, also when every request fails: nothing is retried and the   *)
(* listing follows no more pages than there are.                           *)
RunsEnd == pc # "ended" ~> pc = "ended"
=============================================================================
