---------------------------- MODULE CiReportProofs ---------------------------
(***************************************************************************)
(* For every number of runs, comments, deletions and failing requests, and *)
(* for every size of a page: the exit code of ci report is the verdict,    *)
(* every surface is answered for, and summaries do not stack.              *)
(*                                                                         *)
(* The invariant says what the server has of the current run at each place *)
(* of it, and what a request still under way would add; requests of        *)
(* cancelled runs can only add what theirs lacked.  The count of summaries *)
(* is one ahead of what justifies it after a POST, and not before one.     *)
(***************************************************************************)
EXTENDS CiReport, SequenceTheorems, FiniteSetTheorems, WellFoundedInduction, TLAPS

Places  == {"args", "context", "report", "surfaces", "comment", "sticky",
            "reviewComments", "status", "ended"}
Early   == {"args", "context", "report", "surfaces"}
Kinds   == {"none", "list", "PATCH", "POST", "review", "status"}
Request == [run : Nat, kind : Kinds, arg : Nat]
Comment == [id : Nat, ours : BOOLEAN, marked : BOOLEAN, body : Nat]

CiTypes ==
  /\ run \in Nat /\ pc \in Places /\ in \in Invocation
  /\ page \in Nat \ {0} /\ posted \in Nat /\ warnings \subseteq Surfaces
  /\ existing \in Seq(Comment)
  /\ request \in Request /\ orphans \subseteq Request
  /\ exit \in {0, 1, 2, NoExit} /\ crashed \in BOOLEAN
  /\ comments \in Seq(Comment) /\ ids \in Nat
  /\ reviews \in Seq([run : Nat, item : Nat])
  /\ statuses \in Seq([run : Nat, exit : Nat])
  /\ IsFiniteSet(lateWrites) /\ lateWrites \subseteq [run : Nat, by : Nat, kind : {"POST", "PATCH"}]
  /\ IsFiniteSet(deleted) /\ deleted \subseteq [run : Nat, listing : BOOLEAN]

(* The run waits for one request, and knows what it asked.                 *)
RequestInv ==
  /\ request = NoRequest \/ (request.run = run /\ request.kind # "none")
  /\ request.kind = "list"   => pc = "comment"
  /\ request.kind = "PATCH"  => pc = "sticky" /\ Marked(existing) # 0
                                  /\ request.arg = existing[Marked(existing)].id
  /\ request.kind = "POST"   => pc = "sticky" /\ Marked(existing) = 0
  /\ request.kind = "review" => pc = "reviewComments" /\ "reviewComments" \in in.want
                                  /\ request.arg = posted + 1 /\ posted < ReviewCount
  /\ request.kind = "status" => pc = "status" /\ "status" \in in.want
                                  /\ request.arg = blockingExitCode

(* A cancelled run has left one request at most, and has written late with *)
(* no other.                                                               *)
OrphansInv ==
  /\ \A r \in orphans : r.run < run /\ r.kind # "none"
  /\ \A r, s \in orphans : r.run = s.run => r = s
  /\ \A w \in lateWrites : w.by < run /\ w.run <= run /\ \A r \in orphans : w.by # r.run
  /\ \A d \in deleted : d.run <= run

(* Nothing on the server is of a run to come, nothing of this one before   *)
(* it posts.                                                               *)
Bodies       == {comments[i].body : i \in DOMAIN comments}
NothingOf(k) == ReviewsOf(k) = {} /\ StatusesOf(k) = {} /\ k \notin Bodies
Nothing      == NothingOf(run)

(* Before it posts, a run has nothing yet of its own either.               *)
FreshInv ==
  /\ run = 0 => pc = "ended" /\ exit = NoExit
  /\ pc \in Early => page = 1 /\ existing = <<>> /\ posted = 0 /\ warnings = {}

ServerInv ==
  /\ \A k \in Nat : k > run => NothingOf(k)
  /\ pc \in Early => Nothing

VerdictInv ==
  /\ pc # "ended" => exit = NoExit /\ ~crashed
  /\ pc \notin {"args", "ended"} => in.maxReviewComments >= 1
  /\ pc \notin Early \cup {"ended"} => Posts
  /\ pc = "ended" /\ exit # NoExit =>
       /\ ~crashed /\ exit # 2 => exit = blockingExitCode
       /\ exit = 2 \/ crashed \/ ~Posts => Nothing
  /\ pc \notin Early \cup {"ended"} => StatusesOf(run) = {}
  /\ \A i \in StatusesOf(run) : statuses[i].exit = blockingExitCode
  /\ Reported /\ Posts =>
       IF "status" \notin in.want THEN StatusesOf(run) = {}
       ELSE "status" \notin warnings => \E i \in DOMAIN statuses : StatusesOf(run) = {i}

ReviewsDone ==
  /\ ReviewsOf(run) \in {1..posted, 1..(posted + 1)}
  /\ IF "reviewComments" \notin in.want THEN ReviewsOf(run) = {}
     ELSE "reviewComments" \notin warnings => ReviewsOf(run) = 1..posted /\ posted = ReviewCount

Increasing ==
  \A i, j \in DOMAIN reviews :
    i < j /\ reviews[i].run = reviews[j].run => reviews[i].item < reviews[j].item

LateReviews ==
  \A r \in orphans : r.kind = "review" => r.arg # 0 /\ ReviewsOf(r.run) = 1..(r.arg - 1)

ReviewsInv == Increasing /\ (\A k \in Nat : \E n \in Nat : ReviewsOf(k) = 1..n) /\ LateReviews

OwnReviews ==
  /\ pc \in Early \cup {"comment", "sticky"} => posted = 0
  /\ pc \in {"comment", "sticky", "reviewComments"} =>
       /\ ReviewsOf(run) = 1..posted /\ posted <= ReviewCount
       /\ "reviewComments" \notin warnings
       /\ "reviewComments" \notin in.want => posted = 0
  /\ pc = "status" \/ (Reported /\ Posts) => ReviewsDone

ReviewInv == ReviewsInv /\ OwnReviews

CommentsInv ==
  /\ \A i \in DOMAIN comments : comments[i].id \in 1..ids /\ (comments[i].ours => comments[i].marked)
  /\ \A i, j \in DOMAIN comments : comments[i].id = comments[j].id => i = j

LatePosts    == {w \in lateWrites : w.kind = "POST"}
LatePostsNow == {w \in LatePosts : w.run = run}
Shifts       == {d \in deleted : d.listing}
Shifted      == [run |-> run, listing |-> TRUE] \in deleted

(* What the run has listed so far is the beginning of the comments.        *)
Listed ==
  /\ Len(existing) = (page - 1) * PerPage /\ Len(existing) <= Len(comments)
  /\ \A i \in DOMAIN existing : comments[i].ours => existing[i].marked

StackInv ==
  /\ IsFiniteSet(Stickies)
  /\ StickiesDoNotStack
  /\ pc \in Early \cup {"comment", "sticky"} /\ Shifted =>
       Cardinality(Stickies) <= Cardinality(LatePosts) + Cardinality(Shifts)
  /\ pc = "comment" /\ ~Shifted => Listed
  /\ pc = "sticky" /\ ~Shifted /\ Marked(existing) = 0 =>
       Cardinality(Stickies) <= Cardinality(LatePostsNow)

Quiet == /\ \A w \in lateWrites : w.run # run
         /\ \A d \in deleted : d.run # run

IsPrefixOfComments ==
  /\ Len(existing) <= Len(comments)
  /\ \A i \in DOMAIN existing :
       existing[i].id = comments[i].id /\ existing[i].marked = comments[i].marked

Current == Marked(comments) # 0 /\ comments[Marked(comments)].body = run

FirstInv ==
  Quiet =>
    /\ pc = "comment" => Len(existing) = (page - 1) * PerPage /\ IsPrefixOfComments
    /\ pc = "sticky" =>
         IsPrefixOfComments /\ (Marked(existing) = 0 => Marked(comments) = 0)
    /\ pc \in {"reviewComments", "status"} \/ (Reported /\ Posts) =>
         ("comment" \in in.want \ warnings => Current)
-----------------------------------------------------------------------------
(* Sequences of comments, and the first that bears the marker.             *)

LEMMA LeastNumber ==
  ASSUME NEW S \in SUBSET Nat, S # {}
  PROVE  \E n \in S : \A m \in S : n <= m
<1>1. IsWellFoundedOn(OpToRel(<, Nat), Nat)
  BY NatLessThanWellFounded
<1>2. PICK x \in S : \A y \in S : ~(<<y, x>> \in OpToRel(<, Nat))
  BY <1>1, WFMin
<1>3. \A y \in S : y < x => <<y, x>> \in OpToRel(<, Nat)
  BY DEF OpToRel
<1>4. \A y \in S : ~(y < x)
  BY <1>2, <1>3
<1> QED
  BY <1>4

LEMMA MinIsIn ==
  ASSUME NEW S, S \subseteq Nat, S # {}
  PROVE  Min(S) \in S /\ \A m \in S : Min(S) <= m
BY LeastNumber DEF Min

MarkedAt(list) == {i \in 1..Len(list) : list[i].marked}

LEMMA MarkedIsMin ==
  ASSUME NEW list
  PROVE  Marked(list) = IF MarkedAt(list) # {} THEN Min(MarkedAt(list)) ELSE 0
BY Zenon DEF Marked, MarkedAt, SelectInSeq

(* Marked is the first that bears the marker, and 0 when there is none.    *)
LEMMA MarkedFirst ==
  ASSUME NEW list \in Seq(Comment)
  PROVE  /\ Marked(list) = 0 <=> \A i \in 1..Len(list) : ~list[i].marked
         /\ Marked(list) # 0 =>
              /\ Marked(list) \in 1..Len(list) /\ list[Marked(list)].marked
              /\ \A i \in 1..Len(list) : list[i].marked => Marked(list) <= i
<1> DEFINE S == MarkedAt(list)
<1>1. Len(list) \in Nat /\ S \subseteq 1..Len(list) /\ S \subseteq Nat
  BY DEF MarkedAt
<1>2. CASE S = {}
  <2>1. Marked(list) = 0
    BY <1>2, MarkedIsMin
  <2> QED BY <1>2, <2>1 DEF MarkedAt
<1>3. CASE S # {}
  <2>1. Marked(list) = Min(S)
    BY <1>3, MarkedIsMin
  <2>2. Min(S) \in S /\ \A m \in S : Min(S) <= m
    BY <1>1, <1>3, MinIsIn
  <2>3. Marked(list) \in S /\ \A m \in S : Marked(list) <= m
    BY <2>1, <2>2, Zenon
  <2> QED BY <1>1, <2>3 DEF MarkedAt
<1> QED BY <1>2, <1>3

LEMMA MarkedIs ==
  ASSUME NEW list \in Seq(Comment), NEW i \in 1..Len(list), list[i].marked,
         \A j \in 1..Len(list) : list[j].marked => i <= j
  PROVE  Marked(list) = i
<1>1. Marked(list) # 0
  BY MarkedFirst
<1>2. Marked(list) \in 1..Len(list) /\ list[Marked(list)].marked /\ Marked(list) <= i
  BY <1>1, MarkedFirst
<1>3. i <= Marked(list)
  BY <1>2
<1> QED BY <1>2, <1>3

LEMMA Appended ==
  ASSUME NEW T, NEW s \in Seq(T), NEW x \in T
  PROVE  /\ Append(s, x) \in Seq(T) /\ Len(Append(s, x)) = Len(s) + 1 /\ Len(s) \in Nat
         /\ DOMAIN s = 1..Len(s) /\ DOMAIN Append(s, x) = 1..(Len(s) + 1)
         /\ \A i \in 1..Len(s) : Append(s, x)[i] = s[i]
         /\ Append(s, x)[Len(s) + 1] = x
OBVIOUS

(* The position in s of what stands at j once the i-th is gone.            *)
Shift(i, j) == IF j < i THEN j ELSE j + 1

LEMMA Removed ==
  ASSUME NEW T, NEW s \in Seq(T), NEW i \in 1..Len(s)
  PROVE  /\ RemoveAt(s, i) \in Seq(T)
         /\ Len(RemoveAt(s, i)) = Len(s) - 1
         /\ \A j \in 1..(Len(s) - 1) :
              Shift(i, j) \in 1..Len(s) /\ RemoveAt(s, i)[j] = s[Shift(i, j)]
<1> DEFINE a == SubSeq(s, 1, i - 1)
           b == SubSeq(s, i + 1, Len(s))
<1>1. Len(s) \in Nat /\ \A j \in 1..Len(s) : s[j] \in T
  OBVIOUS
<1>2. a \in Seq(T) /\ Len(a) = i - 1 /\ \A j \in 1..(i - 1) : a[j] = s[j]
  <2>1. \A j \in 1..(i - 1) : s[j] \in T
    BY <1>1
  <2> HIDE DEF a
  <2>2. /\ a \in Seq(T)
        /\ Len(a) = IF 1 <= i - 1 THEN (i - 1) - 1 + 1 ELSE 0
        /\ \A j \in 1..((i - 1) - 1 + 1) : a[j] = s[1 + j - 1]
    BY <2>1, SubSeqProperties DEF a
  <2> QED BY <1>1, <2>2
<1>3. /\ b \in Seq(T) /\ Len(b) = Len(s) - i
      /\ \A j \in 1..(Len(s) - i) : b[j] = s[i + j]
  <2>1. \A j \in (i + 1)..Len(s) : s[j] \in T
    BY <1>1
  <2> HIDE DEF b
  <2>2. /\ b \in Seq(T)
        /\ Len(b) = IF i + 1 <= Len(s) THEN Len(s) - (i + 1) + 1 ELSE 0
        /\ \A j \in 1..(Len(s) - (i + 1) + 1) : b[j] = s[(i + 1) + j - 1]
    BY <1>1, <2>1, SubSeqProperties DEF b
  <2> QED BY <1>1, <2>2
<1>4. RemoveAt(s, i) = a \o b
  BY DEF RemoveAt
<1> HIDE DEF a, b
<1>5. /\ a \o b \in Seq(T) /\ Len(a \o b) = Len(a) + Len(b)
      /\ \A j \in 1..(Len(a) + Len(b)) :
           (a \o b)[j] = IF j <= Len(a) THEN a[j] ELSE b[j - Len(a)]
  BY <1>2, <1>3, ConcatProperties
<1>6. Len(a) + Len(b) = Len(s) - 1
  BY <1>1, <1>2, <1>3
<1>7. ASSUME NEW j \in 1..(Len(s) - 1)
      PROVE  Shift(i, j) \in 1..Len(s) /\ (a \o b)[j] = s[Shift(i, j)]
  <2>1. CASE j < i
    <3>1. j <= Len(a) /\ j \in 1..(i - 1) /\ j \in 1..(Len(a) + Len(b))
      BY <1>1, <1>2, <1>6, <2>1
    <3> QED BY <1>1, <1>2, <1>5, <2>1, <3>1 DEF Shift
  <2>2. CASE ~(j < i)
    <3>1. ~(j <= Len(a)) /\ j - Len(a) \in 1..(Len(s) - i) /\ j \in 1..(Len(a) + Len(b))
          /\ i + (j - Len(a)) = j + 1
      BY <1>1, <1>2, <1>6, <2>2
    <3>2. (a \o b)[j] = b[j - Len(a)]
      BY <1>5, <3>1
    <3>3. b[j - Len(a)] = s[j + 1]
      BY <1>3, <3>1
    <3> QED BY <1>1, <2>2, <3>2, <3>3 DEF Shift
  <2> QED BY <2>1, <2>2
<1> QED BY <1>4, <1>5, <1>6, <1>7

-----------------------------------------------------------------------------
(* What the steps do.                                                      *)

LEMMA VerdictCode == blockingExitCode \in {0, 1} /\ 2 \notin {blockingExitCode}
BY DEF blockingExitCode

LEMMA ReviewCountIs ==
  ASSUME in \in Invocation
  PROVE  /\ ReviewCount \in Int /\ ReviewCount \in {in.maxReviewComments, Len(in.diagnostics)}
         /\ ReviewCount <= in.maxReviewComments /\ ReviewCount <= Len(in.diagnostics)
         /\ in.maxReviewComments >= 1 => 0 <= ReviewCount
<1>1. in.maxReviewComments \in Int /\ in.diagnostics \in Seq(Severity)
  BY DEF Invocation
<1>2. Len(in.diagnostics) \in Nat
  BY <1>1
<1> QED BY <1>1, <1>2 DEF ReviewCount

Ask(kind, arg) == [run |-> run, kind |-> kind, arg |-> arg]

(* The run goes on to its next place, sends a request, or ends.            *)
Moves ==
  /\ UNCHANGED <<request, exit, crashed, warnings>>
  /\ \/ pc = "args" /\ pc' = "context" /\ in.maxReviewComments >= 1
     \/ pc = "context" /\ pc' = "report"
     \/ pc = "report" /\ pc' = "surfaces"
     \/ pc = "surfaces" /\ pc' = "comment" /\ Posts
     \/ pc = "comment" /\ pc' = "reviewComments" /\ request = NoRequest /\ "comment" \notin in.want
     \/ /\ pc = "reviewComments" /\ pc' = "status" /\ request = NoRequest
        /\ ~("reviewComments" \in in.want /\ posted < ReviewCount)

Sends ==
  /\ UNCHANGED <<pc, exit, crashed, warnings>>
  /\ request = NoRequest
  /\ \/ pc = "comment" /\ request' = Ask("list", page)
     \/ pc = "sticky" /\ Marked(existing) # 0
        /\ request' = Ask("PATCH", existing[Marked(existing)].id)
     \/ pc = "sticky" /\ Marked(existing) = 0 /\ request' = Ask("POST", 0)
     \/ /\ pc = "reviewComments" /\ "reviewComments" \in in.want /\ posted < ReviewCount
        /\ request' = Ask("review", posted + 1)
     \/ /\ pc = "status" /\ "status" \in in.want
        /\ request' = Ask("status", blockingExitCode)

Ends ==
  /\ pc' = "ended" /\ request' = request
  /\ \/ /\ pc \in {"args", "context", "report"}
        /\ <<exit', crashed'>> \in {<<2, FALSE>>, <<1, TRUE>>}
        /\ warnings' = warnings
     \/ /\ pc = "surfaces" /\ ~Posts /\ exit' = blockingExitCode
        /\ crashed' \in {FALSE, crashed} /\ warnings' \in {warnings, in.want}
     \/ /\ pc = "status" /\ request = NoRequest /\ "status" \notin in.want
        /\ exit' = blockingExitCode /\ crashed' = FALSE /\ warnings' = warnings

LEMMA RunStepIs ==
  ASSUME CiTypes, RunStep
  PROVE  /\ UNCHANGED <<run, in, page, existing, posted, orphans, server, failures, outside>>
         /\ Moves \/ Sends \/ Ends
<1>0. in.maxReviewComments \in Int
  BY DEF CiTypes, Invocation
<1>1. CASE CheckArguments
  <2>1. CASE in.maxReviewComments < 1
    BY <1>1, <2>1 DEF CheckArguments, EndWith, Ends
  <2>2. CASE in.maxReviewComments >= 1
    <3>1. ~(in.maxReviewComments < 1)
      BY <1>0, <2>2
    <3>2. pc = "args" /\ Goto("context")
      BY <1>1, <3>1, Zenon DEF CheckArguments
    <3> QED BY <2>2, <3>2 DEF Goto, Moves
  <2> QED BY <1>0, <2>1, <2>2
<1>2. CASE ResolveContext
  <2>1. /\ pc = "context"
        /\ \/ Goto("report") \/ EndWith(1, TRUE) \/ EndWith(2, FALSE)
    <3>1. CASE ContextCrash
      BY <1>2, <3>1, Zenon DEF ResolveContext
    <3>2. CASE ~ContextCrash /\ ContextError
      BY <1>2, <3>2, Zenon DEF ResolveContext
    <3>3. CASE ~ContextCrash /\ ~ContextError
      BY <1>2, <3>3, Zenon DEF ResolveContext
    <3> QED BY <3>1, <3>2, <3>3
  <2> QED BY <2>1 DEF Goto, EndWith, Moves, Ends
<1>3. CASE ReadReport
  <2>1. /\ pc = "report"
        /\ \/ Goto("surfaces") \/ EndWith(1, TRUE) \/ EndWith(2, FALSE)
    BY <1>3, Zenon DEF ReadReport
  <2> QED BY <2>1 DEF Goto, EndWith, Moves, Ends
<1>4. CASE BuildSurfaces
  BY <1>4 DEF BuildSurfaces, Goto, EndWith, Moves, Ends, Posts, Built
<1>5. CASE PostComment
  BY <1>5 DEF PostComment, Send, Goto, Built, Moves, Sends, Ask
<1>6. CASE UpdateOrCreate
  BY <1>6, Zenon DEF UpdateOrCreate, Send, Sends, Ask
<1>7. CASE PostReviewComments
  BY <1>7 DEF PostReviewComments, Send, Goto, Built, Moves, Sends, Ask
<1>8. CASE PostStatus
  BY <1>8 DEF PostStatus, Send, EndWith, Built, Sends, Ends, Ask
<1> QED BY <1>1, <1>2, <1>3, <1>4, <1>5, <1>6, <1>7, <1>8 DEF RunStep

(* A request settles: with an answer the run goes on, without one it gives *)
(* up the surface.                                                         *)
GoesOn ==
  /\ warnings' = warnings
  /\ \/ /\ request.kind = "list" /\ UNCHANGED <<posted, exit>>
        /\ existing' = existing \o Page(page) /\ page' = page + 1
        /\ pc' = IF NextPage(page) THEN "comment" ELSE "sticky"
     \/ /\ request.kind = "review" /\ posted' = posted + 1
        /\ UNCHANGED <<existing, page, pc, exit>>
     \/ /\ request.kind \notin {"list", "review"} /\ UNCHANGED <<existing, page, posted>>
        /\ pc' = After(SurfaceOf(request)) /\ exit' = ExitAfter(SurfaceOf(request))

GivesUp ==
  /\ UNCHANGED <<page, existing, posted>>
  /\ warnings' = warnings \cup {SurfaceOf(request)}
  /\ pc' = After(SurfaceOf(request)) /\ exit' = ExitAfter(SurfaceOf(request))

Carried == Carries(request) /\ CarryOut(request)

LEMMA AnswerIs ==
  ASSUME Answer
  PROVE  /\ request # NoRequest /\ request' = NoRequest
         /\ UNCHANGED <<run, in, crashed, orphans, outside>>
         /\ \/ Carried /\ GoesOn
            \/ (Carried \/ UNCHANGED server) /\ GivesUp
<1>1. CASE Answered
  BY <1>1 DEF Answered, Carried, GoesOn
<1>2. CASE Refused
  BY <1>2 DEF Refused, GiveUpSurface, GivesUp
<1>3. CASE AnswerLost
  BY <1>3 DEF AnswerLost, GiveUpSurface, Carried, GivesUp
<1> QED BY <1>1, <1>2, <1>3 DEF Answer

(* What carrying out a request adds to the server.                         *)
LEMMA CarryOutIs ==
  ASSUME NEW r \in Request, CarryOut(r)
  PROVE  /\ r.kind = "POST" =>
              /\ comments' = Append(comments, [id |-> ids + 1, ours |-> TRUE, marked |-> TRUE, body |-> r.run])
              /\ ids' = ids + 1
         /\ r.kind # "POST" => ids' = ids
         /\ r.kind = "PATCH" =>
              comments' = [i \in DOMAIN comments |->
                             IF comments[i].id = r.arg
                             THEN [comments[i] EXCEPT !.marked = TRUE, !.body = r.run]
                             ELSE comments[i]]
         /\ r.kind \notin {"POST", "PATCH"} => comments' = comments
         /\ reviews' = IF r.kind = "review" THEN Append(reviews, [run |-> r.run, item |-> r.arg])
                       ELSE reviews
         /\ statuses' = IF r.kind = "status" THEN Append(statuses, [run |-> r.run, exit |-> r.arg])
                        ELSE statuses
BY DEF CarryOut

(* A step of the outside: a late request, or somebody comments or deletes. *)
Late(r) ==
  /\ orphans' = orphans \ {r}
  /\ \/ /\ CarryOut(r)
        /\ lateWrites' = IF r.kind \in {"POST", "PATCH"}
                         THEN lateWrites \cup {[run |-> run, by |-> r.run, kind |-> r.kind]}
                         ELSE lateWrites
     \/ UNCHANGED <<server, lateWrites>>
  /\ UNCHANGED <<run, in, here, deleted>>

LEMMA LateRequestIs == LateRequest => \E r \in orphans : Late(r)
BY DEF LateRequest, Late

-----------------------------------------------------------------------------
(* Types.                                                                  *)

ServerTypes ==
  /\ comments \in Seq(Comment) /\ ids \in Nat
  /\ reviews \in Seq([run : Nat, item : Nat])
  /\ statuses \in Seq([run : Nat, exit : Nat])

LEMMA CarryOutTypes ==
  ASSUME CiTypes, NEW r \in Request, CarryOut(r)
  PROVE  ServerTypes'
<1>1. r.run \in Nat /\ r.arg \in Nat /\ ids \in Nat
  BY DEF Request, CiTypes
<1>a. /\ ids' = IF r.kind = "POST" THEN ids + 1 ELSE ids
      /\ reviews' = IF r.kind = "review" THEN Append(reviews, [run |-> r.run, item |-> r.arg])
                    ELSE reviews
      /\ statuses' = IF r.kind = "status" THEN Append(statuses, [run |-> r.run, exit |-> r.arg])
                     ELSE statuses
  BY Zenon DEF CarryOut
<1>2. comments' \in Seq(Comment)
  <2>1. CASE r.kind = "POST"
    <3>1. [id |-> ids + 1, ours |-> TRUE, marked |-> TRUE, body |-> r.run] \in Comment
      BY <1>1 DEF Comment
    <3>2. comments' = Append(comments, [id |-> ids + 1, ours |-> TRUE, marked |-> TRUE, body |-> r.run])
      BY <2>1 DEF CarryOut
    <3> QED BY <3>1, <3>2 DEF CiTypes
  <2>2. CASE r.kind = "PATCH"
    <3> DEFINE f(i) == IF comments[i].id = r.arg
                       THEN [comments[i] EXCEPT !.marked = TRUE, !.body = r.run]
                       ELSE comments[i]
    <3>1. comments \in [1..Len(comments) -> Comment] /\ Len(comments) \in Nat
          /\ DOMAIN comments = 1..Len(comments)
      BY LenProperties DEF CiTypes
    <3>2. \A i \in 1..Len(comments) : f(i) \in Comment
      <4> TAKE i \in 1..Len(comments)
      <4>1. comments[i] \in Comment
        BY <3>1
      <4> HIDE <3>1
      <4>2. [comments[i] EXCEPT !.marked = TRUE, !.body = r.run] \in Comment
        BY <1>1, <4>1 DEF Comment
      <4> QED BY <4>1, <4>2
    <3>3. comments' = [i \in 1..Len(comments) |-> f(i)]
      BY <2>2, <3>1, CarryOutIs
    <3> HIDE DEF f
    <3>4. comments' \in [1..Len(comments) -> Comment]
      BY <3>2, <3>3
    <3> QED BY <3>1, <3>4
  <2>3. CASE r.kind \notin {"POST", "PATCH"}
    BY <2>3, CarryOutIs DEF CiTypes
  <2> QED BY <2>1, <2>2, <2>3
<1>3. ids' \in Nat
  BY <1>1, <1>a
<1>4. reviews' \in Seq([run : Nat, item : Nat])
  <2> DEFINE T == [run : Nat, item : Nat]
             x == [run |-> r.run, item |-> r.arg]
  <2>1. x \in T
    BY <1>1
  <2>2. reviews \in Seq(T)
    BY DEF CiTypes
  <2>3. reviews' \in {reviews, Append(reviews, x)}
    BY <1>a
  <2> HIDE DEF T, x
  <2>4. reviews' \in Seq(T)
    BY <2>1, <2>2, <2>3, Appended
  <2> QED BY <2>4 DEF T
<1>5. statuses' \in Seq([run : Nat, exit : Nat])
  <2> DEFINE T == [run : Nat, exit : Nat]
             x == [run |-> r.run, exit |-> r.arg]
  <2>1. x \in T
    BY <1>1
  <2>2. statuses \in Seq(T)
    BY DEF CiTypes
  <2>3. statuses' \in {statuses, Append(statuses, x)}
    BY <1>a
  <2> HIDE DEF T, x
  <2>4. statuses' \in Seq(T)
    BY <2>1, <2>2, <2>3, Appended
  <2> QED BY <2>4 DEF T
<1> QED BY <1>2, <1>3, <1>4, <1>5 DEF ServerTypes

LEMMA ServerSame == ASSUME CiTypes, UNCHANGED server PROVE ServerTypes'
BY DEF CiTypes, ServerTypes, server

(* A page is what stands between its bounds.                               *)
PageEnd(n) == IF n * PerPage < Len(comments) THEN n * PerPage ELSE Len(comments)

LEMMA Pages ==
  ASSUME CiTypes, NEW n \in Nat \ {0}
  PROVE  /\ (n - 1) * PerPage \in Nat /\ n * PerPage = (n - 1) * PerPage + PerPage
         /\ PerPage \in Nat \ {0} /\ PageEnd(n) \in Nat /\ PageEnd(n) <= Len(comments)
         /\ Page(n) \in Seq(Comment)
         /\ Len(Page(n)) = IF (n - 1) * PerPage + 1 <= PageEnd(n)
                           THEN PageEnd(n) - (n - 1) * PerPage ELSE 0
         /\ \A i \in 1..(PageEnd(n) - (n - 1) * PerPage) :
              Page(n)[i] = comments[(n - 1) * PerPage + i]
<1>1. PerPage \in Nat \ {0} /\ comments \in Seq(Comment) /\ Len(comments) \in Nat
  BY CiAssumption DEF CiAssumption, CiTypes
<1>2. (n - 1) * PerPage \in Nat /\ n * PerPage = (n - 1) * PerPage + PerPage
  BY <1>1
<1> DEFINE a == (n - 1) * PerPage
<1>3. PageEnd(n) \in Nat /\ PageEnd(n) <= Len(comments)
  BY <1>1, <1>2 DEF PageEnd
<1>4. Page(n) = SubSeq(comments, a + 1, PageEnd(n))
  BY DEF Page, PageEnd
<1> HIDE DEF a
<1>5. a \in Nat
  BY <1>2 DEF a
<1>6. \A i \in (a + 1)..PageEnd(n) : comments[i] \in Comment
  BY <1>1, <1>3, <1>5
<1>7. /\ Page(n) \in Seq(Comment)
      /\ Len(Page(n)) = IF a + 1 <= PageEnd(n) THEN PageEnd(n) - (a + 1) + 1 ELSE 0
      /\ \A i \in 1..(PageEnd(n) - (a + 1) + 1) : Page(n)[i] = comments[(a + 1) + i - 1]
  BY <1>3, <1>4, <1>5, <1>6, SubSeqProperties
<1>8. /\ Len(Page(n)) = IF a + 1 <= PageEnd(n) THEN PageEnd(n) - a ELSE 0
      /\ \A i \in 1..(PageEnd(n) - a) : Page(n)[i] = comments[a + i]
  BY <1>3, <1>5, <1>7
<1> QED BY <1>1, <1>2, <1>3, <1>7, <1>8 DEF a

LEMMA TypesStay == ASSUME CiTypes, RequestInv, [Next]_vars PROVE CiTypes'
<1>1. CASE StartRun
  <2>1. in' \in Invocation /\ orphans' \subseteq Request /\ <<>> \in Seq(Comment)
        /\ NoRequest \in Request
    BY <1>1, CiAssumption DEF StartRun, CiTypes, CiAssumption, Request, NoRequest, Kinds
  <2>2. /\ run' \in Nat /\ pc' \in Places /\ page' \in Nat \ {0} /\ posted' \in Nat
        /\ warnings' \subseteq Surfaces /\ exit' \in {0, 1, 2, NoExit} /\ crashed' \in BOOLEAN
        /\ existing' = <<>> /\ request' = NoRequest
    <3>1. run' = run + 1 /\ pc' = "args" /\ page' = 1 /\ posted' = 0 /\ warnings' = {}
          /\ exit' = NoExit /\ crashed' = FALSE /\ existing' = <<>> /\ request' = NoRequest
      BY <1>1, Zenon DEF StartRun
    <3>2. run \in Nat
      BY DEF CiTypes
    <3>3. run' \in Nat /\ page' \in Nat \ {0} /\ posted' \in Nat
      BY <3>1, <3>2
    <3>4. pc' \in Places /\ warnings' \subseteq Surfaces
      BY <3>1 DEF Places
    <3>5. exit' \in {0, 1, 2, NoExit} /\ crashed' \in BOOLEAN
      BY <3>1, Zenon
    <3> QED BY <3>1, <3>3, <3>4, <3>5
  <2>3. UNCHANGED <<server, outside>>
    BY <1>1 DEF StartRun
  <2> QED BY <2>1, <2>2, <2>3 DEF CiTypes, server, outside
<1>2. CASE RunStep
  <2>1. /\ UNCHANGED <<run, in, page, existing, posted, orphans, server, failures, outside>>
        /\ Moves \/ Sends \/ Ends
    BY <1>2, RunStepIs
  <2>2. request' \in Request
    <3>1. CASE Sends
      <4>1. Marked(existing) # 0 => existing[Marked(existing)].id \in Nat
        <5> HAVE Marked(existing) # 0
        <5>1. existing[Marked(existing)] \in Comment
          BY MarkedFirst DEF CiTypes
        <5> QED BY <5>1 DEF Comment
      <4>2. run \in Nat /\ page \in Nat /\ posted + 1 \in Nat /\ blockingExitCode \in Nat
        BY VerdictCode DEF CiTypes
      <4>3. \A kind \in Kinds, arg \in Nat : Ask(kind, arg) \in Request
        BY <4>2 DEF Ask, Request
      <4>4. PICK kind, arg : request' = Ask(kind, arg) /\ kind \in Kinds /\ arg \in Nat
        BY <3>1, <4>1, <4>2 DEF Sends, Kinds
      <4> QED BY <4>3, <4>4
    <3> QED BY <2>1, <3>1 DEF Moves, Ends, CiTypes
  <2>3. pc' \in Places /\ exit' \in {0, 1, 2, NoExit} /\ crashed' \in BOOLEAN
        /\ warnings' \subseteq Surfaces
    <3>1. CASE Moves
      BY <3>1 DEF Moves, CiTypes, Places
    <3>2. CASE Sends
      BY <3>2 DEF Sends, CiTypes
    <3>3. CASE Ends
      <4>1. in.want \subseteq Surfaces
        BY DEF CiTypes, Invocation
      <4>2. pc' \in Places
        BY <3>3 DEF Ends, Places
      <4>3. exit' \in {0, 1, 2, NoExit} /\ crashed' \in BOOLEAN
        BY <3>3, VerdictCode DEF Ends, CiTypes
      <4>4. warnings' \subseteq Surfaces
        BY <3>3, <4>1 DEF Ends, CiTypes
      <4> QED BY <4>2, <4>3, <4>4
    <3> QED BY <2>1, <3>1, <3>2, <3>3
  <2> QED BY <2>1, <2>2, <2>3 DEF CiTypes, server, outside
<1>3. CASE Answer
  <2>1. /\ request' = NoRequest
        /\ UNCHANGED <<run, in, crashed, orphans, outside>>
        /\ \/ Carried /\ GoesOn
           \/ (Carried \/ UNCHANGED server) /\ GivesUp
    BY <1>3, AnswerIs
  <2>2. ServerTypes'
    BY <2>1, CarryOutTypes, ServerSame DEF Carried, CiTypes
  <2>3. NoRequest \in Request
    BY DEF Request, NoRequest, Kinds
  <2>4. /\ SurfaceOf(request) \in Surfaces /\ After(SurfaceOf(request)) \in Places
        /\ ExitAfter(SurfaceOf(request)) \in {0, 1, 2, NoExit}
    BY VerdictCode DEF SurfaceOf, Surfaces, After, Places, ExitAfter, CiTypes
  <2>5. /\ pc' \in Places /\ exit' \in {0, 1, 2, NoExit} /\ warnings' \subseteq Surfaces
        /\ page' \in Nat \ {0} /\ posted' \in Nat
    <3>1. CASE GoesOn
      BY <2>4, <3>1 DEF GoesOn, CiTypes, Places
    <3>2. CASE GivesUp
      BY <2>4, <3>2 DEF GivesUp, CiTypes
    <3> QED BY <2>1, <3>1, <3>2
  <2>6. existing' \in Seq(Comment)
    <3>1. Page(page) \in Seq(Comment) /\ existing \in Seq(Comment)
      BY Pages DEF CiTypes
    <3>2. existing' = existing \/ existing' = existing \o Page(page)
      BY <2>1 DEF GoesOn, GivesUp
    <3> QED BY <3>1, <3>2, ConcatProperties
  <2> QED BY <2>1, <2>2, <2>3, <2>5, <2>6 DEF CiTypes, ServerTypes, outside
<1>4. CASE LateRequest
  <2>1. PICK r \in orphans : Late(r)
    BY <1>4, LateRequestIs
  <2>2. r \in Request
    BY DEF CiTypes
  <2>3. ServerTypes'
    BY <2>1, <2>2, CarryOutTypes, ServerSame DEF Late
  <2>4. IsFiniteSet(lateWrites') /\ lateWrites' \subseteq [run : Nat, by : Nat, kind : {"POST", "PATCH"}]
    <3>1. CASE /\ r.kind \in {"POST", "PATCH"}
               /\ lateWrites' = lateWrites \cup {[run |-> run, by |-> r.run, kind |-> r.kind]}
      <4>1. IsFiniteSet(lateWrites \cup {[run |-> run, by |-> r.run, kind |-> r.kind]})
        BY FS_AddElement DEF CiTypes
      <4>2. [run |-> run, by |-> r.run, kind |-> r.kind] \in [run : Nat, by : Nat, kind : {"POST", "PATCH"}]
        BY <2>2, <3>1 DEF CiTypes, Request
      <4> QED BY <3>1, <4>1, <4>2 DEF CiTypes
    <3>2. CASE lateWrites' = lateWrites
      BY <3>2 DEF CiTypes
    <3> QED BY <2>1, <3>1, <3>2 DEF Late
  <2> QED BY <2>1, <2>3, <2>4 DEF Late, CiTypes, ServerTypes, here
<1>5. CASE SomeoneComments
  <2>1. PICK marked \in {FALSE, Marked(comments) # 0} :
          comments' = Append(comments, [id |-> ids + 1, ours |-> FALSE, marked |-> marked, body |-> 0])
    BY <1>5 DEF SomeoneComments
  <2>0. marked \in BOOLEAN
    OBVIOUS
  <2>2. [id |-> ids + 1, ours |-> FALSE, marked |-> marked, body |-> 0] \in Comment
    BY <2>0 DEF Comment, CiTypes
  <2>3. comments' \in Seq(Comment)
    BY <2>1, <2>2 DEF CiTypes
  <2>4. ids' \in Nat
    BY <1>5 DEF SomeoneComments, CiTypes
  <2> QED BY <1>5, <2>3, <2>4 DEF SomeoneComments, CiTypes, here
<1>6. CASE SomeoneDeletes
  <2>1. PICK i \in DOMAIN comments : comments' = RemoveAt(comments, i)
    BY <1>6 DEF SomeoneDeletes
  <2>2. comments' \in Seq(Comment)
    <3>1. comments \in Seq(Comment) /\ i \in 1..Len(comments)
      BY DEF CiTypes
    <3> QED BY <2>1, <3>1, Removed
  <2>3. IsFiniteSet(deleted') /\ deleted' \subseteq [run : Nat, listing : BOOLEAN]
    <3>1. deleted' = deleted \cup {[run |-> run, listing |-> pc = "comment"]}
      BY <1>6 DEF SomeoneDeletes
    <3>2. [run |-> run, listing |-> pc = "comment"] \in [run : Nat, listing : BOOLEAN]
      BY DEF CiTypes
    <3>3. IsFiniteSet(deleted \cup {[run |-> run, listing |-> pc = "comment"]})
      BY FS_AddElement DEF CiTypes
    <3> QED BY <3>1, <3>2, <3>3 DEF CiTypes
  <2> QED BY <1>6, <2>2, <2>3 DEF SomeoneDeletes, CiTypes, here
<1>7. CASE UNCHANGED vars
  BY <1>7 DEF vars, here, server, outside, CiTypes
<1> QED
  BY <1>1, <1>2, <1>3, <1>4, <1>5, <1>6, <1>7 DEF Next

-----------------------------------------------------------------------------
(* The request, what cancelled runs have left, and who has written.        *)

LEMMA Waiting ==
  ASSUME RequestInv, CiTypes, request # NoRequest
  PROVE  /\ request.run = run /\ request.kind \in {"list", "PATCH", "POST", "review", "status"}
         /\ pc \in {"comment", "sticky", "reviewComments", "status"}
<1>1. request.run = run /\ request.kind \in Kinds /\ request.kind # "none"
  BY DEF RequestInv, CiTypes, Request
<1> QED BY <1>1 DEF RequestInv, Kinds

LEMMA NoneInv ==
  ASSUME request' = NoRequest
  PROVE  RequestInv'
BY DEF RequestInv, NoRequest

(* Of the inputs alone. *)
LEMMA InputsSame ==
  ASSUME in' = in
  PROVE  /\ blockingExitCode' = blockingExitCode /\ ReviewCount' = ReviewCount
         /\ Posts' = Posts
BY DEF blockingExitCode, Count, ReviewCount, Posts

LEMMA MarkedSame == ASSUME existing' = existing PROVE Marked(existing)' = Marked(existing)
BY Zenon DEF Marked, SelectInSeq

LEMMA HereSame ==
  ASSUME RequestInv, UNCHANGED <<run, in, here>>
  PROVE  RequestInv'
<1>1. /\ blockingExitCode' = blockingExitCode /\ ReviewCount' = ReviewCount
  BY InputsSame
<1>2. Marked(existing)' = Marked(existing)
  BY MarkedSame DEF here
<1> QED BY <1>1, <1>2 DEF here, RequestInv

LEMMA RequestStays == ASSUME CiTypes, RequestInv, [Next]_vars PROVE RequestInv'
<1>1. CASE StartRun
  BY <1>1, NoneInv DEF StartRun
<1>2. CASE RunStep
  <2>1. /\ UNCHANGED <<run, in, page, existing, posted>>
        /\ Moves \/ Sends \/ Ends
    BY <1>2, RunStepIs
  <2>2. CASE Moves \/ Ends
    <3>1. request = NoRequest /\ request' = request
      BY <2>2, Waiting DEF Moves, Ends
    <3> QED BY <3>1, NoneInv
  <2>3. CASE Sends
    <3>1. /\ blockingExitCode' = blockingExitCode /\ ReviewCount' = ReviewCount
      BY <2>1, InputsSame
    <3>2. Marked(existing)' = Marked(existing)
      BY <2>1, MarkedSame
    <3> QED BY <2>1, <2>3, <3>1, <3>2 DEF Sends, Ask, RequestInv
  <2> QED BY <2>1, <2>2, <2>3
<1>3. CASE Answer
  BY <1>3, AnswerIs, NoneInv
<1>4. CASE LateRequest
  <2>1. UNCHANGED <<run, in, here>>
    BY <1>4, LateRequestIs DEF Late
  <2> QED BY <2>1, HereSame
<1>5. CASE SomeoneComments \/ SomeoneDeletes
  BY <1>5, HereSame DEF SomeoneComments, SomeoneDeletes
<1>6. CASE UNCHANGED vars
  BY <1>6, HereSame DEF vars
<1> QED
  BY <1>1, <1>2, <1>3, <1>4, <1>5, <1>6 DEF Next

LEMMA OrphansStay == ASSUME CiTypes, RequestInv, OrphansInv, [Next]_vars PROVE OrphansInv'
<1>0. run \in Nat /\ orphans \subseteq Request
      /\ lateWrites \subseteq [run : Nat, by : Nat, kind : {"POST", "PATCH"}]
      /\ deleted \subseteq [run : Nat, listing : BOOLEAN]
  BY DEF CiTypes
<1>1. CASE StartRun
  <2>1. /\ run' = run + 1 /\ orphans' = orphans \cup ({request} \ {NoRequest})
        /\ lateWrites' = lateWrites /\ deleted' = deleted
    BY <1>1 DEF StartRun, outside
  <2>2. \A r \in orphans' : r \in orphans \/ (r = request /\ request # NoRequest)
    BY <2>1
  <2>3. request # NoRequest => request.run = run /\ request.kind # "none"
    BY Waiting
  <2>4. \A r \in orphans : r.run \in Nat /\ r.run < run /\ r.kind # "none"
    BY <1>0 DEF OrphansInv, Request
  <2>5. \A r \in orphans' : r.run < run' /\ r.kind # "none"
    BY <1>0, <2>1, <2>2, <2>3, <2>4
  <2>6. \A r, s \in orphans' : r.run = s.run => r = s
    BY <1>0, <2>2, <2>3, <2>4 DEF OrphansInv
  <2>7. ASSUME NEW w \in lateWrites' PROVE w.by < run' /\ w.run <= run' /\ \A r \in orphans' : w.by # r.run
    <3>1. w.by \in Nat /\ w.run \in Nat /\ w.by < run /\ w.run <= run
      BY <1>0, <2>1, <2>7 DEF OrphansInv
    <3>2. \A r \in orphans : w.by # r.run
      BY <2>1, <2>7 DEF OrphansInv
    <3> QED BY <1>0, <2>1, <2>2, <2>3, <3>1, <3>2
  <2>8. \A d \in deleted' : d.run <= run'
    BY <1>0, <2>1 DEF OrphansInv
  <2> QED BY <2>5, <2>6, <2>7, <2>8 DEF OrphansInv
<1>2. ASSUME UNCHANGED <<run, orphans, lateWrites, deleted>> PROVE OrphansInv'
  BY <1>2 DEF OrphansInv
<1>3. CASE RunStep
  BY <1>2, <1>3, RunStepIs DEF outside
<1>4. CASE Answer
  BY <1>2, <1>4, AnswerIs DEF outside
<1>5. CASE LateRequest
  <2>1. PICK r \in orphans : Late(r)
    BY <1>5, LateRequestIs
  <2>2. /\ run' = run /\ deleted' = deleted /\ orphans' = orphans \ {r}
        /\ \/ lateWrites' = lateWrites
           \/ lateWrites' = lateWrites \cup {[run |-> run, by |-> r.run, kind |-> r.kind]}
    BY <2>1 DEF Late
  <2>3. \A s \in orphans' : s \in orphans /\ r.run # s.run
    BY <2>2 DEF OrphansInv
  <2>4. \A w \in lateWrites' :
          w \in lateWrites \/ (w.run = run /\ w.by = r.run)
    BY <2>2
  <2>5. \A w \in lateWrites' : w.by < run' /\ w.run <= run' /\ \A s \in orphans' : w.by # s.run
    BY <1>0, <2>2, <2>3, <2>4 DEF OrphansInv
  <2> QED BY <2>2, <2>3, <2>5 DEF OrphansInv
<1>6. CASE SomeoneComments
  BY <1>2, <1>6 DEF SomeoneComments
<1>7. CASE SomeoneDeletes
  <2>1. /\ run' = run /\ orphans' = orphans /\ lateWrites' = lateWrites
        /\ deleted' = deleted \cup {[run |-> run, listing |-> pc = "comment"]}
    BY <1>7 DEF SomeoneDeletes
  <2>2. \A d \in deleted' : d.run <= run
    BY <1>0, <2>1 DEF OrphansInv
  <2> QED BY <2>1, <2>2 DEF OrphansInv
<1>8. CASE UNCHANGED vars
  BY <1>2, <1>8 DEF vars, outside
<1> QED
  BY <1>1, <1>3, <1>4, <1>5, <1>6, <1>7, <1>8 DEF Next


(* Until it posts, a run has nothing of its own.                           *)
LEMMA FreshStays == ASSUME CiTypes, RequestInv, FreshInv, [Next]_vars PROVE FreshInv'
<1>0. run \in Nat
  BY DEF CiTypes
<1>1. CASE StartRun
  <2>1. run' = run + 1 /\ page' = 1 /\ posted' = 0 /\ warnings' = {} /\ existing' = <<>>
    BY <1>1, Zenon DEF StartRun
  <2> QED BY <1>0, <2>1 DEF FreshInv
<1>2. CASE RunStep
  <2>1. /\ UNCHANGED <<run, in, page, existing, posted>>
        /\ Moves \/ Sends \/ Ends
    BY <1>2, RunStepIs
  <2>2. run # 0
    <3>1. pc # "ended"
      BY <2>1 DEF Moves, Sends, Ends
    <3> QED BY <3>1 DEF FreshInv
  <2>3. CASE Moves
    BY <2>1, <2>2, <2>3 DEF Moves, FreshInv, Early
  <2>4. CASE Sends
    BY <2>1, <2>2, <2>4 DEF Sends, FreshInv, Early
  <2>5. CASE Ends
    BY <2>1, <2>2, <2>5 DEF Ends, FreshInv, Early
  <2> QED BY <2>1, <2>3, <2>4, <2>5
<1>3. CASE Answer
  <2>1. pc \in {"comment", "sticky", "reviewComments", "status"} /\ run' = run
    BY <1>3, AnswerIs, Waiting
  <2>2. run # 0
    BY <2>1 DEF FreshInv
  <2>3. pc' \notin Early
    <3>1. GoesOn \/ GivesUp
      BY <1>3, AnswerIs
    <3>2. After(SurfaceOf(request)) \notin Early
      BY DEF After, Early
    <3>3. pc \notin Early
      BY <2>1 DEF Early
    <3> QED BY <3>1, <3>2, <3>3 DEF GoesOn, GivesUp, Early
  <2> QED BY <2>1, <2>2, <2>3 DEF FreshInv
<1>4. ASSUME UNCHANGED <<run, here>> PROVE FreshInv'
  BY <1>4 DEF here, FreshInv
<1>5. CASE LateRequest
  BY <1>4, <1>5, LateRequestIs DEF Late
<1>6. CASE SomeoneComments \/ SomeoneDeletes
  BY <1>4, <1>6 DEF SomeoneComments, SomeoneDeletes
<1>7. CASE UNCHANGED vars
  BY <1>4, <1>7 DEF vars
<1> QED
  BY <1>1, <1>2, <1>3, <1>5, <1>6, <1>7 DEF Next

-----------------------------------------------------------------------------
(* What the server has of one run.                                         *)

LEMMA ReviewsAppended ==
  ASSUME CiTypes, NEW m \in Nat, NEW a \in Nat,
         reviews' = Append(reviews, [run |-> m, item |-> a])
  PROVE  /\ ReviewsOf(m)' = ReviewsOf(m) \cup {a}
         /\ \A k \in Nat : k # m => ReviewsOf(k)' = ReviewsOf(k)
         /\ Len(reviews) \in Nat /\ DOMAIN reviews = 1..Len(reviews)
         /\ DOMAIN reviews' = 1..(Len(reviews) + 1)
         /\ \A i \in 1..Len(reviews) : reviews'[i] = reviews[i]
         /\ reviews'[Len(reviews) + 1] = [run |-> m, item |-> a]
<1> DEFINE T == [run : Nat, item : Nat]
           x == [run |-> m, item |-> a]
<1>1. x \in T /\ reviews \in Seq(T) /\ reviews' = Append(reviews, x)
  BY DEF CiTypes
<1> HIDE DEF T, x
<1>2. /\ Len(reviews') = Len(reviews) + 1 /\ Len(reviews) \in Nat
      /\ DOMAIN reviews = 1..Len(reviews) /\ DOMAIN reviews' = 1..(Len(reviews) + 1)
      /\ \A i \in 1..Len(reviews) : reviews'[i] = reviews[i]
      /\ reviews'[Len(reviews) + 1] = x
  BY <1>1, Appended
<1>3. x.run = m /\ x.item = a
  BY DEF x
<1>4. ReviewsOf(m)' = ReviewsOf(m) \cup {a}
  BY <1>2, <1>3 DEF ReviewsOf
<1>5. ASSUME NEW k \in Nat, k # m PROVE ReviewsOf(k)' = ReviewsOf(k)
  BY <1>2, <1>3, <1>5 DEF ReviewsOf
<1> QED BY <1>2, <1>4, <1>5 DEF x

LEMMA StatusesAppended ==
  ASSUME CiTypes, NEW m \in Nat, NEW a \in Nat,
         statuses' = Append(statuses, [run |-> m, exit |-> a])
  PROVE  /\ StatusesOf(m)' = StatusesOf(m) \cup {Len(statuses) + 1}
         /\ \A k \in Nat : k # m => StatusesOf(k)' = StatusesOf(k)
         /\ Len(statuses) \in Nat /\ DOMAIN statuses = 1..Len(statuses)
         /\ DOMAIN statuses' = 1..(Len(statuses) + 1)
         /\ \A i \in 1..Len(statuses) : statuses'[i] = statuses[i]
         /\ statuses'[Len(statuses) + 1] = [run |-> m, exit |-> a]
<1> DEFINE T == [run : Nat, exit : Nat]
           x == [run |-> m, exit |-> a]
<1>1. x \in T /\ statuses \in Seq(T) /\ statuses' = Append(statuses, x)
  BY DEF CiTypes
<1> HIDE DEF T, x
<1>2. /\ Len(statuses') = Len(statuses) + 1 /\ Len(statuses) \in Nat
      /\ DOMAIN statuses = 1..Len(statuses) /\ DOMAIN statuses' = 1..(Len(statuses) + 1)
      /\ \A i \in 1..Len(statuses) : statuses'[i] = statuses[i]
      /\ statuses'[Len(statuses) + 1] = x
  BY <1>1, Appended
<1>3. x.run = m /\ x.exit = a
  BY DEF x
<1>4. StatusesOf(m)' = StatusesOf(m) \cup {Len(statuses) + 1}
  BY <1>2, <1>3 DEF StatusesOf
<1>5. ASSUME NEW k \in Nat, k # m PROVE StatusesOf(k)' = StatusesOf(k)
  BY <1>2, <1>3, <1>5 DEF StatusesOf
<1> QED BY <1>2, <1>4, <1>5 DEF x

(* A request of run m changes what the server has of run m alone.          *)
LEMMA CarryOutBodies ==
  ASSUME CiTypes, NEW r \in Request, CarryOut(r)
  PROVE  /\ Bodies' \subseteq Bodies \cup {r.run}
         /\ r.kind \notin {"POST", "PATCH"} => Bodies' = Bodies
<1>1. r.run \in Nat /\ ids \in Nat /\ comments \in Seq(Comment)
  BY DEF Request, CiTypes
<1>2. CASE r.kind = "POST"
  <2> DEFINE x == [id |-> ids + 1, ours |-> TRUE, marked |-> TRUE, body |-> r.run]
  <2>1. x \in Comment /\ x.body = r.run
    BY <1>1 DEF Comment
  <2>2. comments' = Append(comments, x)
    BY <1>2, CarryOutIs
  <2> HIDE DEF x
  <2>3. /\ DOMAIN comments = 1..Len(comments) /\ DOMAIN comments' = 1..(Len(comments) + 1)
        /\ Len(comments) \in Nat
        /\ \A i \in 1..Len(comments) : comments'[i] = comments[i]
        /\ comments'[Len(comments) + 1] = x
    BY <1>1, <2>1, <2>2, Appended
  <2> QED BY <1>2, <2>1, <2>3 DEF Bodies
<1>3. CASE r.kind = "PATCH"
  <2>1. comments' = [i \in DOMAIN comments |->
                       IF comments[i].id = r.arg
                       THEN [comments[i] EXCEPT !.marked = TRUE, !.body = r.run]
                       ELSE comments[i]]
    BY <1>3, CarryOutIs
  <2>2. \A i \in DOMAIN comments : comments[i] \in Comment
    BY <1>1
  <2>3. \A i \in DOMAIN comments : comments'[i].body \in {comments[i].body, r.run}
    BY <2>1, <2>2 DEF Comment
  <2>4. DOMAIN comments' = DOMAIN comments
    BY <2>1
  <2> QED BY <1>3, <2>3, <2>4 DEF Bodies
<1>4. CASE r.kind \notin {"POST", "PATCH"}
  BY <1>4, CarryOutIs DEF Bodies
<1> QED BY <1>2, <1>3, <1>4

LEMMA CarryOutOthers ==
  ASSUME CiTypes, NEW r \in Request, CarryOut(r), NEW k \in Nat, k # r.run
  PROVE  /\ ReviewsOf(k)' = ReviewsOf(k) /\ StatusesOf(k)' = StatusesOf(k)
         /\ \A i \in StatusesOf(k) : statuses'[i] = statuses[i]
         /\ k \notin Bodies => k \notin Bodies'
<1>1. r.run \in Nat /\ r.arg \in Nat
  BY DEF Request
<1>2. ReviewsOf(k)' = ReviewsOf(k)
  <2>1. CASE r.kind = "review"
    BY <1>1, <2>1, CarryOutIs, ReviewsAppended
  <2>2. CASE r.kind # "review"
    BY <2>2, CarryOutIs DEF ReviewsOf
  <2> QED BY <2>1, <2>2
<1>3. /\ StatusesOf(k)' = StatusesOf(k)
      /\ \A i \in StatusesOf(k) : statuses'[i] = statuses[i]
  <2>1. CASE r.kind = "status"
    BY <1>1, <2>1, CarryOutIs, StatusesAppended DEF StatusesOf
  <2>2. CASE r.kind # "status"
    BY <2>2, CarryOutIs DEF StatusesOf
  <2> QED BY <2>1, <2>2
<1> QED BY <1>2, <1>3, CarryOutBodies

LEMMA ServerKeeps ==
  ASSUME UNCHANGED server, NEW k
  PROVE  /\ ReviewsOf(k)' = ReviewsOf(k) /\ StatusesOf(k)' = StatusesOf(k)
         /\ \A i \in StatusesOf(k) : statuses'[i] = statuses[i]
         /\ Bodies' = Bodies
BY DEF server, ReviewsOf, StatusesOf, Bodies

LEMMA SomeoneBodies ==
  ASSUME CiTypes, SomeoneComments \/ SomeoneDeletes
  PROVE  Bodies' \subseteq Bodies \cup {0}
<1>1. ids \in Nat /\ comments \in Seq(Comment)
  BY DEF CiTypes
<1>2. CASE SomeoneComments
  <2>1. PICK marked \in {FALSE, Marked(comments) # 0} :
          comments' = Append(comments, [id |-> ids + 1, ours |-> FALSE, marked |-> marked, body |-> 0])
    BY <1>2 DEF SomeoneComments
  <2> DEFINE x == [id |-> ids + 1, ours |-> FALSE, marked |-> marked, body |-> 0]
  <2>2. marked \in BOOLEAN
    OBVIOUS
  <2>3. x \in Comment /\ x.body = 0 /\ comments' = Append(comments, x)
    BY <1>1, <2>1, <2>2 DEF Comment
  <2> HIDE DEF x
  <2>4. /\ DOMAIN comments = 1..Len(comments) /\ DOMAIN comments' = 1..(Len(comments) + 1)
        /\ Len(comments) \in Nat
        /\ \A i \in 1..Len(comments) : comments'[i] = comments[i]
        /\ comments'[Len(comments) + 1] = x
    BY <1>1, <2>3, Appended
  <2> QED BY <2>3, <2>4 DEF Bodies
<1>3. CASE SomeoneDeletes
  <2>1. PICK i \in DOMAIN comments : comments' = RemoveAt(comments, i)
    BY <1>3 DEF SomeoneDeletes
  <2>2. i \in 1..Len(comments) /\ DOMAIN comments = 1..Len(comments)
    BY <1>1
  <2>3. /\ comments' \in Seq(Comment) /\ Len(comments') = Len(comments) - 1
        /\ \A j \in 1..(Len(comments) - 1) :
             Shift(i, j) \in 1..Len(comments) /\ comments'[j] = comments[Shift(i, j)]
    BY <1>1, <2>1, <2>2, Removed
  <2>4. DOMAIN comments' = 1..(Len(comments) - 1)
    BY <2>3
  <2> QED BY <2>2, <2>3, <2>4 DEF Bodies
<1> QED BY <1>2, <1>3

(* Requests of other runs and other people leave alone what is of this run *)
(* and of runs to come.                                                    *)
Outside == LateRequest \/ SomeoneComments \/ SomeoneDeletes

LEMMA OutsideSame ==
  ASSUME Outside
  PROVE  UNCHANGED <<run, in, here>>
BY LateRequestIs DEF Outside, Late, SomeoneComments, SomeoneDeletes

LEMMA OutsideKeeps ==
  ASSUME CiTypes, OrphansInv, Outside, NEW k \in Nat, k >= run
  PROVE  /\ ReviewsOf(k)' = ReviewsOf(k) /\ StatusesOf(k)' = StatusesOf(k)
         /\ \A i \in StatusesOf(k) : statuses'[i] = statuses[i]
         /\ k # 0 /\ NothingOf(k) => NothingOf(k)'
<1>0. run \in Nat
  BY DEF CiTypes
<1>1. CASE LateRequest
  <2>1. PICK r \in orphans : Late(r)
    BY <1>1, LateRequestIs
  <2>2. CarryOut(r) \/ UNCHANGED server
    BY <2>1 DEF Late
  <2>3. r \in Request /\ r.run < run /\ r.run \in Nat
    BY <1>0 DEF CiTypes, OrphansInv, Request
  <2>4. r.run # k
    BY <1>0, <2>3
  <2>5. /\ ReviewsOf(k)' = ReviewsOf(k) /\ StatusesOf(k)' = StatusesOf(k)
        /\ \A i \in StatusesOf(k) : statuses'[i] = statuses[i]
        /\ k \notin Bodies => k \notin Bodies'
    BY <2>2, <2>3, <2>4, CarryOutOthers, ServerKeeps
  <2> QED BY <2>5 DEF NothingOf
<1>2. CASE SomeoneComments \/ SomeoneDeletes
  <2>1. UNCHANGED <<reviews, statuses>>
    BY <1>2 DEF SomeoneComments, SomeoneDeletes
  <2>2. /\ ReviewsOf(k)' = ReviewsOf(k) /\ StatusesOf(k)' = StatusesOf(k)
        /\ \A i \in StatusesOf(k) : statuses'[i] = statuses[i]
    BY <2>1 DEF ReviewsOf, StatusesOf
  <2>3. k # 0 /\ k \notin Bodies => k \notin Bodies'
    BY <1>2, SomeoneBodies
  <2> QED BY <2>2, <2>3 DEF NothingOf
<1> QED BY <1>1, <1>2 DEF Outside

LEMMA OutsideKeepsIts ==
  ASSUME CiTypes, OrphansInv, Outside
  PROVE  /\ ReviewsOf(run)' = ReviewsOf(run) /\ StatusesOf(run)' = StatusesOf(run)
         /\ \A i \in StatusesOf(run) : statuses'[i] = statuses[i]
         /\ run # 0 /\ Nothing => Nothing'
<1>1. PICK k \in Nat : k = run /\ k >= run
  BY DEF CiTypes
<1>2. /\ ReviewsOf(k)' = ReviewsOf(k) /\ StatusesOf(k)' = StatusesOf(k)
      /\ \A i \in StatusesOf(k) : statuses'[i] = statuses[i]
      /\ k # 0 /\ NothingOf(k) => NothingOf(k)'
  BY <1>1, OutsideKeeps
<1>3. run' = run
  BY OutsideSame
<1>4. ReviewsOf(run)' = ReviewsOf(k)' /\ StatusesOf(run)' = StatusesOf(k)'
  BY <1>1, <1>3 DEF ReviewsOf, StatusesOf
<1>5. ReviewsOf(run) = ReviewsOf(k) /\ StatusesOf(run) = StatusesOf(k)
  BY <1>1
<1>6. Nothing' <=> NothingOf(k)'
  BY <1>1, <1>3 DEF Nothing, NothingOf, ReviewsOf, StatusesOf
<1>7. Nothing <=> NothingOf(k)
  BY <1>1 DEF Nothing
<1> QED BY <1>1, <1>2, <1>4, <1>5, <1>6, <1>7

(* What a request of this run adds to it.                                  *)
LEMMA ItsRequest ==
  ASSUME CiTypes, request.run = run, run' = run, CarryOut(request)
  PROVE  /\ ReviewsOf(run)' = IF request.kind = "review" THEN ReviewsOf(run) \cup {request.arg}
                              ELSE ReviewsOf(run)
         /\ request.kind # "status" => StatusesOf(run)' = StatusesOf(run) /\ statuses' = statuses
         /\ request.kind = "status" =>
              /\ StatusesOf(run)' = StatusesOf(run) \cup {Len(statuses) + 1}
              /\ \A i \in StatusesOf(run) : statuses'[i] = statuses[i]
              /\ statuses'[Len(statuses) + 1].exit = request.arg
              /\ Len(statuses) + 1 \in DOMAIN statuses'
<1>1. request \in Request /\ run \in Nat /\ request.arg \in Nat
  BY DEF CiTypes, Request
<1>2. ReviewsOf(run)' = IF request.kind = "review" THEN ReviewsOf(run) \cup {request.arg}
                        ELSE ReviewsOf(run)
  <2>1. PICK k \in Nat : k = run
    BY <1>1
  <2>2. ReviewsOf(run)' = ReviewsOf(k)' /\ ReviewsOf(run) = ReviewsOf(k)
    BY <2>1 DEF ReviewsOf
  <2>3. CASE request.kind = "review"
    <3>1. reviews' = Append(reviews, [run |-> k, item |-> request.arg])
      BY <1>1, <2>1, <2>3, CarryOutIs
    <3> QED BY <1>1, <2>2, <2>3, <3>1, ReviewsAppended
  <2>4. CASE request.kind # "review"
    BY <1>1, <2>4, CarryOutIs DEF ReviewsOf
  <2> QED BY <2>3, <2>4
<1>3. ASSUME request.kind # "status"
      PROVE  StatusesOf(run)' = StatusesOf(run) /\ statuses' = statuses
  BY <1>1, <1>3, CarryOutIs DEF StatusesOf
<1>4. ASSUME request.kind = "status"
      PROVE  /\ StatusesOf(run)' = StatusesOf(run) \cup {Len(statuses) + 1}
             /\ \A i \in StatusesOf(run) : statuses'[i] = statuses[i]
             /\ statuses'[Len(statuses) + 1].exit = request.arg
             /\ Len(statuses) + 1 \in DOMAIN statuses'
  <2>1. PICK k \in Nat : k = run
    BY <1>1
  <2>2. StatusesOf(run)' = StatusesOf(k)' /\ StatusesOf(run) = StatusesOf(k)
    BY <2>1 DEF StatusesOf
  <2>3. statuses' = Append(statuses, [run |-> k, exit |-> request.arg])
    BY <1>1, <1>4, <2>1, CarryOutIs
  <2>4. /\ StatusesOf(k)' = StatusesOf(k) \cup {Len(statuses) + 1}
        /\ Len(statuses) \in Nat /\ DOMAIN statuses = 1..Len(statuses)
        /\ DOMAIN statuses' = 1..(Len(statuses) + 1)
        /\ \A i \in 1..Len(statuses) : statuses'[i] = statuses[i]
        /\ statuses'[Len(statuses) + 1] = [run |-> k, exit |-> request.arg]
    BY <1>1, <2>3, StatusesAppended
  <2>5. StatusesOf(run) \subseteq 1..Len(statuses)
    BY <2>4 DEF StatusesOf
  <2> QED BY <2>2, <2>4, <2>5
<1> QED BY <1>2, <1>3, <1>4

LEMMA ServerStays ==
  ASSUME CiTypes, RequestInv, OrphansInv, FreshInv, ServerInv, [Next]_vars
  PROVE  ServerInv'
<1>0. run \in Nat
  BY DEF CiTypes
<1>1. ASSUME UNCHANGED <<run, server>>, pc' \in Early => pc \in Early
      PROVE  ServerInv'
  <2>1. \A k \in Nat : NothingOf(k)' <=> NothingOf(k)
    BY <1>1, ServerKeeps DEF NothingOf
  <2>2. Nothing' <=> NothingOf(run)'
    BY <1>1 DEF Nothing, NothingOf, ReviewsOf, StatusesOf
  <2> QED BY <1>0, <1>1, <2>1, <2>2 DEF ServerInv, Nothing
<1>2. CASE StartRun
  <2>1. run' = run + 1 /\ UNCHANGED server
    BY <1>2 DEF StartRun
  <2>2. \A k \in Nat : NothingOf(k)' <=> NothingOf(k)
    BY <2>1, ServerKeeps DEF NothingOf
  <2>3. \A k \in Nat : k > run => NothingOf(k)'
    BY <2>2 DEF ServerInv
  <2>4. run + 1 \in Nat /\ run + 1 > run /\ \A k \in Nat : k > run + 1 => k > run
    BY <1>0
  <2>5. NothingOf(run + 1)
    BY <2>4 DEF ServerInv
  <2>6. Nothing'
    BY <2>1, <2>5 DEF Nothing, NothingOf, server, Bodies, ReviewsOf, StatusesOf
  <2> QED BY <2>1, <2>3, <2>4, <2>6 DEF ServerInv
<1>3. CASE RunStep
  <2>1. /\ UNCHANGED <<run, server>>
        /\ Moves \/ Sends \/ Ends
    BY <1>3, RunStepIs
  <2>2. pc' \in Early => pc \in Early
    BY <2>1 DEF Moves, Sends, Ends, Early
  <2> QED BY <1>1, <2>1, <2>2
<1>4. CASE Answer
  <2>1. /\ run' = run /\ request.run = run /\ request \in Request
        /\ (Carried \/ UNCHANGED server) /\ (GoesOn \/ GivesUp)
        /\ pc \in {"comment", "sticky", "reviewComments", "status"}
    BY <1>4, AnswerIs, Waiting DEF CiTypes
  <2>2. pc' \notin Early
    BY <2>1 DEF GoesOn, GivesUp, Early, After
  <2>3. CASE Carried
    <3>1. \A k \in Nat : k > run => NothingOf(k)'
      <4> TAKE k \in Nat
      <4> HAVE k > run
      <4>1. k # request.run /\ NothingOf(k)
        BY <1>0, <2>1 DEF ServerInv
      <4> QED BY <2>1, <2>3, <4>1, CarryOutOthers DEF NothingOf, Carried
    <3> QED BY <2>1, <2>2, <3>1 DEF ServerInv
  <2>4. CASE UNCHANGED server
    BY <1>1, <2>1, <2>2, <2>4
  <2> QED BY <2>1, <2>3, <2>4
<1>5. CASE Outside
  <2>1. run' = run /\ pc' = pc
    BY <1>5, OutsideSame DEF here
  <2>2. \A k \in Nat : k > run => NothingOf(k)'
    BY <1>0, <1>5, OutsideKeeps DEF ServerInv
  <2>3. pc \in Early => Nothing'
    <3> HAVE pc \in Early
    <3>1. run # 0 /\ Nothing
      BY DEF FreshInv, Early, ServerInv
    <3> QED BY <1>5, <3>1, OutsideKeepsIts
  <2> QED BY <2>1, <2>2, <2>3 DEF ServerInv
<1>6. CASE UNCHANGED vars
  BY <1>1, <1>6 DEF vars, here
<1> QED
  BY <1>2, <1>3, <1>4, <1>5, <1>6 DEF Next, Outside

(* The exit code and the status.                                           *)
LEMMA SomeStatus ==
  ASSUME request.kind # "status", GoesOn \/ GivesUp,
         request.kind \in {"list", "PATCH", "POST", "review"}
  PROVE  exit' = exit /\ (pc' = pc \/ pc' \in {"comment", "sticky", "reviewComments", "status"})
<1>1. SurfaceOf(request) \in {"comment", "reviewComments"}
  BY DEF SurfaceOf
<1>2. /\ ExitAfter(SurfaceOf(request)) = exit
      /\ After(SurfaceOf(request)) \in {"reviewComments", "status"}
  BY <1>1 DEF ExitAfter, After
<1> QED BY <1>2 DEF GoesOn, GivesUp

LEMMA StatusSettles ==
  ASSUME request.kind = "status", GoesOn \/ GivesUp
  PROVE  /\ pc' = "ended" /\ exit' = blockingExitCode /\ UNCHANGED <<page, existing, posted>>
         /\ (GoesOn /\ warnings' = warnings) \/ (GivesUp /\ warnings' = warnings \cup {"status"})
<1>1. SurfaceOf(request) = "status"
  BY DEF SurfaceOf
<1>2. After("status") = "ended" /\ ExitAfter("status") = blockingExitCode
  BY DEF After, ExitAfter
<1> QED BY <1>1, <1>2 DEF GoesOn, GivesUp

LEMMA VerdictStays ==
  ASSUME CiTypes, RequestInv, OrphansInv, FreshInv, ServerInv, VerdictInv, [Next]_vars
  PROVE  VerdictInv'
<1>0. run \in Nat /\ in.maxReviewComments \in Int
  BY DEF CiTypes, Invocation
<1>1. CASE StartRun
  <2>1. pc' = "args" /\ exit' = NoExit /\ crashed' = FALSE
    BY <1>1 DEF StartRun
  <2>2. Nothing'
    BY <2>1, <1>1, ServerStays DEF ServerInv, Early, Next
  <2>3. StatusesOf(run)' = {}
    BY <2>2 DEF Nothing, NothingOf, StatusesOf
  <2> QED BY <2>1, <2>3 DEF VerdictInv, Reported, Early
<1>2. CASE RunStep
  <2>1. /\ UNCHANGED <<run, in, server>>
        /\ Moves \/ Sends \/ Ends
    BY <1>2, RunStepIs
  <2>2. /\ blockingExitCode' = blockingExitCode /\ Posts' = Posts
        /\ StatusesOf(run)' = StatusesOf(run) /\ statuses' = statuses
        /\ Nothing' = Nothing
    BY <2>1, InputsSame DEF server, StatusesOf, Nothing, NothingOf, ReviewsOf, Bodies
  <2>3. pc # "ended" /\ exit = NoExit /\ ~crashed
    BY <2>1 DEF Moves, Sends, Ends, VerdictInv
  <2>4. CASE Moves
    <3>1. pc' # "ended" /\ exit' = NoExit /\ ~crashed'
      BY <2>3, <2>4 DEF Moves
    <3>2. pc' \notin {"args", "ended"} => in.maxReviewComments >= 1
      BY <2>4 DEF Moves, VerdictInv
    <3>3. pc' \notin Early => Posts /\ StatusesOf(run) = {}
      BY <2>4 DEF Moves, VerdictInv, ServerInv, Early, Nothing, NothingOf
    <3> QED BY <2>1, <2>2, <3>1, <3>2, <3>3 DEF VerdictInv, Reported
  <2>5. CASE Sends
    <3>1. pc' = pc /\ exit' = exit /\ crashed' = crashed
      BY <2>5 DEF Sends
    <3> QED BY <2>1, <2>2, <2>3, <3>1 DEF VerdictInv, Reported
  <2>6. CASE Ends
    <3>1. pc' = "ended"
      BY <2>6 DEF Ends
    <3>2. CASE pc \in {"args", "context", "report"} /\ <<exit', crashed'>> \in {<<2, FALSE>>, <<1, TRUE>>}
      <4>1. Nothing /\ StatusesOf(run) = {}
        BY <3>2 DEF ServerInv, Early, Nothing, NothingOf
      <4>2. crashed' \/ exit' = 2
        BY <3>2
      <4>3. ~Reported'
        BY <4>2 DEF Reported
      <4> QED BY <2>1, <2>2, <3>1, <4>1, <4>2, <4>3 DEF VerdictInv
    <3>3. CASE pc = "surfaces" /\ ~Posts /\ exit' = blockingExitCode
      <4>1. Nothing /\ StatusesOf(run) = {}
        BY <3>3 DEF ServerInv, Early, Nothing, NothingOf
      <4> QED BY <2>1, <2>2, <3>1, <3>3, <4>1 DEF VerdictInv
    <3>4. CASE /\ pc = "status" /\ "status" \notin in.want
               /\ exit' = blockingExitCode /\ crashed' = FALSE
      <4>1. Posts /\ StatusesOf(run) = {}
        BY <3>4 DEF VerdictInv, Early
      <4>2. exit' # 2
        BY <3>4, VerdictCode
      <4> QED BY <2>1, <2>2, <3>1, <3>4, <4>1, <4>2 DEF VerdictInv
    <3> QED BY <2>6, <3>2, <3>3, <3>4 DEF Ends
  <2> QED BY <2>1, <2>4, <2>5, <2>6
<1>3. CASE Answer
  <2>1. /\ run' = run /\ in' = in /\ crashed' = crashed
        /\ request.run = run
        /\ \/ Carried /\ GoesOn
           \/ (Carried \/ UNCHANGED server) /\ GivesUp
        /\ request.kind \in {"list", "PATCH", "POST", "review", "status"}
        /\ pc \in {"comment", "sticky", "reviewComments", "status"}
    BY <1>3, AnswerIs, Waiting
  <2>2. /\ blockingExitCode' = blockingExitCode /\ Posts' = Posts
    BY <2>1, InputsSame
  <2>3. /\ Posts /\ StatusesOf(run) = {} /\ exit = NoExit /\ ~crashed
        /\ in.maxReviewComments >= 1
    BY <2>1 DEF VerdictInv, Early
  <2>4. CASE request.kind # "status"
    <3>1. StatusesOf(run)' = {}
      BY <2>1, <2>3, <2>4, ItsRequest, ServerKeeps DEF Carried, StatusesOf, server
    <3>2. exit' = NoExit /\ pc' # "ended"
      BY <2>1, <2>3, <2>4, SomeStatus
    <3> QED BY <2>1, <2>2, <2>3, <3>1, <3>2 DEF VerdictInv, Reported
  <2>5. CASE request.kind = "status"
    <3>1. /\ pc' = "ended" /\ exit' = blockingExitCode
          /\ (GoesOn /\ warnings' = warnings) \/ (GivesUp /\ warnings' = warnings \cup {"status"})
      BY <2>1, <2>5, StatusSettles
    <3>2. "status" \in in.want /\ request.arg = blockingExitCode
      BY <2>5 DEF RequestInv
    <3>3. exit' # 2
      BY <3>1, VerdictCode
    <3>4. CASE Carried
      <4>1. /\ StatusesOf(run)' = {Len(statuses) + 1}
            /\ statuses'[Len(statuses) + 1].exit = blockingExitCode
            /\ Len(statuses) + 1 \in DOMAIN statuses'
        BY <2>1, <2>3, <2>5, <3>2, <3>4, ItsRequest DEF Carried
      <4> QED BY <2>1, <2>2, <2>3, <3>1, <3>2, <3>3, <4>1 DEF VerdictInv
    <3>5. CASE UNCHANGED server /\ GivesUp
      <4>1. StatusesOf(run)' = {}
        BY <2>1, <2>3, <3>5 DEF StatusesOf, server
      <4>2. "status" \in warnings'
        BY <3>5, <2>5 DEF GivesUp, SurfaceOf
      <4> QED BY <2>1, <2>2, <2>3, <3>1, <3>2, <3>3, <4>1, <4>2 DEF VerdictInv
    <3> QED BY <2>1, <3>4, <3>5
  <2> QED BY <2>4, <2>5
<1>4. CASE Outside
  <2>1. UNCHANGED <<run, in, here>>
    BY <1>4, OutsideSame
  <2>2. /\ StatusesOf(run)' = StatusesOf(run)
        /\ \A i \in StatusesOf(run) : statuses'[i] = statuses[i]
        /\ run # 0 /\ Nothing => Nothing'
    BY <1>4, OutsideKeepsIts
  <2>3. /\ blockingExitCode' = blockingExitCode /\ Posts' = Posts /\ Reported' = Reported
    BY <2>1, InputsSame DEF Reported, here
  <2>4. exit # NoExit => run # 0
    BY DEF FreshInv
  <2>5. StatusesOf(run)' \subseteq DOMAIN statuses'
    BY DEF StatusesOf
  <2> QED BY <2>1, <2>2, <2>3, <2>4, <2>5 DEF VerdictInv, here
<1>5. CASE UNCHANGED vars
  BY <1>5, InputsSame
     DEF vars, here, server, VerdictInv, Reported, StatusesOf, Nothing, NothingOf, ReviewsOf, Bodies
<1> QED
  BY <1>1, <1>2, <1>3, <1>4, <1>5 DEF Next, Outside

-----------------------------------------------------------------------------
(* The review comments: the first diagnostics, once each and in order.     *)

LEMMA OneMore ==
  ASSUME NEW a \in Nat \ {0}
  PROVE  1..(a - 1) \cup {a} = 1..a /\ \A b \in 1..(a - 1) : b < a
OBVIOUS

LEMMA LastOrBefore ==
  ASSUME NEW n \in Nat, NEW j \in 1..(n + 1)
  PROVE  j \in 1..n \/ j = n + 1
OBVIOUS

LEMMA NextReview ==
  ASSUME CiTypes, Increasing, NEW m \in Nat, NEW a \in Nat \ {0},
         ReviewsOf(m) = 1..(a - 1),
         \A k \in Nat : \E n \in Nat : ReviewsOf(k) = 1..n,
         reviews' = Append(reviews, [run |-> m, item |-> a])
  PROVE  /\ Increasing'
         /\ \A k \in Nat : \E n \in Nat : ReviewsOf(k)' = 1..n
         /\ ReviewsOf(m)' = 1..a
<1>1. /\ ReviewsOf(m)' = ReviewsOf(m) \cup {a}
      /\ \A k \in Nat : k # m => ReviewsOf(k)' = ReviewsOf(k)
      /\ Len(reviews) \in Nat /\ DOMAIN reviews = 1..Len(reviews)
      /\ DOMAIN reviews' = 1..(Len(reviews) + 1)
      /\ \A i \in 1..Len(reviews) : reviews'[i] = reviews[i]
      /\ reviews'[Len(reviews) + 1] = [run |-> m, item |-> a]
  BY ReviewsAppended
<1>2. ReviewsOf(m)' = 1..a
  BY <1>1, OneMore, Zenon
<1>3. Increasing'
  <2> SUFFICES ASSUME NEW i \in DOMAIN reviews', NEW j \in DOMAIN reviews', i < j,
                      reviews'[i].run = reviews'[j].run
               PROVE  reviews'[i].item < reviews'[j].item
    BY Zenon DEF Increasing
  <2>1. CASE j \in 1..Len(reviews)
    <3>1. i \in 1..Len(reviews)
      BY <1>1, <2>1
    <3>2. reviews'[i] = reviews[i] /\ reviews'[j] = reviews[j]
      BY <1>1, <2>1, <3>1
    <3> QED BY <1>1, <2>1, <3>1, <3>2 DEF Increasing
  <2>2. CASE j = Len(reviews) + 1
    <3>1. i \in 1..Len(reviews)
      BY <1>1, <2>2
    <3>2. reviews'[i] = reviews[i] /\ reviews'[j].run = m /\ reviews'[j].item = a
      BY <1>1, <2>2, <3>1
    <3>3. reviews[i].item \in ReviewsOf(m)
      BY <1>1, <3>1, <3>2 DEF ReviewsOf
    <3>4. reviews[i].item < a
      BY <3>3, OneMore
    <3> QED BY <3>2, <3>4
  <2>3. j \in 1..(Len(reviews) + 1) /\ Len(reviews) \in Nat
    BY <1>1, Zenon
  <2>4. j \in 1..Len(reviews) \/ j = Len(reviews) + 1
    BY <2>3, LastOrBefore
  <2> QED BY <2>1, <2>2, <2>4
<1>4. \A k \in Nat : \E n \in Nat : ReviewsOf(k)' = 1..n
  <2> TAKE k \in Nat
  <2>1. CASE k = m
    BY <1>2, <2>1 DEF ReviewsOf
  <2>2. CASE k # m
    BY <1>1, <2>2
  <2> QED BY <2>1, <2>2
<1> QED BY <1>2, <1>3, <1>4

LEMMA ReviewsSame ==
  ASSUME ReviewsInv, reviews' = reviews, orphans' \subseteq orphans
  PROVE  ReviewsInv'
<1>1. \A k : ReviewsOf(k)' = ReviewsOf(k)
  BY DEF ReviewsOf
<1>2. Increasing'
  BY Zenon DEF ReviewsInv, Increasing
<1>3. LateReviews'
  BY <1>1 DEF ReviewsInv, LateReviews
<1> QED BY <1>1, <1>2, <1>3 DEF ReviewsInv

LEMMA ReviewsGrow ==
  ASSUME CiTypes, OrphansInv, ReviewsInv, NEW r \in Request, CarryOut(r),
         r.kind = "review" => r.arg # 0 /\ ReviewsOf(r.run) = 1..(r.arg - 1),
         orphans' \subseteq orphans, \A s \in orphans' : s.run # r.run
  PROVE  ReviewsInv'
<1>1. CASE r.kind = "review"
  <2>1. r.run \in Nat /\ r.arg \in Nat \ {0}
    BY <1>1 DEF Request
  <2>2. reviews' = Append(reviews, [run |-> r.run, item |-> r.arg])
    BY <1>1, CarryOutIs
  <2>3. /\ Increasing' /\ \A k \in Nat : \E n \in Nat : ReviewsOf(k)' = 1..n
    BY <1>1, <2>1, <2>2, NextReview DEF ReviewsInv
  <2>4. LateReviews'
    <3> SUFFICES ASSUME NEW s \in orphans', s.kind = "review"
                 PROVE  s.arg # 0 /\ ReviewsOf(s.run)' = 1..(s.arg - 1)
      BY Zenon DEF LateReviews
    <3>1. s \in orphans /\ s.run \in Nat /\ s.run # r.run
      BY DEF CiTypes, Request
    <3>2. s.arg # 0 /\ ReviewsOf(s.run) = 1..(s.arg - 1)
      BY <3>1 DEF ReviewsInv, LateReviews
    <3>3. \A k \in Nat : k # r.run => ReviewsOf(k)' = ReviewsOf(k)
      BY <2>1, <2>2, ReviewsAppended
    <3> QED BY <3>1, <3>2, <3>3
  <2> QED BY <2>3, <2>4 DEF ReviewsInv
<1>2. CASE r.kind # "review"
  BY <1>2, CarryOutIs, ReviewsSame
<1> QED BY <1>1, <1>2

LEMMA ReviewStays ==
  ASSUME CiTypes, RequestInv, OrphansInv, FreshInv, ServerInv, VerdictInv, ReviewInv, [Next]_vars
  PROVE  ReviewInv'
<1>0. run \in Nat /\ posted \in Nat /\ ReviewsInv /\ in \in Invocation /\ ReviewCount \in Int
  BY ReviewCountIs DEF CiTypes, ReviewInv, OwnReviews
<1>1. CASE StartRun
  <2>1. /\ pc' = "args" /\ posted' = 0 /\ reviews' = reviews
        /\ orphans' = orphans \cup ({request} \ {NoRequest})
    BY <1>1 DEF StartRun, server
  <2>2. \A k : ReviewsOf(k)' = ReviewsOf(k)
    BY <2>1 DEF ReviewsOf
  <2>3. LateReviews'
    <3> SUFFICES ASSUME NEW r \in orphans', r.kind = "review"
                 PROVE  r.arg # 0 /\ ReviewsOf(r.run)' = 1..(r.arg - 1)
      BY Zenon DEF LateReviews
    <3>1. CASE r \in orphans
      BY <1>0, <2>2, <3>1 DEF ReviewsInv, LateReviews
    <3>2. CASE r = request
      <4>1. r.run = run /\ pc = "reviewComments" /\ r.arg = posted + 1
        BY <3>2, Waiting DEF RequestInv, NoRequest
      <4>2. ReviewsOf(run) = 1..posted
        BY <4>1 DEF ReviewInv, OwnReviews
      <4>3. r.arg - 1 = posted /\ r.arg # 0
        BY <1>0, <4>1
      <4> QED BY <2>2, <4>1, <4>2, <4>3
    <3> QED BY <2>1, <3>1, <3>2
  <2>4. ReviewsInv'
    <3>1. Increasing'
      BY <1>0, <2>1, Zenon DEF ReviewsInv, Increasing
    <3> QED BY <1>0, <2>2, <2>3, <3>1 DEF ReviewsInv
  <2> QED BY <2>1, <2>4 DEF Early, Reported, ReviewInv, OwnReviews
<1>2. CASE RunStep
  <2>1. /\ UNCHANGED <<run, in, posted, server, orphans>>
        /\ Moves \/ Sends \/ Ends
    BY <1>2, RunStepIs
  <2>2. ReviewsInv'
    BY <1>0, <2>1, ReviewsSame DEF server
  <2>3. /\ ReviewCount' = ReviewCount /\ Posts' = Posts
        /\ ReviewsOf(run)' = ReviewsOf(run)
    BY <2>1, InputsSame DEF server, ReviewsOf
  <2>4. CASE Moves
    <3>1. pc' # "ended" /\ warnings' = warnings
      BY <2>4 DEF Moves
    <3>2. pc' \in Early \cup {"comment", "sticky"} => posted = 0
      BY <2>4 DEF Moves, Early, ReviewInv, OwnReviews
    <3>3. CASE pc = "surfaces" /\ pc' = "comment"
      <4>1. posted = 0 /\ warnings = {} /\ ReviewsOf(run) = {}
        BY <3>3 DEF FreshInv, Early, ServerInv, Nothing, NothingOf
      <4>2. in.maxReviewComments >= 1
        BY <3>3 DEF VerdictInv
      <4>3. 0 <= ReviewCount /\ 1..0 = {}
        BY <1>0, <4>2, ReviewCountIs
      <4> QED BY <2>1, <2>2, <2>3, <3>1, <3>3, <4>1, <4>3 DEF Early, Reported, ReviewInv, OwnReviews
    <3>4. CASE pc = "comment" /\ pc' = "reviewComments"
      BY <2>1, <2>2, <2>3, <3>1, <3>4 DEF Early, Reported, ReviewInv, OwnReviews
    <3>5. CASE /\ pc = "reviewComments" /\ pc' = "status"
               /\ ~("reviewComments" \in in.want /\ posted < ReviewCount)
      <4>1. /\ ReviewsOf(run) = 1..posted /\ posted <= ReviewCount
            /\ "reviewComments" \notin in.want => posted = 0
        BY <3>5 DEF ReviewInv, OwnReviews
      <4>2. "reviewComments" \in in.want => posted = ReviewCount
        BY <1>0, <3>5, <4>1
      <4>3. "reviewComments" \notin in.want => ReviewsOf(run) = {}
        BY <4>1
      <4>4. ReviewsDone'
        BY <2>1, <2>3, <4>1, <4>2, <4>3 DEF ReviewsDone
      <4> QED BY <2>2, <3>1, <3>5, <4>4 DEF Early, ReviewInv, OwnReviews
    <3>6. CASE pc' \in Early
      BY <2>1, <2>2, <3>1, <3>2, <3>6 DEF Early, Reported, ReviewInv, OwnReviews
    <3> QED BY <2>4, <3>3, <3>4, <3>5, <3>6 DEF Moves, Early
  <2>5. CASE Sends
    <3>1. UNCHANGED <<pc, exit, crashed, warnings>>
      BY <2>5 DEF Sends
    <3> QED BY <2>1, <2>2, <2>3, <3>1 DEF ReviewsDone, Reported, ReviewInv, OwnReviews
  <2>6. CASE Ends
    <3>1. pc' = "ended"
      BY <2>6 DEF Ends
    <3>2. Reported' /\ Posts' => pc = "status" /\ warnings' = warnings
      <4>1. ASSUME <<exit', crashed'>> \in {<<2, FALSE>>, <<1, TRUE>>} PROVE ~Reported'
        <5>1. exit' = 2 \/ crashed'
          BY <4>1
        <5> QED BY <5>1 DEF Reported
      <4>2. Posts' = Posts
        BY <2>3
      <4> QED BY <2>6, <4>1, <4>2 DEF Ends
    <3>3. pc = "status" /\ warnings' = warnings => ReviewsDone'
      BY <2>1, <2>3 DEF ReviewsDone, ReviewInv, OwnReviews
    <3> QED BY <2>2, <3>1, <3>2, <3>3 DEF Early, ReviewInv, OwnReviews
  <2> QED BY <2>1, <2>4, <2>5, <2>6
<1>3. CASE Answer
  <2>1. /\ UNCHANGED <<run, in, crashed, orphans>> /\ request # NoRequest
        /\ request.run = run
        /\ \/ Carried /\ GoesOn
           \/ (Carried \/ UNCHANGED server) /\ GivesUp
        /\ request.kind \in {"list", "PATCH", "POST", "review", "status"}
        /\ pc \in {"comment", "sticky", "reviewComments", "status"}
        /\ request \in Request
    BY <1>3, AnswerIs, Waiting DEF CiTypes
  <2>2. /\ ReviewCount' = ReviewCount /\ Posts' = Posts
    BY <2>1, InputsSame
  <2>3. ASSUME request.kind = "review"
        PROVE  /\ pc = "reviewComments" /\ request.arg = posted + 1 /\ posted < ReviewCount
               /\ ReviewsOf(run) = 1..posted /\ "reviewComments" \in in.want
               /\ request.arg - 1 = posted /\ request.arg # 0
    <3>1. /\ pc = "reviewComments" /\ request.arg = posted + 1 /\ posted < ReviewCount
          /\ "reviewComments" \in in.want
      BY <2>3 DEF RequestInv
    <3> QED BY <1>0, <3>1 DEF ReviewInv, OwnReviews
  <2>4. ReviewsInv'
    <3>1. CASE Carried
      <4>1. \A s \in orphans : s.run # request.run
        BY <1>0, <2>1 DEF OrphansInv, CiTypes, Request
      <4> QED BY <1>0, <2>1, <2>3, <3>1, <4>1, ReviewsGrow DEF Carried
    <3>2. CASE UNCHANGED server
      BY <1>0, <2>1, <3>2, ReviewsSame DEF server
    <3> QED BY <2>1, <3>1, <3>2
  <2>5. CASE request.kind = "review"
    <3>1. SurfaceOf(request) = "reviewComments" /\ After("reviewComments") = "status"
      BY <2>5 DEF SurfaceOf, After
    <3>2. Carried => ReviewsOf(run)' = 1..(posted + 1)
      <4>1. Carried => ReviewsOf(run)' = 1..posted \cup {posted + 1}
        BY <2>1, <2>3, <2>5, ItsRequest DEF Carried
      <4>2. 1..posted \cup {posted + 1} = 1..(posted + 1)
        BY <1>0
      <4> QED BY <4>1, <4>2
    <3>3. UNCHANGED server => ReviewsOf(run)' = 1..posted
      BY <2>1, <2>3, <2>5 DEF server, ReviewsOf
    <3>4. CASE Carried /\ GoesOn
      <4>1. pc' = "reviewComments" /\ posted' = posted + 1 /\ warnings' = warnings
        BY <2>3, <2>5, <3>4 DEF GoesOn
      <4>2. posted + 1 <= ReviewCount
        BY <1>0, <2>3, <2>5
      <4>3. ReviewsOf(run)' = 1..posted' /\ posted' <= ReviewCount'
        BY <2>2, <3>2, <3>4, <4>1, <4>2
      <4>4. "reviewComments" \notin warnings' /\ "reviewComments" \in in'.want
        BY <2>1, <2>3, <2>5, <4>1 DEF ReviewInv, OwnReviews
      <4>5. ~Reported' /\ pc' # "status" /\ pc' \notin Early \cup {"comment", "sticky"}
        BY <4>1 DEF Reported, Early
      <4> QED BY <2>4, <4>3, <4>4, <4>5 DEF ReviewInv, OwnReviews
    <3>5. CASE (Carried \/ UNCHANGED server) /\ GivesUp
      <4>1. pc' = "status" /\ posted' = posted /\ "reviewComments" \in warnings'
        BY <3>1, <3>5 DEF GivesUp
      <4>2. ReviewsDone'
        BY <2>1, <2>3, <2>5, <3>2, <3>3, <3>5, <4>1 DEF ReviewsDone
      <4> QED BY <2>4, <4>1, <4>2 DEF Early, ReviewInv, OwnReviews
    <3> QED BY <2>1, <3>4, <3>5
  <2>6. CASE request.kind = "status"
    <3>1. /\ pc = "status" /\ pc' = "ended" /\ posted' = posted
          /\ warnings' \in {warnings, warnings \cup {"status"}}
      BY <2>1, <2>6, StatusSettles DEF RequestInv
    <3>2. ReviewsOf(run)' = ReviewsOf(run)
      BY <2>1, <2>6, ItsRequest DEF Carried, server, ReviewsOf
    <3>3. ReviewsDone
      BY <3>1 DEF ReviewInv, OwnReviews
    <3>4. "reviewComments" \notin warnings' => "reviewComments" \notin warnings
      BY <3>1
    <3>5. ReviewsDone'
      BY <2>1, <2>2, <3>1, <3>2, <3>3, <3>4 DEF ReviewsDone
    <3> QED BY <2>4, <3>1, <3>5 DEF Early, ReviewInv, OwnReviews
  <2>7. CASE request.kind \in {"list", "PATCH", "POST"}
    <3>1. pc \in {"comment", "sticky"} /\ SurfaceOf(request) = "comment"
          /\ After("comment") = "reviewComments"
      BY <2>7 DEF RequestInv, SurfaceOf, After
    <3>2. /\ pc' \in {"comment", "sticky", "reviewComments"} /\ posted' = posted
          /\ warnings' \in {warnings, warnings \cup {"comment"}}
      BY <2>1, <2>7, <3>1 DEF GoesOn, GivesUp
    <3>3. ReviewsOf(run)' = ReviewsOf(run)
      BY <2>1, <2>7, ItsRequest DEF Carried, server, ReviewsOf
    <3>4. /\ posted = 0 /\ ReviewsOf(run) = 1..posted /\ posted <= ReviewCount
          /\ "reviewComments" \notin warnings
      BY <3>1 DEF ReviewInv, OwnReviews
    <3>5. "reviewComments" \notin warnings'
      BY <3>2, <3>4
    <3>6. ~Reported' /\ pc' # "status"
      BY <3>2 DEF Reported
    <3> QED BY <2>1, <2>2, <2>4, <3>2, <3>3, <3>4, <3>5, <3>6 DEF ReviewInv, OwnReviews
  <2> QED BY <2>1, <2>5, <2>6, <2>7
<1>4. CASE Outside
  <2>1. UNCHANGED <<run, in, here>>
    BY <1>4, OutsideSame
  <2>2. ReviewsOf(run)' = ReviewsOf(run)
    BY <1>4, OutsideKeepsIts
  <2>3. /\ ReviewCount' = ReviewCount /\ Posts' = Posts /\ Reported' = Reported
    BY <2>1, InputsSame DEF Reported, here
  <2>4. ReviewsInv'
    <3>1. CASE LateRequest
      <4>1. PICK r \in orphans : Late(r)
        BY <3>1, LateRequestIs
      <4>2. orphans' = orphans \ {r} /\ (CarryOut(r) \/ UNCHANGED server)
        BY <4>1 DEF Late
      <4>3. r \in Request /\ \A s \in orphans' : s.run # r.run
        BY <4>2 DEF OrphansInv, CiTypes
      <4>4. r.kind = "review" => r.arg # 0 /\ ReviewsOf(r.run) = 1..(r.arg - 1)
        BY <1>0 DEF ReviewsInv, LateReviews
      <4> QED BY <1>0, <4>2, <4>3, <4>4, ReviewsGrow, ReviewsSame DEF server
    <3>2. CASE SomeoneComments \/ SomeoneDeletes
      BY <1>0, <3>2, ReviewsSame DEF SomeoneComments, SomeoneDeletes
    <3> QED BY <1>4, <3>1, <3>2 DEF Outside
  <2> QED BY <2>1, <2>2, <2>3, <2>4 DEF here, ReviewsDone, ReviewInv, OwnReviews
<1>5. CASE UNCHANGED vars
  <2>1. UNCHANGED <<run, in, here, server, orphans>>
    BY <1>5 DEF vars
  <2>2. ReviewsInv'
    BY <1>0, <2>1, ReviewsSame DEF server
  <2>3. ReviewsOf(run)' = ReviewsOf(run)
    BY <2>1 DEF server, ReviewsOf
  <2>4. /\ ReviewCount' = ReviewCount /\ Posts' = Posts /\ Reported' = Reported
    BY <2>1, InputsSame DEF Reported, here
  <2> QED BY <2>1, <2>2, <2>3, <2>4 DEF here, ReviewsDone, ReviewInv, OwnReviews
<1> QED
  BY <1>1, <1>2, <1>3, <1>4, <1>5 DEF Next, Outside

-----------------------------------------------------------------------------
(* The comments: one is added, changed or removed.                         *)

Same  == comments' = comments /\ ids' = ids

Added(x) ==
  /\ x \in Comment /\ x.id = ids + 1 /\ (x.ours => x.marked)
  /\ comments' = Append(comments, x) /\ ids' = ids + 1

Patched(id, writer) ==
  /\ ids' = ids /\ comments' \in Seq(Comment) /\ Len(comments') = Len(comments)
  /\ \A i \in 1..Len(comments) :
       IF comments[i].id = id
       THEN /\ comments'[i].id = id /\ comments'[i].ours = comments[i].ours
            /\ comments'[i].marked /\ comments'[i].body = writer
       ELSE comments'[i] = comments[i]

Gone(i) == i \in 1..Len(comments) /\ comments' = RemoveAt(comments, i) /\ ids' = ids

LEMMA CarryOutComments ==
  ASSUME CiTypes, NEW r \in Request, CarryOut(r)
  PROVE  /\ r.kind = "POST"  => Added([id |-> ids + 1, ours |-> TRUE, marked |-> TRUE, body |-> r.run])
         /\ r.kind = "PATCH" => Patched(r.arg, r.run)
         /\ r.kind \notin {"POST", "PATCH"} => Same
<1>1. r.run \in Nat /\ ids \in Nat /\ comments \in Seq(Comment) /\ r.kind \in Kinds
  BY DEF Request, CiTypes
<1>2. CASE r.kind = "POST"
  <2>1. [id |-> ids + 1, ours |-> TRUE, marked |-> TRUE, body |-> r.run] \in Comment
    BY <1>1 DEF Comment
  <2> QED BY <1>2, <2>1, CarryOutIs DEF Added
<1>3. CASE r.kind = "PATCH"
  <2>1. comments' = [i \in DOMAIN comments |->
                       IF comments[i].id = r.arg
                       THEN [comments[i] EXCEPT !.marked = TRUE, !.body = r.run]
                       ELSE comments[i]]
        /\ ids' = ids
    BY <1>3, CarryOutIs
  <2>2. /\ DOMAIN comments = 1..Len(comments) /\ Len(comments) \in Nat
        /\ \A i \in 1..Len(comments) : comments[i] \in Comment
    BY <1>1
  <2>3. comments' \in Seq(Comment)
    BY CarryOutTypes DEF ServerTypes
  <2>4. Len(comments') = Len(comments)
    <3>1. DOMAIN comments' = DOMAIN comments
      BY <2>1
    <3> QED BY <2>2, <2>3, <3>1, LenProperties
  <2>5. ASSUME NEW i \in 1..Len(comments), comments[i].id = r.arg
        PROVE  /\ comments'[i].id = r.arg /\ comments'[i].ours = comments[i].ours
               /\ comments'[i].marked /\ comments'[i].body = r.run
    <3>1. comments[i] \in Comment
      BY <2>2
    <3>2. comments'[i] = [comments[i] EXCEPT !.marked = TRUE, !.body = r.run]
      BY <2>1, <2>2, <2>5
    <3> QED BY <2>5, <3>1, <3>2 DEF Comment
  <2>6. ASSUME NEW i \in 1..Len(comments), comments[i].id # r.arg
        PROVE  comments'[i] = comments[i]
    BY <2>1, <2>2, <2>6
  <2> QED BY <1>3, <2>1, <2>3, <2>4, <2>5, <2>6 DEF Patched
<1>4. CASE r.kind \notin {"POST", "PATCH"}
  BY <1>4, CarryOutIs DEF Same
<1> QED BY <1>1, <1>2, <1>3, <1>4

(* Who may do which.                                                       *)
Ours(r) == [id |-> ids + 1, ours |-> TRUE, marked |-> TRUE, body |-> r.run]

LEMMA CarriedOut ==
  ASSUME CiTypes, NEW r \in Request, CarryOut(r)
  PROVE  \/ r.kind = "POST" /\ Added(Ours(r))
         \/ r.kind = "PATCH" /\ Patched(r.arg, r.run)
         \/ r.kind \notin {"POST", "PATCH"} /\ Same
BY CarryOutComments DEF Ours

LEMMA SomeoneIs ==
  ASSUME CiTypes, SomeoneComments \/ SomeoneDeletes
  PROVE  /\ UNCHANGED <<run, in, here, orphans, lateWrites>>
         /\ \/ /\ \E i : Gone(i)
               /\ deleted' = deleted \cup {[run |-> run, listing |-> pc = "comment"]}
            \/ /\ \E x : Added(x) /\ ~x.ours /\ (Marked(comments) = 0 => ~x.marked)
               /\ deleted' = deleted
<1>1. ids \in Nat /\ comments \in Seq(Comment)
  BY DEF CiTypes
<1>2. CASE SomeoneComments
  <2>1. PICK marked \in {FALSE, Marked(comments) # 0} :
          comments' = Append(comments, [id |-> ids + 1, ours |-> FALSE, marked |-> marked, body |-> 0])
    BY <1>2 DEF SomeoneComments
  <2> DEFINE x == [id |-> ids + 1, ours |-> FALSE, marked |-> marked, body |-> 0]
  <2>2. marked \in BOOLEAN /\ (Marked(comments) = 0 => ~marked)
    OBVIOUS
  <2>3. x \in Comment /\ x.id = ids + 1 /\ ~x.ours
    BY <1>1, <2>2 DEF Comment
  <2>4. Marked(comments) = 0 => ~x.marked
    BY <2>2
  <2>5. UNCHANGED <<run, in, here, orphans, lateWrites, deleted>> /\ ids' = ids + 1
    BY <1>2 DEF SomeoneComments
  <2>6. Added(x)
    BY <2>1, <2>3, <2>5 DEF Added
  <2> HIDE DEF x
  <2> QED BY <2>3, <2>4, <2>5, <2>6
<1>3. CASE SomeoneDeletes
  <2>1. PICK i \in DOMAIN comments : comments' = RemoveAt(comments, i)
    BY <1>3 DEF SomeoneDeletes
  <2>2. i \in 1..Len(comments)
    BY <1>1
  <2> QED BY <1>3, <2>1, <2>2 DEF SomeoneDeletes, Gone
<1> QED BY <1>2, <1>3

LEMMA AddedAt ==
  ASSUME CiTypes, NEW x, Added(x)
  PROVE  /\ comments' \in Seq(Comment)
         /\ DOMAIN comments = 1..Len(comments) /\ DOMAIN comments' = 1..(Len(comments) + 1)
         /\ Len(comments) \in Nat /\ Len(comments') = Len(comments) + 1
         /\ \A i \in 1..Len(comments) : comments'[i] = comments[i]
         /\ comments'[Len(comments) + 1] = x
<1>1. x \in Comment /\ comments \in Seq(Comment) /\ comments' = Append(comments, x)
  BY DEF Added, CiTypes
<1> QED BY <1>1, Appended

LEMMA GoneAt ==
  ASSUME CiTypes, NEW i, Gone(i)
  PROVE  /\ comments' \in Seq(Comment) /\ ids' = ids
         /\ DOMAIN comments = 1..Len(comments) /\ DOMAIN comments' = 1..(Len(comments) - 1)
         /\ Len(comments) \in Nat \ {0} /\ Len(comments') = Len(comments) - 1
         /\ i \in 1..Len(comments)
         /\ \A j \in 1..(Len(comments) - 1) :
              Shift(i, j) \in 1..Len(comments) /\ comments'[j] = comments[Shift(i, j)]
         /\ \A j, k \in 1..(Len(comments) - 1) : Shift(i, j) = Shift(i, k) => j = k
<1>1. comments \in Seq(Comment) /\ i \in 1..Len(comments) /\ Len(comments) \in Nat
      /\ comments' = RemoveAt(comments, i) /\ ids' = ids
  BY DEF Gone, CiTypes
<1>2. /\ comments' \in Seq(Comment) /\ Len(comments') = Len(comments) - 1
      /\ \A j \in 1..(Len(comments) - 1) :
           Shift(i, j) \in 1..Len(comments) /\ comments'[j] = comments[Shift(i, j)]
  BY <1>1, Removed
<1>3. DOMAIN comments = 1..Len(comments) /\ DOMAIN comments' = 1..(Len(comments) - 1)
  BY <1>1, <1>2
<1>4. \A j, k \in 1..(Len(comments) - 1) : Shift(i, j) = Shift(i, k) => j = k
  BY <1>1 DEF Shift
<1>5. Len(comments) \in Nat \ {0}
  BY <1>1
<1> QED BY <1>1, <1>2, <1>3, <1>4, <1>5

(* Comments have their own ids, and those of ci report bear the marker.    *)
LEMMA CommentsKept ==
  ASSUME CiTypes, CommentsInv
  PROVE  /\ Same => CommentsInv'
         /\ \A x : Added(x) => CommentsInv'
         /\ \A id, w : Patched(id, w) => CommentsInv'
         /\ \A i : Gone(i) => CommentsInv'
<1>0. ids \in Nat /\ comments \in Seq(Comment) /\ Len(comments) \in Nat /\ DOMAIN comments = 1..Len(comments)
  BY DEF CiTypes
<1>1. Same => CommentsInv'
  BY DEF Same, CommentsInv
<1>2. ASSUME NEW x, Added(x) PROVE CommentsInv'
  <2>1. /\ DOMAIN comments' = 1..(Len(comments) + 1)
        /\ \A i \in 1..Len(comments) : comments'[i] = comments[i]
        /\ comments'[Len(comments) + 1] = x
    BY <1>2, AddedAt
  <2>2. x.id = ids + 1 /\ ids' = ids + 1 /\ (x.ours => x.marked)
    BY <1>2 DEF Added
  <2>3. \A i \in 1..Len(comments) :
          comments[i].id \in 1..ids /\ (comments[i].ours => comments[i].marked)
    BY <1>0 DEF CommentsInv
  <2>4. \A i, j \in 1..Len(comments) : comments[i].id = comments[j].id => i = j
    BY <1>0 DEF CommentsInv
  <2>5. \A i \in DOMAIN comments' : i \in 1..Len(comments) \/ i = Len(comments) + 1
    BY <1>0, <2>1, LastOrBefore
  <2>6. \A i \in DOMAIN comments' :
          comments'[i].id \in 1..ids' /\ (comments'[i].ours => comments'[i].marked)
    <3> TAKE i \in DOMAIN comments'
    <3>1. 1..ids \subseteq 1..ids' /\ ids + 1 \in 1..ids'
      BY <1>0, <2>2
    <3>2. CASE i \in 1..Len(comments)
      BY <2>1, <2>3, <3>1, <3>2
    <3>3. CASE i = Len(comments) + 1
      BY <2>1, <2>2, <3>1, <3>3
    <3> QED BY <2>5, <3>2, <3>3
  <2>7. \A i, j \in DOMAIN comments' : comments'[i].id = comments'[j].id => i = j
    <3> TAKE i, j \in DOMAIN comments'
    <3>1. \A k \in 1..Len(comments) : comments[k].id # ids + 1
      BY <1>0, <2>3
    <3> QED BY <2>1, <2>2, <2>4, <2>5, <3>1
  <2> QED BY <2>6, <2>7 DEF CommentsInv
<1>3. ASSUME NEW id, NEW w, Patched(id, w) PROVE CommentsInv'
  <2>1. /\ ids' = ids /\ DOMAIN comments' = 1..Len(comments)
        /\ \A i \in 1..Len(comments) :
             /\ comments'[i].id = comments[i].id /\ comments'[i].ours = comments[i].ours
             /\ comments'[i].marked \/ comments'[i].marked = comments[i].marked
    BY <1>3 DEF Patched
  <2> QED BY <1>0, <2>1 DEF CommentsInv
<1>4. ASSUME NEW i, Gone(i) PROVE CommentsInv'
  <2>1. /\ ids' = ids /\ DOMAIN comments' = 1..(Len(comments) - 1)
        /\ \A j \in 1..(Len(comments) - 1) :
              Shift(i, j) \in 1..Len(comments) /\ comments'[j] = comments[Shift(i, j)]
        /\ \A j, k \in 1..(Len(comments) - 1) : Shift(i, j) = Shift(i, k) => j = k
    BY <1>4, GoneAt
  <2> QED BY <1>0, <2>1 DEF CommentsInv
<1> QED BY <1>1, <1>2, <1>3, <1>4

LEMMA CommentsStay == ASSUME CiTypes, CommentsInv, [Next]_vars PROVE CommentsInv'
<1>1. ASSUME NEW r \in Request, CarryOut(r) PROVE CommentsInv'
  BY <1>1, CarriedOut, CommentsKept
<1>2. UNCHANGED server => CommentsInv'
  BY CommentsKept DEF Same, server
<1>3. CASE StartRun
  BY <1>2, <1>3 DEF StartRun
<1>4. CASE RunStep
  BY <1>2, <1>4, RunStepIs
<1>5. CASE Answer
  BY <1>1, <1>2, <1>5, AnswerIs DEF Carried, CiTypes
<1>6. CASE LateRequest
  BY <1>1, <1>2, <1>6, LateRequestIs DEF Late, CiTypes
<1>7. CASE SomeoneComments \/ SomeoneDeletes
  BY <1>7, SomeoneIs, CommentsKept
<1>8. CASE UNCHANGED vars
  BY <1>2, <1>8 DEF vars
<1> QED
  BY <1>3, <1>4, <1>5, <1>6, <1>7, <1>8 DEF Next

-----------------------------------------------------------------------------
(* Summaries do not stack.                                                 *)

LEMMA StickiesChange ==
  ASSUME CiTypes, CommentsInv
  PROVE  /\ Same => Stickies' = Stickies
         /\ \A x : Added(x) /\ ~x.ours => Stickies' = Stickies
         /\ \A x : Added(x) /\ x.ours => Stickies' = Stickies \cup {x.id} /\ x.id \notin Stickies
         /\ \A id, w : Patched(id, w) => Stickies' = Stickies
         /\ \A i : Gone(i) => Stickies' \subseteq Stickies
<1>0. ids \in Nat /\ comments \in Seq(Comment) /\ Len(comments) \in Nat /\ DOMAIN comments = 1..Len(comments)
  BY DEF CiTypes
<1>1. Same => Stickies' = Stickies
  BY DEF Same, Stickies
<1>2. ASSUME NEW x, Added(x)
      PROVE  /\ ~x.ours => Stickies' = Stickies
             /\ x.ours => Stickies' = Stickies \cup {x.id} /\ x.id \notin Stickies
  <2>1. /\ DOMAIN comments' = 1..(Len(comments) + 1)
        /\ \A i \in 1..Len(comments) : comments'[i] = comments[i]
        /\ comments'[Len(comments) + 1] = x
    BY <1>2, AddedAt
  <2>2. \A i \in DOMAIN comments' : i \in DOMAIN comments \/ i = Len(comments) + 1
    BY <1>0, <2>1, LastOrBefore
  <2>3. DOMAIN comments \subseteq DOMAIN comments' /\ Len(comments) + 1 \in DOMAIN comments'
    BY <1>0, <2>1
  <2>4. \A i \in DOMAIN comments : comments'[i] = comments[i]
    BY <1>0, <2>1
  <2>5. x.id \notin Stickies
    <3>1. \A i \in DOMAIN comments : comments[i].id # ids + 1
      BY <1>0 DEF CommentsInv
    <3> QED BY <1>2, <3>1 DEF Added, Stickies
  <2> QED BY <2>1, <2>2, <2>3, <2>4, <2>5 DEF Stickies
<1>3. ASSUME NEW id, NEW w, Patched(id, w) PROVE Stickies' = Stickies
  <2>1. /\ DOMAIN comments' = DOMAIN comments
        /\ \A i \in DOMAIN comments :
             comments'[i].id = comments[i].id /\ comments'[i].ours = comments[i].ours
    BY <1>0, <1>3 DEF Patched
  <2> QED BY <2>1 DEF Stickies
<1>4. ASSUME NEW i, Gone(i) PROVE Stickies' \subseteq Stickies
  <2>1. /\ DOMAIN comments' = 1..(Len(comments) - 1)
        /\ \A j \in 1..(Len(comments) - 1) :
              Shift(i, j) \in 1..Len(comments) /\ comments'[j] = comments[Shift(i, j)]
    BY <1>4, GoneAt
  <2> QED BY <1>0, <2>1 DEF Stickies
<1> QED BY <1>1, <1>2, <1>3, <1>4

(* One more, or not one more.                                              *)
More   == IsFiniteSet(Stickies') /\ Cardinality(Stickies') = Cardinality(Stickies) + 1
NoMore == IsFiniteSet(Stickies') /\ Cardinality(Stickies') <= Cardinality(Stickies)

LEMMA StickiesCount ==
  ASSUME CiTypes, CommentsInv, IsFiniteSet(Stickies)
  PROVE  /\ Cardinality(Stickies) \in Nat
         /\ Same => NoMore
         /\ \A x : Added(x) => IF x.ours THEN More ELSE NoMore
         /\ \A id, w : Patched(id, w) => NoMore
         /\ \A i : Gone(i) => NoMore
<1>1. Cardinality(Stickies) \in Nat
  BY FS_CardinalityType
<1>2. Stickies' \subseteq Stickies => NoMore
  BY FS_Subset DEF NoMore
<1>3. \A x : Added(x) /\ x.ours => More
  BY StickiesChange, FS_AddElement DEF More
<1> QED BY <1>1, <1>2, <1>3, StickiesChange

LEMMA CountsAre ==
  ASSUME CiTypes
  PROVE  /\ IsFiniteSet(LatePosts) /\ IsFiniteSet(LatePostsNow) /\ IsFiniteSet(Shifts)
         /\ Cardinality(LatePosts) \in Nat /\ Cardinality(LatePostsNow) \in Nat
         /\ Cardinality(Shifts) \in Nat
         /\ Cardinality(LatePostsNow) <= Cardinality(LatePosts)
<1>1. LatePosts \subseteq lateWrites /\ LatePostsNow \subseteq LatePosts /\ Shifts \subseteq deleted
  BY DEF LatePosts, LatePostsNow, Shifts
<1>2. IsFiniteSet(LatePosts) /\ IsFiniteSet(Shifts)
  BY <1>1, FS_Subset DEF CiTypes
<1>3. IsFiniteSet(LatePostsNow) /\ Cardinality(LatePostsNow) <= Cardinality(LatePosts)
  BY <1>1, <1>2, FS_Subset
<1> QED BY <1>2, <1>3, FS_CardinalityType

(* A page more of the listing, and the last one.                           *)
LEMMA ListAnswered ==
  ASSUME CiTypes, comments' = comments,
         Len(existing) = (page - 1) * PerPage, Len(existing) <= Len(comments),
         existing' = existing \o Page(page), page' = page + 1
  PROVE  /\ existing' \in Seq(Comment) /\ Len(existing) \in Nat /\ Len(existing') \in Nat
         /\ Len(existing') <= Len(comments)
         /\ \A i \in 1..Len(existing') :
              existing'[i] = IF i <= Len(existing) THEN existing[i] ELSE comments[i]
         /\ IF NextPage(page) THEN Len(existing') = (page' - 1) * PerPage
            ELSE Len(existing') = Len(comments)
<1> DEFINE a == (page - 1) * PerPage
<1>1. page \in Nat \ {0} /\ existing \in Seq(Comment) /\ Len(comments) \in Nat
  BY DEF CiTypes
<1>2. /\ a \in Nat /\ page * PerPage = a + PerPage /\ PerPage \in Nat \ {0}
      /\ PageEnd(page) \in Nat /\ PageEnd(page) <= Len(comments) /\ Page(page) \in Seq(Comment)
      /\ Len(Page(page)) = IF a + 1 <= PageEnd(page) THEN PageEnd(page) - a ELSE 0
      /\ \A i \in 1..(PageEnd(page) - a) : Page(page)[i] = comments[a + i]
  BY <1>1, Pages
<1>3. (page' - 1) * PerPage = page * PerPage
  BY <1>1
<1>4. Len(existing) = a
  OBVIOUS
<1> HIDE DEF a
<1>5. /\ existing' \in Seq(Comment) /\ Len(existing') = a + Len(Page(page))
      /\ \A i \in 1..(a + Len(Page(page))) :
           existing'[i] = IF i <= a THEN existing[i] ELSE Page(page)[i - a]
  BY <1>1, <1>2, <1>4, ConcatProperties
<1>6. /\ NextPage(page) => PageEnd(page) = a + PerPage
      /\ ~NextPage(page) => PageEnd(page) = Len(comments)
  BY <1>2 DEF PageEnd, NextPage
<1>7. /\ Len(existing') \in Nat /\ Len(existing') <= Len(comments)
      /\ NextPage(page) => Len(existing') = a + PerPage
      /\ ~NextPage(page) => Len(existing') = Len(comments)
  BY <1>1, <1>2, <1>4, <1>5, <1>6
<1>8. ASSUME NEW i \in 1..Len(existing'), ~(i <= a) PROVE existing'[i] = comments[i]
  <2>1. i - a \in 1..(PageEnd(page) - a) /\ a + (i - a) = i /\ i \in 1..(a + Len(Page(page)))
    BY <1>2, <1>5, <1>8
  <2>2. existing'[i] = Page(page)[i - a]
    BY <1>5, <1>8, <2>1
  <2> QED BY <1>2, <2>1, <2>2
<1>9. \A i \in 1..Len(existing') : existing'[i] = IF i <= a THEN existing[i] ELSE comments[i]
  BY <1>5, <1>8
<1> QED BY <1>2, <1>3, <1>4, <1>5, <1>7, <1>9

LEMMA Within ==
  ASSUME NEW n \in Nat, NEW m \in Nat, n <= m, NEW i \in 1..n
  PROVE  i \in 1..m
OBVIOUS

LEMMA UpTo ==
  ASSUME NEW n \in Nat, NEW m \in Nat, NEW i \in 1..n, i <= m
  PROVE  i \in 1..m
OBVIOUS

(* StackInv, with its sets counted.                                        *)
StackCount(n, late, lateNow, shifts) ==
  /\ n <= 1 + late + shifts
  /\ pc \in Early \cup {"comment", "sticky"} /\ Shifted => n <= late + shifts
  /\ pc = "sticky" /\ ~Shifted /\ Marked(existing) = 0 => n <= lateNow

LEMMA StackInvIs ==
  /\ StackInv <=>
       /\ IsFiniteSet(Stickies)
       /\ StackCount(Cardinality(Stickies), Cardinality(LatePosts),
                     Cardinality(LatePostsNow), Cardinality(Shifts))
       /\ pc = "comment" /\ ~Shifted => Listed
  /\ StackInv' <=>
       /\ IsFiniteSet(Stickies')
       /\ StackCount(Cardinality(Stickies), Cardinality(LatePosts),
                     Cardinality(LatePostsNow), Cardinality(Shifts))'
       /\ pc' = "comment" /\ ~Shifted' => Listed'
BY DEF StackInv, StickiesDoNotStack, StackCount, LatePosts, Shifts

(* Additions at the end and changes in place leave the listing good.       *)
LEMMA ListedStays ==
  ASSUME CiTypes, Listed, UNCHANGED <<existing, page>>
  PROVE  /\ Same => Listed'
         /\ \A x : Added(x) => Listed'
         /\ \A id, w : Patched(id, w) => Listed'
<1>0. /\ existing \in Seq(Comment) /\ DOMAIN existing = 1..Len(existing)
      /\ Len(existing) \in Nat /\ Len(comments) \in Nat
      /\ DOMAIN existing \subseteq 1..Len(comments)
  BY DEF CiTypes, Listed
<1>1. Same => Listed'
  BY DEF Same, Listed
<1>2. ASSUME NEW x, Added(x) PROVE Listed'
  <2>1. /\ Len(comments') = Len(comments) + 1
        /\ \A i \in 1..Len(comments) : comments'[i] = comments[i]
    BY <1>2, AddedAt
  <2> QED BY <1>0, <2>1 DEF Listed
<1>3. ASSUME NEW id, NEW w, Patched(id, w) PROVE Listed'
  <2>1. /\ Len(comments') = Len(comments)
        /\ \A i \in 1..Len(comments) : comments'[i].ours = comments[i].ours
    BY <1>3 DEF Patched
  <2> QED BY <1>0, <2>1 DEF Listed
<1> QED BY <1>1, <1>2, <1>3

LEMMA StackStays ==
  ASSUME CiTypes, RequestInv, OrphansInv, FreshInv, CommentsInv, StackInv, [Next]_vars
  PROVE  StackInv'
<1> DEFINE n       == Cardinality(Stickies)
           late    == Cardinality(LatePosts)
           lateNow == Cardinality(LatePostsNow)
           shifts  == Cardinality(Shifts)
<1>0. /\ n \in Nat /\ late \in Nat /\ lateNow \in Nat /\ shifts \in Nat /\ lateNow <= late
      /\ IsFiniteSet(Stickies) /\ run \in Nat
  BY CountsAre, StickiesCount DEF StackInv, CiTypes
<1>1. ASSUME UNCHANGED <<run, outside>>
      PROVE  /\ late' = late /\ lateNow' = lateNow /\ shifts' = shifts /\ Shifted' = Shifted
  BY <1>1 DEF outside, LatePosts, LatePostsNow, Shifts, Shifted
<1>2. ASSUME UNCHANGED server PROVE IsFiniteSet(Stickies') /\ n' = n
  BY <1>0, <1>2 DEF server, Stickies
<1>3. CASE StartRun
  <2>1. pc' = "args" /\ UNCHANGED <<server, outside>> /\ run' = run + 1
    BY <1>3 DEF StartRun
  <2>2. late' = late /\ shifts' = shifts
    BY <2>1 DEF outside, LatePosts, Shifts
  <2>3. ~Shifted'
    <3>1. run' # run /\ ~(run' <= run)
      BY <1>0, <2>1
    <3>2. \A d \in deleted' : d.run <= run
      BY <2>1 DEF OrphansInv, outside
    <3> QED BY <3>1, <3>2 DEF Shifted
  <2> QED BY <1>2, <2>1, <2>2, <2>3, StackInvIs DEF StackCount
<1>4. CASE RunStep
  <2>1. /\ UNCHANGED <<run, in, page, existing, server, outside>>
        /\ Moves \/ Sends \/ Ends
    BY <1>4, RunStepIs
  <2>2. Marked(existing)' = Marked(existing)
    BY <2>1, MarkedSame
  <2>3. CASE Sends
    <3>1. pc' = pc
      BY <2>3 DEF Sends
    <3>2. Listed' = Listed
      BY <2>1 DEF Listed, server
    <3> QED BY <1>1, <1>2, <2>1, <2>2, <3>1, <3>2, StackInvIs DEF StackCount
  <2>4. CASE pc' = "comment" /\ pc = "surfaces"
    <3>1. page = 1 /\ existing = <<>>
      BY <2>4 DEF FreshInv, Early
    <3>2. Listed'
      <4>1. Len(<<>>) = 0 /\ (1 - 1) * PerPage = 0 /\ Len(comments) \in Nat
        BY CiAssumption DEF CiAssumption, CiTypes
      <4> QED BY <2>1, <3>1, <4>1 DEF Listed, server
    <3> QED BY <1>1, <1>2, <2>1, <2>4, <3>2, StackInvIs DEF StackCount, Early
  <2>5. CASE pc' # "comment" /\ pc' # "sticky" /\ (pc' \in Early => pc \in Early)
    BY <1>1, <1>2, <2>1, <2>5, StackInvIs DEF StackCount
  <2> QED BY <2>1, <2>3, <2>4, <2>5 DEF Moves, Ends, Early
<1>5. CASE Answer
  <2>1. /\ UNCHANGED <<run, in, outside>>
        /\ \/ Carried /\ GoesOn
           \/ (Carried \/ UNCHANGED server) /\ GivesUp
        /\ request.kind \in {"list", "PATCH", "POST", "review", "status"}
        /\ request \in Request
    BY <1>5, AnswerIs, Waiting DEF CiTypes
  <2>2. /\ late' = late /\ lateNow' = lateNow /\ shifts' = shifts /\ Shifted' = Shifted
    BY <1>1, <2>1
  <2>3. CASE request.kind = "list" /\ GoesOn
    <3>1. /\ pc = "comment" /\ existing' = existing \o Page(page) /\ page' = page + 1
          /\ pc' = IF NextPage(page) THEN "comment" ELSE "sticky"
      BY <2>3 DEF GoesOn, RequestInv
    <3>2. comments' = comments /\ n' = n /\ IsFiniteSet(Stickies')
      <4>1. comments' = comments
        BY <2>1, <2>3, CarryOutIs DEF Carried, server
      <4> QED BY <1>0, <4>1 DEF Stickies
    <3>3. CASE Shifted
      BY <2>2, <3>1, <3>2, <3>3, StackInvIs DEF StackCount, Early
    <3>4. CASE ~Shifted
      <4>1. Listed
        BY <3>1, <3>4 DEF StackInv
      <4>2. /\ existing' \in Seq(Comment) /\ Len(existing) \in Nat /\ Len(existing') \in Nat
            /\ Len(existing') <= Len(comments)
            /\ \A i \in 1..Len(existing') :
                 existing'[i] = IF i <= Len(existing) THEN existing[i] ELSE comments[i]
            /\ IF NextPage(page) THEN Len(existing') = (page' - 1) * PerPage
               ELSE Len(existing') = Len(comments)
        BY <3>1, <3>2, <4>1, ListAnswered DEF Listed
      <4>3. DOMAIN existing' = 1..Len(existing') /\ DOMAIN existing = 1..Len(existing)
            /\ DOMAIN comments = 1..Len(comments) /\ Len(comments) \in Nat
        BY <4>2 DEF CiTypes
      <4>4. \A i \in DOMAIN existing' : comments[i].ours => existing'[i].marked
        <5> TAKE i \in DOMAIN existing'
        <5>0. i \in 1..Len(existing')
          BY <4>3, Zenon
        <5>1. i \in 1..Len(existing') /\ i \in DOMAIN comments
          BY <4>2, <4>3, <5>0, Within, Zenon
        <5>2. CASE i <= Len(existing)
          <6>1. i \in 1..Len(existing)
            BY <4>2, <5>0, <5>2, UpTo, Zenon
          <6>2. i \in DOMAIN existing /\ existing'[i] = existing[i]
            BY <4>2, <4>3, <5>1, <5>2, <6>1, Zenon
          <6> QED BY <4>1, <6>2 DEF Listed
        <5>3. CASE ~(i <= Len(existing))
          <6>1. existing'[i] = comments[i]
            BY <4>2, <5>1, <5>3
          <6> QED BY <5>1, <6>1 DEF CommentsInv
        <5> QED BY <5>2, <5>3
      <4>5. CASE NextPage(page)
        <5>1. pc' = "comment" /\ Listed'
          BY <3>1, <3>2, <4>2, <4>4, <4>5 DEF Listed
        <5> QED BY <2>2, <3>1, <3>2, <3>4, <5>1, StackInvIs DEF StackCount
      <4>6. CASE ~NextPage(page)
        <5>1. pc' = "sticky"
          BY <3>1, <4>6
        <5>2. Marked(existing)' = 0 => n = 0
          <6> HAVE Marked(existing)' = 0
          <6>1. Marked(existing') = 0
            BY MarkedSame, Zenon
          <6>2. \A i \in 1..Len(existing') : ~existing'[i].marked
            BY <4>2, <6>1, MarkedFirst
          <6>3. \A i \in DOMAIN comments : ~comments[i].ours
            BY <4>2, <4>3, <4>4, <4>6, <6>2
          <6>4. Stickies = {}
            BY <6>3 DEF Stickies
          <6> QED BY <6>4, FS_EmptySet
        <5> QED BY <1>0, <2>2, <3>1, <3>2, <3>4, <5>1, <5>2, StackInvIs DEF StackCount
      <4> QED BY <4>5, <4>6
    <3> QED BY <3>3, <3>4
  <2>4. CASE request.kind \in {"list", "PATCH", "POST"} /\ ~(request.kind = "list" /\ GoesOn)
    <3>1. pc' = "reviewComments"
      <4>1. After(SurfaceOf(request)) = "reviewComments"
        BY <2>4 DEF SurfaceOf, After
      <4> QED BY <2>1, <2>4, <4>1 DEF GoesOn, GivesUp
    <3>2. CASE Added(Ours(request)) /\ request.kind = "POST"
      <4>1. More
        BY <1>0, <3>2, StickiesCount DEF Ours
      <4>2. n + 1 <= 1 + late + shifts
        <5>1. pc = "sticky" /\ Marked(existing) = 0
          BY <3>2 DEF RequestInv
        <5>2. CASE Shifted
          <6>1. n <= late + shifts
            BY <5>1, <5>2, StackInvIs DEF StackCount
          <6> QED BY <1>0, <6>1
        <5>3. CASE ~Shifted
          <6>1. n <= lateNow
            BY <5>1, <5>3, StackInvIs DEF StackCount
          <6> QED BY <1>0, <6>1
        <5> QED BY <5>2, <5>3
      <4> QED BY <2>2, <3>1, <4>1, <4>2, StackInvIs DEF StackCount, More, Early
    <3>3. CASE NoMore
      <4>1. n' <= 1 + late + shifts
        <5>1. n' <= n /\ n' \in Nat /\ n <= 1 + late + shifts
          BY <1>0, <3>3, FS_Subset, FS_CardinalityType, StackInvIs DEF NoMore, StackCount
        <5> QED BY <1>0, <5>1
      <4> QED BY <2>2, <3>1, <3>3, <4>1, StackInvIs DEF StackCount, NoMore, Early
    <3>4. (Added(Ours(request)) /\ request.kind = "POST") \/ NoMore
      <4>1. CASE Carried
        BY <1>0, <2>1, <4>1, CarriedOut, StickiesCount DEF Carried
      <4>2. CASE UNCHANGED server
        BY <1>0, <4>2, StickiesCount DEF server, Same
      <4> QED BY <2>1, <4>1, <4>2
    <3> QED BY <3>2, <3>3, <3>4
  <2>5. CASE request.kind \in {"review", "status"}
    <3>1. n' = n /\ IsFiniteSet(Stickies')
      <4>1. comments' = comments
        BY <2>1, <2>5, CarryOutIs DEF Carried, server
      <4> QED BY <1>0, <4>1 DEF Stickies
    <3>2. pc' \in {"reviewComments", "status", "ended"}
      <4>1. pc \in {"reviewComments", "status"}
        BY <2>5 DEF RequestInv
      <4>2. After(SurfaceOf(request)) \in {"status", "ended"}
        BY <2>5 DEF SurfaceOf, After
      <4> QED BY <2>1, <2>5, <4>1, <4>2 DEF GoesOn, GivesUp
    <3> QED BY <2>2, <3>1, <3>2, StackInvIs DEF StackCount, Early
  <2> QED BY <2>1, <2>3, <2>4, <2>5
<1>6. CASE Outside
  <2>1. UNCHANGED <<run, in, here>>
    BY <1>6, OutsideSame
  <2>2. Marked(existing)' = Marked(existing)
    BY <2>1, MarkedSame DEF here
  <2>3. ASSUME NoMore, Shifted' = Shifted, pc = "comment" /\ ~Shifted => Listed',
               late' = late, lateNow' = lateNow, shifts' = shifts
        PROVE  StackInv'
    <3>1. n' <= n /\ n' \in Nat
      BY <2>3, FS_CardinalityType DEF NoMore
    <3>2. pc' = pc
      BY <2>1 DEF here
    <3> HIDE DEF n, late, lateNow, shifts
    <3>3. StackCount(n, late, lateNow, shifts)
      BY StackInvIs DEF n, late, lateNow, shifts
    <3>4. StackCount(n, late, lateNow, shifts)'
      BY <1>0, <2>2, <2>3, <3>1, <3>2, <3>3 DEF StackCount
    <3> QED BY <2>3, <3>2, <3>4, StackInvIs DEF NoMore, n, late, lateNow, shifts
  <2>4. ASSUME UNCHANGED <<lateWrites, deleted>>
        PROVE  late' = late /\ lateNow' = lateNow /\ shifts' = shifts /\ Shifted' = Shifted
    BY <2>1, <2>4 DEF LatePosts, LatePostsNow, Shifts, Shifted
  <2>5. Same => NoMore /\ (Listed => Listed')
    BY <1>0, <2>1, StickiesCount, ListedStays DEF here
  <2>6. \A id, w : Patched(id, w) => NoMore /\ (Listed => Listed')
    BY <1>0, <2>1, StickiesCount, ListedStays DEF here
  <2>7. \A x : Added(x) => (IF x.ours THEN More ELSE NoMore) /\ (Listed => Listed')
    BY <1>0, <2>1, StickiesCount, ListedStays DEF here
  <2>8. CASE LateRequest
    <3>1. PICK r \in orphans : Late(r)
      BY <2>8, LateRequestIs
    <3>2. r \in Request /\ deleted' = deleted
      BY <3>1 DEF CiTypes, Late
    <3>3. CASE UNCHANGED <<server, lateWrites>>
      <4>1. Same
        BY <3>3 DEF server, Same
      <4> QED BY <2>3, <2>4, <2>5, <3>2, <3>3, <4>1, StackInvIs
    <3>4. CASE /\ CarryOut(r)
               /\ lateWrites' = IF r.kind \in {"POST", "PATCH"}
                                THEN lateWrites \cup {[run |-> run, by |-> r.run, kind |-> r.kind]}
                                ELSE lateWrites
      <4>1. CASE r.kind \notin {"POST", "PATCH"}
        <5>1. Same /\ lateWrites' = lateWrites
          BY <3>2, <3>4, <4>1, CarriedOut
        <5> QED BY <2>3, <2>4, <2>5, <3>2, <5>1, StackInvIs
      <4>2. CASE r.kind = "PATCH"
        <5>1. Patched(r.arg, r.run)
          BY <3>2, <3>4, <4>2, CarriedOut
        <5>2. lateWrites' = lateWrites \cup {[run |-> run, by |-> r.run, kind |-> "PATCH"]}
          BY <3>4, <4>2
        <5>3. LatePosts' = LatePosts /\ LatePostsNow' = LatePostsNow
          BY <2>1, <5>2 DEF LatePosts, LatePostsNow
        <5>4. Shifts' = Shifts /\ Shifted' = Shifted
          BY <2>1, <3>2 DEF Shifts, Shifted
        <5> QED BY <2>3, <2>6, <5>1, <5>3, <5>4, StackInvIs
      <4>3. CASE r.kind = "POST"
        <5> DEFINE w == [run |-> run, by |-> r.run, kind |-> "POST"]
        <5>1. Added(Ours(r))
          BY <3>2, <3>4, <4>3, CarriedOut
        <5>2. lateWrites' = lateWrites \cup {w} /\ w \notin lateWrites
          <6>1. lateWrites' = lateWrites \cup {w}
            BY <3>4, <4>3
          <6>2. w.by = r.run
            OBVIOUS
          <6> HIDE DEF w
          <6> QED BY <6>1, <6>2 DEF OrphansInv
        <5>3. w.run = run /\ w.kind = "POST"
          OBVIOUS
        <5> HIDE DEF w
        <5>4. /\ LatePosts' = LatePosts \cup {w} /\ LatePostsNow' = LatePostsNow \cup {w}
              /\ w \notin LatePosts /\ w \notin LatePostsNow
          BY <2>1, <5>2, <5>3 DEF LatePosts, LatePostsNow
        <5>5. late' = late + 1 /\ lateNow' = lateNow + 1
          BY <5>4, CountsAre, FS_AddElement
        <5>6. shifts' = shifts /\ Shifted' = Shifted /\ pc' = pc
          BY <2>1, <3>2 DEF Shifts, Shifted, here
        <5>7. More /\ (Listed => Listed')
          BY <2>7, <5>1 DEF Ours
        <5>8. n' = n + 1
          BY <5>7 DEF More
        <5> HIDE DEF n, late, lateNow, shifts
        <5>9. StackCount(n, late, lateNow, shifts)
          BY StackInvIs DEF n, late, lateNow, shifts
        <5>10. StackCount(n, late, lateNow, shifts)'
          BY <1>0, <2>2, <5>5, <5>6, <5>8, <5>9 DEF StackCount
        <5> QED BY <5>6, <5>7, <5>10, StackInvIs DEF More, n, late, lateNow, shifts
      <4> QED BY <4>1, <4>2, <4>3
    <3> QED BY <3>1, <3>3, <3>4 DEF Late
  <2>9. CASE SomeoneComments \/ SomeoneDeletes
    <3>1. CASE /\ \E x : Added(x) /\ ~x.ours
               /\ UNCHANGED <<lateWrites, deleted>>
      BY <2>3, <2>4, <2>7, <3>1, StackInvIs
    <3>2. CASE /\ \E i : Gone(i)
               /\ lateWrites' = lateWrites
               /\ deleted' = deleted \cup {[run |-> run, listing |-> pc = "comment"]}
      <4>1. NoMore
        BY <1>0, <3>2, StickiesCount
      <4>2. late' = late /\ lateNow' = lateNow
        BY <2>1, <3>2 DEF LatePosts, LatePostsNow
      <4>3. CASE pc # "comment"
        <5>1. deleted' = deleted \cup {[run |-> run, listing |-> FALSE]}
          BY <3>2, <4>3
        <5>2. Shifts' = Shifts /\ Shifted' = Shifted
          BY <2>1, <5>1 DEF Shifts, Shifted
        <5> QED BY <2>3, <4>1, <4>2, <4>3, <5>2
      <4>4. CASE pc = "comment"
        <5> DEFINE d == [run |-> run, listing |-> TRUE]
        <5>1. deleted' = deleted \cup {d}
          BY <3>2, <4>4
        <5>2. Shifts' = Shifts \cup {d} /\ Shifted' /\ (d \in Shifts <=> Shifted)
          BY <2>1, <5>1 DEF Shifts, Shifted
        <5>3. /\ Shifted => shifts' = shifts
              /\ ~Shifted => shifts' = shifts + 1
          <6>1. Shifted => Shifts' = Shifts
            BY <5>2
          <6>2. ~Shifted => shifts' = shifts + 1
            BY <5>2, CountsAre, FS_AddElement
          <6> QED BY <6>1, <6>2
        <5>4. n' <= n /\ n' \in Nat /\ pc' = pc
          BY <2>1, <4>1, FS_CardinalityType DEF NoMore, here
        <5> HIDE DEF n, late, lateNow, shifts
        <5>5. StackCount(n, late, lateNow, shifts)
          BY StackInvIs DEF n, late, lateNow, shifts
        <5>6. n <= late + shifts'
          <6>1. CASE Shifted
            <7>1. n <= late + shifts
              BY <4>4, <5>5, <6>1 DEF StackCount
            <7> QED BY <1>0, <5>3, <7>1
          <6>2. CASE ~Shifted
            <7>1. n <= 1 + late + shifts /\ shifts' = shifts + 1
              BY <5>3, <5>5, <6>2 DEF StackCount
            <7> QED BY <1>0, <7>1
          <6> QED BY <6>1, <6>2
        <5>7. shifts' \in Nat
          BY <1>0, <5>3
        <5>8. n' <= late' + shifts' /\ n' <= 1 + late' + shifts'
          <6>1. late' = late /\ late \in Nat /\ n \in Nat /\ n' \in Nat /\ shifts' \in Nat
                /\ n' <= n /\ n <= late + shifts'
            BY <1>0, <4>2, <5>4, <5>6, <5>7, Zenon
          <6>2. \A a, b, c, e \in Nat : a <= b /\ b <= c + e => a <= c + e /\ a <= 1 + c + e
            OBVIOUS
          <6> QED BY <6>1, <6>2, Zenon
        <5>9. StackCount(n, late, lateNow, shifts)'
          BY <4>4, <5>2, <5>4, <5>8 DEF StackCount
        <5> QED BY <4>1, <5>2, <5>9, StackInvIs DEF NoMore, n, late, lateNow, shifts
      <4> QED BY <4>3, <4>4
    <3> QED BY <2>9, <3>1, <3>2, SomeoneIs
  <2> QED BY <1>6, <2>8, <2>9 DEF Outside
<1>7. CASE UNCHANGED vars
  <2>1. UNCHANGED <<run, here, server, outside>>
    BY <1>7 DEF vars
  <2>2. Marked(existing)' = Marked(existing) /\ Listed' = Listed
    BY <2>1, MarkedSame DEF here, server, Listed
  <2> QED BY <1>1, <1>2, <2>1, <2>2, StackInvIs DEF StackCount, here
<1> QED
  BY <1>3, <1>4, <1>5, <1>6, <1>7 DEF Next, Outside

-----------------------------------------------------------------------------
(* The first summary is the current one.                                   *)

LEMMA MarkedAdded ==
  ASSUME CiTypes, NEW x, Added(x)
  PROVE  /\ Marked(comments) # 0 => Marked(comments') = Marked(comments)
         /\ Marked(comments) = 0 /\ x.marked => Marked(comments') = Len(comments) + 1
         /\ Marked(comments) = 0 /\ ~x.marked => Marked(comments') = 0
<1>1. /\ comments \in Seq(Comment) /\ comments' \in Seq(Comment)
      /\ Len(comments) \in Nat /\ Len(comments') = Len(comments) + 1
      /\ \A i \in 1..Len(comments) : comments'[i] = comments[i]
      /\ comments'[Len(comments) + 1] = x
  BY AddedAt DEF CiTypes
<1>2. \A i \in 1..Len(comments') : i \in 1..Len(comments) \/ i = Len(comments) + 1
  BY <1>1, LastOrBefore
<1>3. 1..Len(comments) \subseteq 1..Len(comments') /\ Len(comments) + 1 \in 1..Len(comments')
  BY <1>1
<1>4. ASSUME Marked(comments) # 0 PROVE Marked(comments') = Marked(comments)
  <2> DEFINE m == Marked(comments)
  <2>1. /\ m \in 1..Len(comments) /\ comments[m].marked
        /\ \A i \in 1..Len(comments) : comments[i].marked => m <= i
    BY <1>1, <1>4, MarkedFirst
  <2> HIDE DEF m
  <2>2. m \in 1..Len(comments') /\ comments'[m].marked
    BY <1>1, <1>3, <2>1
  <2>3. \A i \in 1..Len(comments') : comments'[i].marked => m <= i
    <3> TAKE i \in 1..Len(comments')
    <3> HAVE comments'[i].marked
    <3>1. CASE i \in 1..Len(comments)
      BY <1>1, <2>1, <3>1
    <3>2. CASE i = Len(comments) + 1
      BY <1>1, <2>1, <3>2
    <3> QED BY <1>2, <3>1, <3>2
  <2> QED BY <1>1, <2>2, <2>3, MarkedIs DEF m
<1>5. ASSUME Marked(comments) = 0
      PROVE  \A i \in 1..Len(comments) : ~comments'[i].marked
  BY <1>1, <1>5, MarkedFirst
<1>6. ASSUME Marked(comments) = 0, x.marked PROVE Marked(comments') = Len(comments) + 1
  <2>1. \A i \in 1..Len(comments') : comments'[i].marked => Len(comments) + 1 <= i
    <3> TAKE i \in 1..Len(comments')
    <3> HAVE comments'[i].marked
    <3>1. i = Len(comments) + 1
      BY <1>2, <1>5, <1>6
    <3> QED BY <1>1, <3>1
  <2> QED BY <1>1, <1>3, <1>6, <2>1, MarkedIs
<1>7. ASSUME Marked(comments) = 0, ~x.marked PROVE Marked(comments') = 0
  <2>1. \A i \in 1..Len(comments') : ~comments'[i].marked
    BY <1>1, <1>2, <1>5, <1>7
  <2> QED BY <1>1, <2>1, MarkedFirst
<1> QED BY <1>4, <1>6, <1>7

(* Somebody's comment changes nothing that the run has found out.          *)
LEMMA AddedKeeps ==
  ASSUME CiTypes, NEW x, Added(x), UNCHANGED <<run, existing, page>>,
         Marked(comments) = 0 => ~x.marked
  PROVE  /\ IsPrefixOfComments => IsPrefixOfComments'
         /\ Current => Current'
         /\ Marked(comments) = 0 => Marked(comments') = 0
<1>1. /\ comments \in Seq(Comment) /\ comments' \in Seq(Comment)
      /\ Len(comments) \in Nat /\ Len(comments') = Len(comments) + 1
      /\ \A i \in 1..Len(comments) : comments'[i] = comments[i]
  BY AddedAt DEF CiTypes
<1>2. existing \in Seq(Comment) /\ DOMAIN existing = 1..Len(existing) /\ Len(existing) \in Nat
  BY DEF CiTypes
<1>3. ASSUME IsPrefixOfComments PROVE IsPrefixOfComments'
  <2>1. DOMAIN existing \subseteq 1..Len(comments) /\ Len(existing) <= Len(comments')
    BY <1>1, <1>2, <1>3 DEF IsPrefixOfComments
  <2> QED BY <1>1, <1>3, <2>1 DEF IsPrefixOfComments
<1>4. ASSUME Current PROVE Current'
  <2>1. Marked(comments') = Marked(comments) /\ Marked(comments) # 0
    BY <1>4, MarkedAdded DEF Current
  <2>2. Marked(comments) \in 1..Len(comments)
    BY <1>1, <2>1, MarkedFirst
  <2>3. comments'[Marked(comments')].body = run'
    BY <1>1, <1>4, <2>1, <2>2 DEF Current
  <2> QED BY <2>1, <2>3 DEF Current
<1>5. Marked(comments) = 0 => Marked(comments') = 0
  BY MarkedAdded
<1> QED BY <1>3, <1>4, <1>5

(* The run updates the first comment that bears the marker.                *)
LEMMA PatchIsFirst ==
  ASSUME CiTypes, CommentsInv, run' = run, IsPrefixOfComments, Marked(existing) # 0,
         Patched(existing[Marked(existing)].id, run)
  PROVE  Current'
<1> DEFINE m == Marked(existing)
<1>1. /\ existing \in Seq(Comment) /\ comments \in Seq(Comment) /\ comments' \in Seq(Comment)
      /\ Len(existing) \in Nat /\ Len(comments) \in Nat /\ Len(comments') = Len(comments)
      /\ DOMAIN existing = 1..Len(existing) /\ DOMAIN comments = 1..Len(comments)
  BY DEF CiTypes, Patched
<1>2. /\ m \in 1..Len(existing) /\ existing[m].marked
      /\ \A i \in 1..Len(existing) : existing[i].marked => m <= i
  BY <1>1, MarkedFirst
<1>3. m \in 1..Len(comments) /\ existing[m].id = comments[m].id
  BY <1>1, <1>2 DEF IsPrefixOfComments
<1> HIDE DEF m
<1>4. Patched(comments[m].id, run)
  BY <1>3 DEF m
<1>5. comments'[m].marked /\ comments'[m].body = run
  BY <1>3, <1>4 DEF Patched
<1>6. \A i \in 1..Len(comments) : comments'[i].marked => m <= i
  <2> TAKE i \in 1..Len(comments)
  <2> HAVE comments'[i].marked
  <2>1. CASE comments[i].id = comments[m].id
    <3>1. i = m
      BY <1>1, <1>3, <2>1 DEF CommentsInv
    <3> QED BY <1>3, <3>1
  <2>2. CASE comments[i].id # comments[m].id /\ i < m
    <3>1. comments'[i] = comments[i]
      BY <1>4, <2>2 DEF Patched
    <3>2. i \in 1..Len(existing) /\ existing[i].marked = comments[i].marked
      BY <1>1, <1>2, <2>2 DEF IsPrefixOfComments
    <3> QED BY <1>2, <3>1, <3>2
  <2> QED BY <1>3, <2>1, <2>2
<1>7. Marked(comments') = m
  BY <1>1, <1>3, <1>5, <1>6, MarkedIs
<1>8. m # 0
  BY <1>3
<1> QED BY <1>5, <1>7, <1>8 DEF Current

LEMMA FirstStays ==
  ASSUME CiTypes, RequestInv, OrphansInv, FreshInv, CommentsInv, FirstInv, [Next]_vars
  PROVE  FirstInv'
<1>0. /\ run \in Nat /\ comments \in Seq(Comment) /\ existing \in Seq(Comment)
      /\ Len(comments) \in Nat /\ Len(existing) \in Nat
  BY DEF CiTypes
<1>1. CASE StartRun
  <2>1. pc' = "args"
    BY <1>1 DEF StartRun
  <2> QED BY <2>1 DEF FirstInv, Reported
<1>2. ASSUME UNCHANGED <<run, comments, existing, page, lateWrites, deleted>>
      PROVE  /\ Quiet' = Quiet /\ Current' = Current /\ IsPrefixOfComments' = IsPrefixOfComments
             /\ Marked(existing') = Marked(existing) /\ Marked(comments') = Marked(comments)
  BY <1>2 DEF Quiet, Current, IsPrefixOfComments
<1>3. CASE RunStep
  <2>1. /\ UNCHANGED <<run, in, page, existing, server, outside>>
        /\ Moves \/ Sends \/ Ends
    BY <1>3, RunStepIs
  <2>2. /\ Quiet' = Quiet /\ Current' = Current /\ IsPrefixOfComments' = IsPrefixOfComments
        /\ Marked(existing') = Marked(existing) /\ Marked(comments') = Marked(comments)
    BY <1>2, <2>1 DEF server, outside
  <2>3. Posts' = Posts
    BY <2>1, InputsSame
  <2>4. CASE Sends
    <3>1. UNCHANGED <<pc, exit, crashed, warnings>>
      BY <2>4 DEF Sends
    <3> QED BY <2>1, <2>2, <2>3, <3>1 DEF FirstInv, Reported
  <2>5. CASE Moves
    <3>1. pc' # "sticky" /\ ~Reported' /\ warnings' = warnings
      BY <2>5 DEF Moves, Reported
    <3>2. CASE pc = "surfaces" /\ pc' = "comment"
      <4>1. page = 1 /\ existing = <<>>
        BY <3>2 DEF FreshInv, Early
      <4>2. (1 - 1) * PerPage = 0 /\ Len(<<>>) = 0
        BY CiAssumption DEF CiAssumption
      <4>3. Len(existing') = (page' - 1) * PerPage
        BY <2>1, <4>1, <4>2
      <4>4. IsPrefixOfComments
        BY <1>0, <4>1, <4>2 DEF IsPrefixOfComments
      <4> QED BY <2>2, <3>1, <3>2, <4>3, <4>4 DEF FirstInv
    <3>3. CASE pc = "comment" /\ pc' = "reviewComments" /\ "comment" \notin in.want
      BY <2>1, <3>1, <3>3 DEF FirstInv
    <3>4. CASE pc = "reviewComments" /\ pc' = "status"
      BY <2>1, <2>2, <3>1, <3>4 DEF FirstInv
    <3>5. CASE pc' \in Early
      BY <3>1, <3>5 DEF FirstInv, Early
    <3> QED BY <2>5, <3>2, <3>3, <3>4, <3>5 DEF Moves, Early
  <2>6. CASE Ends
    <3>1. pc' = "ended"
      BY <2>6 DEF Ends
    <3>2. Reported' /\ Posts' => pc = "status" /\ warnings' = warnings
      <4>1. ASSUME <<exit', crashed'>> \in {<<2, FALSE>>, <<1, TRUE>>} PROVE ~Reported'
        <5>1. exit' = 2 \/ crashed'
          BY <4>1
        <5> QED BY <5>1 DEF Reported
      <4> QED BY <2>3, <2>6, <4>1 DEF Ends
    <3> QED BY <2>1, <2>2, <3>1, <3>2 DEF FirstInv
  <2> QED BY <2>1, <2>4, <2>5, <2>6
<1>4. CASE Answer
  <2>1. /\ UNCHANGED <<run, in, outside>> /\ request.run = run
        /\ \/ Carried /\ GoesOn
           \/ (Carried \/ UNCHANGED server) /\ GivesUp
        /\ request.kind \in {"list", "PATCH", "POST", "review", "status"}
        /\ request \in Request
    BY <1>4, AnswerIs, Waiting DEF CiTypes
  <2>2. Quiet' = Quiet
    BY <2>1 DEF Quiet, outside
  <2>3. SUFFICES ASSUME Quiet PROVE FirstInv'
    BY <2>2 DEF FirstInv
  <2>4. CASE request.kind = "list" /\ GoesOn
    <3>1. /\ pc = "comment" /\ existing' = existing \o Page(page) /\ page' = page + 1
          /\ pc' = IF NextPage(page) THEN "comment" ELSE "sticky"
      BY <2>4 DEF GoesOn, RequestInv
    <3>2. comments' = comments
      BY <2>1, <2>4, CarryOutIs DEF Carried, server
    <3>3. Len(existing) = (page - 1) * PerPage /\ IsPrefixOfComments
      BY <2>3, <3>1 DEF FirstInv
    <3>4. /\ existing' \in Seq(Comment) /\ Len(existing) \in Nat /\ Len(existing') \in Nat
          /\ Len(existing') <= Len(comments)
          /\ \A i \in 1..Len(existing') :
               existing'[i] = IF i <= Len(existing) THEN existing[i] ELSE comments[i]
          /\ IF NextPage(page) THEN Len(existing') = (page' - 1) * PerPage
             ELSE Len(existing') = Len(comments)
      BY <3>1, <3>2, <3>3, ListAnswered DEF IsPrefixOfComments
    <3>5. DOMAIN existing' = 1..Len(existing') /\ DOMAIN existing = 1..Len(existing)
      BY <1>0, <3>4
    <3>6. \A i \in 1..Len(existing') :
            existing'[i].id = comments[i].id /\ existing'[i].marked = comments[i].marked
      <4> TAKE i \in 1..Len(existing')
      <4>1. CASE i <= Len(existing)
        <5>1. i \in 1..Len(existing)
          BY <3>4, <4>1, UpTo, Zenon
        <5>2. existing'[i] = existing[i]
          BY <3>4, <4>1
        <5> QED BY <3>3, <3>5, <5>1, <5>2 DEF IsPrefixOfComments
      <4>2. CASE ~(i <= Len(existing))
        BY <3>4, <4>2
      <4> QED BY <4>1, <4>2
    <3>7. IsPrefixOfComments'
      BY <3>2, <3>4, <3>5, <3>6, Zenon DEF IsPrefixOfComments
    <3>8. ~Reported'
      BY <3>1 DEF Reported
    <3>9. CASE NextPage(page)
      BY <3>1, <3>4, <3>7, <3>8, <3>9 DEF FirstInv
    <3>10. CASE ~NextPage(page)
      <4>1. Marked(existing') = 0 => Marked(comments') = 0
        <5> HAVE Marked(existing') = 0
        <5>1. \A i \in 1..Len(existing') : ~existing'[i].marked
          BY <3>4, MarkedFirst
        <5>2. \A i \in 1..Len(comments) : ~comments[i].marked
          BY <3>4, <3>6, <3>10, <5>1
        <5>3. Marked(comments) = 0
          BY <1>0, <5>2, MarkedFirst
        <5> QED BY <3>2, <5>3
      <4> QED BY <3>1, <3>7, <3>8, <3>10, <4>1 DEF FirstInv
    <3> QED BY <3>9, <3>10
  <2>5. CASE request.kind \in {"list", "PATCH", "POST"} /\ GivesUp
    <3>1. SurfaceOf(request) = "comment" /\ After("comment") = "reviewComments"
      BY <2>5 DEF SurfaceOf, After
    <3>2. pc' = "reviewComments" /\ "comment" \in warnings'
      BY <2>5, <3>1 DEF GivesUp
    <3> QED BY <3>2 DEF FirstInv
  <2>6. CASE request.kind \in {"PATCH", "POST"} /\ Carried /\ GoesOn
    <3>1. SurfaceOf(request) = "comment" /\ After("comment") = "reviewComments"
      BY <2>6 DEF SurfaceOf, After
    <3>2. pc' = "reviewComments"
      BY <2>6, <3>1 DEF GoesOn
    <3>3. Current'
      <4>1. CASE request.kind = "PATCH"
        <5>1. /\ pc = "sticky" /\ Marked(existing) # 0
              /\ request.arg = existing[Marked(existing)].id
          BY <4>1 DEF RequestInv
        <5>2. IsPrefixOfComments
          BY <2>3, <5>1 DEF FirstInv
        <5>3. Patched(request.arg, run)
          BY <2>1, <2>6, <4>1, CarryOutComments DEF Carried
        <5> QED BY <2>1, <5>1, <5>2, <5>3, PatchIsFirst
      <4>2. CASE request.kind = "POST"
        <5>1. pc = "sticky" /\ Marked(existing) = 0
          BY <4>2 DEF RequestInv
        <5>2. Marked(comments) = 0
          BY <2>3, <5>1 DEF FirstInv
        <5> DEFINE x == Ours(request)
        <5>3. Added(x)
          BY <2>1, <2>6, <4>2, CarriedOut DEF Carried
        <5>4. x.marked /\ x.body = run
          BY <2>1 DEF Ours
        <5> HIDE DEF x
        <5>5. /\ Marked(comments') = Len(comments) + 1
              /\ comments'[Len(comments) + 1] = x
          BY <5>2, <5>3, <5>4, MarkedAdded, AddedAt
        <5>6. Len(comments) + 1 # 0
          BY <1>0
        <5> QED BY <2>1, <5>4, <5>5, <5>6 DEF Current
      <4> QED BY <2>6, <4>1, <4>2
    <3> QED BY <3>2, <3>3 DEF FirstInv, Reported
  <2>7. CASE request.kind \in {"review", "status"}
    <3>1. comments' = comments
      BY <2>1, <2>7, CarryOutIs DEF Carried, server
    <3>2. Current' = Current
      BY <2>1, <3>1 DEF Current
    <3>3. pc \in {"reviewComments", "status"}
      BY <2>7 DEF RequestInv
    <3>4. After(SurfaceOf(request)) \in {"status", "ended"}
          /\ SurfaceOf(request) \in {"reviewComments", "status"}
      BY <2>7 DEF SurfaceOf, After
    <3>5. pc' \in {"reviewComments", "status", "ended"}
      BY <2>1, <2>7, <3>3, <3>4 DEF GoesOn, GivesUp
    <3>6. "comment" \notin warnings' => "comment" \notin warnings
      BY <2>1, <3>4 DEF GoesOn, GivesUp
    <3> QED BY <2>1, <2>3, <3>2, <3>3, <3>5, <3>6 DEF FirstInv
  <2> QED BY <2>1, <2>4, <2>5, <2>6, <2>7
<1>5. CASE LateRequest
  <2>1. PICK r \in orphans : Late(r)
    BY <1>5, LateRequestIs
  <2>2. r \in Request /\ UNCHANGED <<run, in, here, deleted>>
    BY <2>1 DEF CiTypes, Late
  <2>3. SUFFICES ASSUME Quiet' PROVE FirstInv'
    BY DEF FirstInv
  <2>4. comments' = comments /\ lateWrites' = lateWrites
    <3>1. CASE UNCHANGED <<server, lateWrites>>
      BY <3>1 DEF server
    <3>2. CASE /\ CarryOut(r)
               /\ lateWrites' = IF r.kind \in {"POST", "PATCH"}
                                THEN lateWrites \cup {[run |-> run, by |-> r.run, kind |-> r.kind]}
                                ELSE lateWrites
      <4>1. r.kind \notin {"POST", "PATCH"}
        <5> SUFFICES ASSUME r.kind \in {"POST", "PATCH"} PROVE FALSE
          OBVIOUS
        <5>1. [run |-> run, by |-> r.run, kind |-> r.kind] \in lateWrites'
          BY <3>2
        <5> QED BY <2>2, <2>3, <5>1 DEF Quiet
      <4> QED BY <2>2, <3>2, <4>1, CarryOutIs
    <3> QED BY <2>1, <3>1, <3>2 DEF Late
  <2>5. /\ Quiet' = Quiet /\ Current' = Current /\ IsPrefixOfComments' = IsPrefixOfComments
        /\ Marked(existing') = Marked(existing) /\ Marked(comments') = Marked(comments)
    BY <1>2, <2>2, <2>4 DEF here
  <2>6. Posts' = Posts /\ Reported' = Reported
    BY <2>2, InputsSame DEF Reported, here
  <2> QED BY <2>2, <2>5, <2>6 DEF FirstInv, here
<1>6. CASE SomeoneComments \/ SomeoneDeletes
  <2>1. UNCHANGED <<run, in, here, lateWrites>>
    BY <1>6, SomeoneIs
  <2>2. CASE deleted' = deleted \cup {[run |-> run, listing |-> pc = "comment"]}
    <3>1. [run |-> run, listing |-> pc = "comment"] \in deleted'
      BY <2>2
    <3>2. ~Quiet'
      BY <2>1, <3>1 DEF Quiet
    <3> QED BY <3>2 DEF FirstInv
  <2>3. CASE /\ \E x : Added(x) /\ ~x.ours /\ (Marked(comments) = 0 => ~x.marked)
             /\ deleted' = deleted
    <3>1. PICK x : Added(x) /\ (Marked(comments) = 0 => ~x.marked)
      BY <2>3
    <3>2. /\ IsPrefixOfComments => IsPrefixOfComments'
          /\ Current => Current'
          /\ Marked(comments) = 0 => Marked(comments') = 0
      BY <2>1, <3>1, AddedKeeps DEF here
    <3>3. Quiet' = Quiet
      BY <2>1, <2>3 DEF Quiet
    <3>4. Posts' = Posts /\ Reported' = Reported
      BY <2>1, InputsSame DEF Reported, here
    <3>5. Marked(existing') = Marked(existing)
      BY <2>1 DEF here
    <3> QED BY <2>1, <3>2, <3>3, <3>4, <3>5 DEF FirstInv, here
  <2> QED BY <1>6, <2>2, <2>3, SomeoneIs
<1>7. CASE UNCHANGED vars
  <2>1. UNCHANGED <<run, in, here, server, outside>>
    BY <1>7 DEF vars
  <2>2. /\ Quiet' = Quiet /\ Current' = Current /\ IsPrefixOfComments' = IsPrefixOfComments
        /\ Marked(existing') = Marked(existing) /\ Marked(comments') = Marked(comments)
    BY <1>2, <2>1 DEF here, server, outside
  <2>3. Posts' = Posts /\ Reported' = Reported
    BY <2>1, InputsSame DEF Reported, here
  <2> QED BY <2>1, <2>2, <2>3 DEF FirstInv, here
<1> QED
  BY <1>1, <1>3, <1>4, <1>5, <1>6, <1>7 DEF Next

-----------------------------------------------------------------------------
(* All of it, at the beginning and after every step.                       *)

CiInv ==
  /\ CiTypes /\ RequestInv /\ OrphansInv /\ FreshInv /\ ServerInv
  /\ VerdictInv /\ ReviewInv /\ CommentsInv /\ StackInv /\ FirstInv

LEMMA CiBegins == Init => CiInv
<1> SUFFICES ASSUME Init PROVE CiInv
  OBVIOUS
<1>1. /\ run = 0 /\ pc = "ended" /\ page = 1 /\ existing = <<>> /\ posted = 0 /\ warnings = {}
      /\ request = NoRequest /\ exit = NoExit /\ crashed = FALSE /\ orphans = {}
      /\ comments = <<>> /\ reviews = <<>> /\ statuses = <<>> /\ ids = 0
      /\ lateWrites = {} /\ deleted = {} /\ in \in Invocations
  BY DEF Init
<1>2. DOMAIN comments = {} /\ DOMAIN reviews = {} /\ DOMAIN statuses = {}
  BY <1>1
<1>3. \A k : ReviewsOf(k) = {} /\ StatusesOf(k) = {}
  BY <1>2 DEF ReviewsOf, StatusesOf
<1>4. Bodies = {} /\ Stickies = {}
  BY <1>2 DEF Bodies, Stickies
<1>5. ~Reported /\ pc \notin Early
  BY <1>1 DEF Reported, Early, NoExit
<1>6. CiTypes
  <2>1. in \in Invocation
    BY <1>1, CiAssumption DEF CiAssumption
  <2>2. NoRequest \in Request
    BY DEF NoRequest, Request, Kinds
  <2>3. pc \in Places /\ exit \in {0, 1, 2, NoExit} /\ crashed \in BOOLEAN
    BY <1>1 DEF Places
  <2> QED BY <1>1, <2>1, <2>2, <2>3, FS_EmptySet DEF CiTypes
<1>7. RequestInv
  BY <1>1 DEF RequestInv, NoRequest
<1>8. OrphansInv
  BY <1>1 DEF OrphansInv
<1>9. FreshInv
  BY <1>1, <1>5 DEF FreshInv
<1>10. ServerInv
  BY <1>3, <1>4, <1>5 DEF ServerInv, NothingOf
<1>11. VerdictInv
  BY <1>1, <1>3, <1>5 DEF VerdictInv
<1>12. ReviewInv
  <2>1. Increasing /\ LateReviews
    BY <1>1, <1>2 DEF Increasing, LateReviews
  <2>2. \A k \in Nat : ReviewsOf(k) = 1..0
    BY <1>3
  <2>3. OwnReviews
    BY <1>1, <1>5 DEF OwnReviews
  <2> QED BY <2>1, <2>2, <2>3 DEF ReviewInv, ReviewsInv
<1>13. CommentsInv
  BY <1>2 DEF CommentsInv
<1>14. StackInv
  <2>1. IsFiniteSet(Stickies) /\ Cardinality(Stickies) = 0
    BY <1>4, FS_EmptySet
  <2>2. Cardinality(LatePosts) \in Nat /\ Cardinality(Shifts) \in Nat
    BY <1>6, CountsAre
  <2>3. 0 <= 1 + Cardinality(LatePosts) + Cardinality(Shifts)
    BY <2>2
  <2>4. StickiesDoNotStack
    BY <2>1, <2>3 DEF StickiesDoNotStack, LatePosts, Shifts
  <2> QED BY <1>1, <1>5, <2>1, <2>4 DEF StackInv, Early
<1>15. FirstInv
  BY <1>1, <1>5 DEF FirstInv
<1> QED
  BY <1>6, <1>7, <1>8, <1>9, <1>10, <1>11, <1>12, <1>13, <1>14, <1>15 DEF CiInv

LEMMA CiStays == CiInv /\ [Next]_vars => CiInv'
BY TypesStay, RequestStays, OrphansStay, FreshStays, ServerStays, VerdictStays,
   ReviewStays, CommentsStay, StackStays, FirstStays DEF CiInv

(* The invariant, for every number of runs, comments and failures.         *)
LEMMA CiAlways == Spec => []CiInv
<1>1. Init /\ [][Next]_vars => []CiInv
  BY CiBegins, CiStays, PTL
<1> QED BY <1>1, PTL DEF Spec

(* A run that ends exits with the blocking verdict whatever posting met,   *)
(* its status says the same, and one that may not post has created nothing *)
(* (src/cli/commands/ci.ts, src/ci/surfaces.ts).                           *)
THEOREM Verdict == Spec => []ExitIsTheVerdict
<1>1. CiInv => ExitIsTheVerdict
  <2> SUFFICES ASSUME CiInv, pc = "ended", exit # NoExit PROVE ExitIsTheVerdict
    BY DEF ExitIsTheVerdict
  <2>1. VerdictInv
    BY DEF CiInv
  <2>2. ~crashed /\ exit # 2 => exit = blockingExitCode
    BY <2>1 DEF VerdictInv
  <2>3. exit = 2 \/ crashed \/ ~Posts => Nothing
    BY <2>1 DEF VerdictInv
  <2>4. \A i \in StatusesOf(run) : statuses[i].exit = exit
    <3>1. CASE exit = 2 \/ crashed
      BY <2>3, <3>1 DEF Nothing, NothingOf
    <3>2. CASE ~crashed /\ exit # 2
      BY <2>1, <2>2, <3>2 DEF VerdictInv
    <3> QED BY <3>1, <3>2
  <2>5. Nothing => /\ StatusesOf(run) = {} /\ ReviewsOf(run) = {}
                   /\ \A i \in DOMAIN comments : comments[i].body # run
    BY DEF Nothing, NothingOf, Bodies
  <2> QED BY <2>2, <2>3, <2>4, <2>5 DEF ExitIsTheVerdict
<1> QED BY <1>1, CiAlways, PTL

(* What was asked for is posted in full or named in a warning, and the     *)
(* review comments of every run are the first diagnostics of its report,   *)
(* once each and in order (src/ci/poster.ts).                              *)
THEOREM AnsweredFor == Spec => []EverySurfaceIsAnsweredFor
<1>1. CiInv => EverySurfaceIsAnsweredFor
  <2> SUFFICES ASSUME CiInv PROVE EverySurfaceIsAnsweredFor
    OBVIOUS
  <2>1. CiTypes /\ VerdictInv /\ ReviewInv
    BY DEF CiInv
  <2>2. \A i, j \in DOMAIN reviews :
          i < j /\ reviews[i].run = reviews[j].run => reviews[i].item < reviews[j].item
    BY <2>1 DEF ReviewInv, ReviewsInv, Increasing
  <2>3. \A k \in 1..run : \E n \in {0} \cup ReviewsOf(k) : ReviewsOf(k) = 1..n
    <3> TAKE k \in 1..run
    <3>1. k \in Nat
      BY <2>1 DEF CiTypes
    <3>2. PICK n \in Nat : ReviewsOf(k) = 1..n
      BY <2>1, <3>1 DEF ReviewInv, ReviewsInv
    <3>3. n = 0 \/ n \in 1..n
      OBVIOUS
    <3> QED BY <3>2, <3>3
  <2>4. ASSUME Reported, Posts
        PROVE  /\ ReviewsOf(run) \in {1..posted, 1..(posted + 1)}
               /\ IF "reviewComments" \notin in.want THEN ReviewsOf(run) = {}
                  ELSE "reviewComments" \notin warnings =>
                         /\ ReviewsOf(run) = 1..posted
                         /\ posted \in {in.maxReviewComments, Len(in.diagnostics)}
                         /\ posted <= in.maxReviewComments /\ posted <= Len(in.diagnostics)
    <3>1. ReviewsDone
      BY <2>1, <2>4 DEF ReviewInv, OwnReviews
    <3>2. /\ ReviewCount \in {in.maxReviewComments, Len(in.diagnostics)}
          /\ ReviewCount <= in.maxReviewComments /\ ReviewCount <= Len(in.diagnostics)
      BY <2>1, ReviewCountIs DEF CiTypes
    <3> QED BY <3>1, <3>2 DEF ReviewsDone
  <2>5. ASSUME Reported, Posts
        PROVE  IF "status" \notin in.want THEN StatusesOf(run) = {}
               ELSE "status" \notin warnings => Cardinality(StatusesOf(run)) = 1
    BY <2>1, <2>5, FS_Singleton DEF VerdictInv
  <2> QED BY <2>2, <2>3, <2>4, <2>5 DEF EverySurfaceIsAnsweredFor
<1> QED BY <1>1, CiAlways, PTL

(* Each summary after the first is owed to a late request of a cancelled   *)
(* run or to a deletion during a listing, and the one a reader meets first *)
(* is that of the last run that ended well and undisturbed                 *)
(* (upsertComment of src/ci/poster.ts).                                    *)
THEOREM OneSticky == Spec => []OneCurrentSticky
<1>1. CiInv => OneCurrentSticky
  <2> SUFFICES ASSUME CiInv PROVE OneCurrentSticky
    OBVIOUS
  <2>1. StickiesDoNotStack
    BY DEF CiInv, StackInv
  <2>2. FirstStickyIsCurrent
    BY DEF CiInv, FirstInv, Quiet, Current, FirstStickyIsCurrent
  <2> QED BY <2>1, <2>2 DEF OneCurrentSticky
<1> QED BY <1>1, CiAlways, PTL
=============================================================================
