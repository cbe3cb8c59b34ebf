-------------------------- MODULE ConsoleCopyProofs --------------------------
(***************************************************************************)
(* Proofs about ConsoleView, for every set of reports and every screen     *)
(* height; about Clipboard, for every number of tools; and about the two   *)
(* together.                                                               *)
(***************************************************************************)
EXTENDS ConsoleCopy, TLAPS

LEMMA ModRange == \A a \in Nat, n \in Nat \ {0} : a % n \in 0 .. n - 1
  BY SMT

LEMMA CountsType ==
  ASSUME TypeOK
  PROVE  /\ counts \in Seq(Nat \ {0}) /\ Len(counts) \in Nat
         /\ \A g \in Nat : CountAt(g) \in Nat
         /\ \A g \in Nat : g < Len(counts) => CountAt(g) \in Nat \ {0}
  <1>1. counts \in Seq(Nat \ {0})
    BY ViewAssumption DEF TypeOK
  <1>. QED  BY <1>1 DEF CountAt

(***************************************************************************)
(* The reducer.  Good(s, m): s is a state the view may be in while m is    *)
(* the task offered for manual copy.                                       *)
(***************************************************************************)
Good(s, m) ==
  /\ s \in ConsoleState
  /\ Len(counts) > 0 => s.group < Len(counts) /\ s.occurrence < CountAt(s.group)
  /\ s.screen = "detail" => s.back = "review"
  /\ s.back # "detail"
  /\ s.screen = "manual" \/ s.back = "manual" => m # NoPrompt

LEMMA Fields ==
  ASSUME NEW s \in ConsoleState
  PROVE  /\ s.screen \in Screens /\ s.back \in Screens /\ s.menu \in 0 .. 3
         /\ s.group \in Nat /\ s.occurrence \in Nat /\ s.scroll \in 0 .. MaxScroll
         /\ s.menu \in Int /\ s.scroll \in Int /\ s.group \in Int
         /\ MaxScroll \in Nat /\ 0 \in 0 .. MaxScroll
  BY ViewAssumption DEF ConsoleState

LEMMA BackGood ==
  ASSUME TypeOK, NEW s, NEW m, Good(s, m)
  PROVE  Good(Back(s), m)
  <1>1. Back(s) \in ConsoleState
    <2>1. s \in ConsoleState
      BY DEF Good
    <2>. DEFINE target == IF s.screen = "review" THEN "results" ELSE s.back
    <2>2. target \in Screens /\ 0 \in 0 .. MaxScroll
      BY <2>1, Fields DEF Screens
    <2>3. Back(s) = [s EXCEPT !.screen = target, !.scroll = 0]
      BY DEF Back
    <2>. HIDE DEF target
    <2>. QED  BY <2>1, <2>2, <2>3 DEF ConsoleState
  <1>2. /\ Back(s).group = s.group /\ Back(s).occurrence = s.occurrence
        /\ Back(s).back = s.back
        /\ Back(s).screen = "results" \/ Back(s).screen = s.back
    BY DEF Good, Back, ConsoleState
  <1>. QED  BY <1>1, <1>2 DEF Good

LEMMA OpenGood ==
  ASSUME TypeOK, NEW s, NEW m, Good(s, m), NEW screen \in Screens,
         screen = "manual" => m # NoPrompt,
         screen = "detail" => s.screen = "review"
  PROVE  Good(Open(s, screen), m)
  <1>1. Open(s, screen) \in ConsoleState
    <2>1. s \in ConsoleState
      BY DEF Good
    <2>. DEFINE back == IF s.screen = "detail" THEN "review" ELSE s.screen
    <2>2. back \in Screens /\ 0 \in 0 .. MaxScroll
      BY <2>1, Fields DEF Screens
    <2>3. Open(s, screen) = [s EXCEPT !.screen = screen, !.back = back, !.scroll = 0]
      BY DEF Open
    <2>. HIDE DEF back
    <2>. QED  BY <2>1, <2>2, <2>3 DEF ConsoleState
  <1>2. /\ Open(s, screen).group = s.group
        /\ Open(s, screen).occurrence = s.occurrence
        /\ Open(s, screen).screen = screen
        /\ Open(s, screen).back = IF s.screen = "detail" THEN "review" ELSE s.screen
    BY DEF Good, Open, ConsoleState
  <1>. QED  BY <1>1, <1>2 DEF Good

LEMMA SelectGood ==
  ASSUME TypeOK, NEW s, NEW m, Good(s, m), NEW delta \in {-1, 1}
  PROVE  Good(SelectGroup(s, delta), m)
  <1>. DEFINE last == Clamp(Len(counts) - 1, 0, Len(counts))
              g    == Clamp(s.group + delta, 0, last)
  <1>0. s \in ConsoleState /\ s.group \in Nat /\ Len(counts) \in Nat
        /\ s.group + delta \in Int /\ 0 \in 0 .. MaxScroll
    <2>1. s \in ConsoleState
      BY DEF Good
    <2>2. s.group \in Nat /\ 0 \in 0 .. MaxScroll
      BY <2>1, Fields
    <2>3. Len(counts) \in Nat
      BY CountsType
    <2>. QED  BY <2>1, <2>2, <2>3
  <1>1. last \in Nat /\ (Len(counts) > 0 => last = Len(counts) - 1)
    <2>1. CASE Len(counts) = 0
      BY <1>0, <2>1 DEF Clamp
    <2>2. CASE Len(counts) > 0
      BY <1>0, <2>2 DEF Clamp
    <2>. QED  BY <1>0, <2>1, <2>2
  <1>. HIDE DEF last
  <1>2. g \in 0 .. last
    BY <1>0, <1>1 DEF Clamp
  <1>. HIDE DEF g
  <1>4. g \in Nat
    BY <1>1, <1>2
  <1>3. Len(counts) > 0 => g < Len(counts) /\ 0 < CountAt(g)
    <2>1. Len(counts) > 0 => g < Len(counts)
      BY <1>0, <1>1, <1>2
    <2>. QED  BY <1>4, <2>1, CountsType
  <1>5. SelectGroup(s, delta) = [s EXCEPT !.group = g, !.occurrence = 0, !.scroll = 0]
    BY DEF SelectGroup, g, last
  <1>6. SelectGroup(s, delta) \in ConsoleState
    <2>1. \A o \in Nat, c \in 0 .. MaxScroll :
            [s EXCEPT !.group = g, !.occurrence = o, !.scroll = c] \in ConsoleState
      BY <1>0, <1>4 DEF ConsoleState
    <2>2. 0 \in Nat /\ 0 \in 0 .. MaxScroll
      BY <1>0
    <2>. QED  BY <1>5, <2>1, <2>2, Zenon
  <1>7. LET t == SelectGroup(s, delta) IN
        t.group = g /\ t.occurrence = 0 /\ t.screen = s.screen /\ t.back = s.back
    BY <1>0, <1>5 DEF ConsoleState
  <1>. QED  BY <1>3, <1>6, <1>7 DEF Good

LEMMA VerticalGood ==
  ASSUME TypeOK, NEW s, NEW m, Good(s, m), NEW delta \in {-1, 1}
  PROVE  Good(Vertical(s, delta), m)
  <1>0. s \in ConsoleState
    BY DEF Good
  <1>1. CASE s.screen = "review"
    BY <1>1, SelectGood DEF Vertical
  <1>2. CASE s.screen = "results"
    <2>0. s.menu + delta \in Int
      BY <1>0, Fields
    <2>1. Clamp(s.menu + delta, 0, 3) \in 0 .. 3
      BY <2>0 DEF Clamp
    <2>2. Vertical(s, delta) = [s EXCEPT !.menu = Clamp(s.menu + delta, 0, 3)]
      BY <1>2 DEF Vertical
    <2>3. Vertical(s, delta) \in ConsoleState
      BY <1>0, <2>1, <2>2 DEF ConsoleState
    <2>4. LET t == Vertical(s, delta) IN
          t.group = s.group /\ t.occurrence = s.occurrence /\ t.screen = s.screen
          /\ t.back = s.back
      BY <1>0, <2>2 DEF ConsoleState
    <2>. QED  BY <2>3, <2>4 DEF Good
  <1>3. CASE s.screen \notin {"review", "results"}
    <2>0. s.scroll + delta \in Int /\ MaxScroll \in Int /\ 0 <= MaxScroll
      BY <1>0, Fields
    <2>1. Clamp(s.scroll + delta, 0, MaxScroll) \in 0 .. MaxScroll
      BY <2>0 DEF Clamp
    <2>2. Vertical(s, delta) = [s EXCEPT !.scroll = Clamp(s.scroll + delta, 0, MaxScroll)]
      BY <1>3 DEF Vertical
    <2>3. Vertical(s, delta) \in ConsoleState
      BY <1>0, <2>1, <2>2 DEF ConsoleState
    <2>4. LET t == Vertical(s, delta) IN
          t.group = s.group /\ t.occurrence = s.occurrence /\ t.screen = s.screen
          /\ t.back = s.back
      BY <1>0, <2>2 DEF ConsoleState
    <2>. QED  BY <2>3, <2>4 DEF Good
  <1>. QED  BY <1>1, <1>2, <1>3

LEMMA HorizontalGood ==
  ASSUME TypeOK, NEW s, NEW m, Good(s, m), NEW delta \in {-1, 1}
  PROVE  Good(Horizontal(s, delta), m)
  <1>. DEFINE count == CountAt(s.group)
              o     == IF count = 0 THEN 0 ELSE (s.occurrence + delta + count) % count
  <1>0. s \in ConsoleState /\ s.group \in Nat /\ s.occurrence \in Nat /\ count \in Nat
    BY CountsType DEF Good, ConsoleState
  <1>1. CASE s.screen \notin {"review", "detail"}
    BY <1>1 DEF Horizontal
  <1>2. CASE s.screen \in {"review", "detail"}
    <2>1. count # 0 => s.occurrence + delta + count \in Nat
      BY <1>0
    <2>2. o \in Nat /\ (count # 0 => o < count)
      <3>1. CASE count = 0
        BY <3>1
      <3>2. CASE count # 0
        <4>1. (s.occurrence + delta + count) % count \in 0 .. count - 1
          BY <1>0, <2>1, <3>2, ModRange
        <4>2. o \in 0 .. count - 1
          BY <3>2, <4>1
        <4>. HIDE DEF o
        <4>. QED  BY <1>0, <3>2, <4>2
      <3>. QED  BY <3>1, <3>2
    <2>3. Horizontal(s, delta) = [s EXCEPT !.occurrence = o, !.scroll = 0]
      BY <1>2 DEF Horizontal
    <2>4. Len(counts) > 0 => count # 0
      BY <1>0, CountsType DEF Good
    <2>. HIDE DEF o
    <2>5. Horizontal(s, delta) \in ConsoleState
      <3>1. 0 \in 0 .. MaxScroll
        BY <1>0, Fields
      <3>. QED  BY <1>0, <2>2, <2>3, <3>1 DEF ConsoleState
    <2>6. LET t == Horizontal(s, delta) IN
          t.group = s.group /\ t.occurrence = o /\ t.screen = s.screen
          /\ t.back = s.back
      BY <1>0, <2>3 DEF ConsoleState
    <2>. QED  BY <2>2, <2>4, <2>5, <2>6 DEF Good
  <1>. QED  BY <1>1, <1>2

LEMMA ManualGood ==
  ASSUME NEW s, NEW m, NEW task, Good(s, m), task # NoPrompt
  PROVE  Good(s, task)
  BY DEF Good

-----------------------------------------------------------------------------
(* The inductive invariant. *)

IInv == TypeOK /\ Good(state, manual) /\ OneCopyAtATime

LEMMA Bounds ==
  0 \in 0 .. MaxScroll /\ 0 \in 0 .. MaxCopies /\ 0 \in 0 .. 3 /\ 0 \in Nat
  BY ViewAssumption

LEMMA FirstCount ==
  ASSUME TypeOK
  PROVE  Len(counts) > 0 => CountAt(0) > 0
  <1>1. counts \in Seq(Nat \ {0})
    BY CountsType
  <1>. QED  BY <1>1 DEF CountAt

LEMMA InitInv == Init => IInv
  <1>. SUFFICES ASSUME Init PROVE IInv
    OBVIOUS
  <1>. USE DEF Init
  <1>1. state \in ConsoleState
    <2>1. \A n \in 0 .. 3, g \in Nat, o \in Nat, c \in 0 .. MaxScroll :
            [screen |-> "results", back |-> "results", menu |-> n, group |-> g,
             occurrence |-> o, scroll |-> c] \in ConsoleState
      BY DEF ConsoleState, Screens
    <2>2. state = [screen |-> "results", back |-> "results", menu |-> 0, group |-> 0,
                   occurrence |-> 0, scroll |-> 0]
      OBVIOUS
    <2>. QED  BY <2>1, <2>2, Bounds, Zenon
  <1>2. counts \in Reports /\ counts \in Seq(Nat \ {0})
    BY ViewAssumption
  <1>3. TypeOK
    <2>1. copies \in 0 .. MaxCopies
      BY Bounds
    <2>2. feedback \in Feedback /\ manual \in {NoPrompt} \cup 0 .. Len(counts)
      BY DEF Feedback
    <2>. QED  BY <1>1, <1>2, <2>1, <2>2 DEF TypeOK
  <1>4. Good(state, manual)
    <2>1. Len(counts) > 0 => CountAt(0) > 0
      BY <1>3, FirstCount
    <2>. QED  BY <1>1, <2>1 DEF Good
  <1>5. OneCopyAtATime
    BY DEF OneCopyAtATime
  <1>. QED  BY <1>3, <1>4, <1>5 DEF IInv

(* A key that only moves: navigation, or a new line of feedback.           *)
LEMMA MoveInv ==
  ASSUME IInv, Good(state', manual),
         feedback' \in Feedback, feedback' = "copying" => feedback = "copying",
         workflow' \in BOOLEAN,
         UNCHANGED <<counts, busy, pending, manual, mounted, copies>>
  PROVE  IInv'
  <1>1. TypeOK'
    BY DEF IInv, TypeOK, Good
  <1>2. Good(state, manual)'
    BY DEF Good, CountAt
  <1>3. OneCopyAtATime'
    BY DEF IInv, OneCopyAtATime
  <1>. QED  BY <1>1, <1>2, <1>3 DEF IInv

LEMMA StartInv ==
  ASSUME IInv, NEW task \in 0 .. Len(counts), StartCopy(task)
  PROVE  IInv'
  <1>. USE DEF IInv
  <1>1. TypeOK'
    <2>1. counts' \in Reports /\ state' \in ConsoleState /\ workflow' \in BOOLEAN
          /\ busy' \in BOOLEAN /\ mounted' \in BOOLEAN
          /\ manual' \in {NoPrompt} \cup 0 .. Len(counts')
      BY DEF StartCopy, TypeOK
    <2>2. copies' \in 0 .. MaxCopies /\ copies \in Nat
      BY ViewAssumption DEF StartCopy, TypeOK
    <2>3. feedback' \in Feedback
      BY DEF StartCopy, Feedback
    <2>4. pending' \subseteq [task : 0 .. Len(counts'), copy : Nat]
      BY <2>2 DEF StartCopy, TypeOK
    <2>. QED  BY <2>1, <2>2, <2>3, <2>4 DEF TypeOK
  <1>2. Good(state, manual)'
    BY DEF StartCopy, Good, CountAt
  <1>3. OneCopyAtATime'
    <2>1. pending = {}
      BY DEF StartCopy, MayCopy, OneCopyAtATime, TypeOK
    <2>2. pending' = {[task |-> task, copy |-> copies]} /\ busy' = TRUE
      BY <2>1 DEF StartCopy
    <2>. QED  BY <2>2 DEF OneCopyAtATime
  <1>. QED  BY <1>1, <1>2, <1>3

LEMMA CopyEndsInv == IInv /\ CopyEnds => IInv'
  <1>. SUFFICES ASSUME IInv, CopyEnds PROVE IInv'
    OBVIOUS
  <1>. USE DEF IInv
  <1>1. PICK p \in pending :
          /\ pending' = pending \ {p}
          /\ \/ mounted /\ feedback' = "copied" /\ UNCHANGED <<state, manual>>
             \/ mounted /\ feedback' = "copy failed" /\ FailedCopy(p.task)
             \/ ~mounted /\ UNCHANGED <<state, manual, feedback>>
    BY DEF CopyEnds
  <1>2. busy' = FALSE /\ UNCHANGED <<counts, workflow, mounted, copies>>
    BY DEF CopyEnds
  <1>3. p.task \in 0 .. Len(counts) /\ p.task # NoPrompt
    <2>1. p.task \in 0 .. Len(counts)
      BY <1>1 DEF TypeOK
    <2>. QED  BY <2>1, CountsType DEF NoPrompt
  <1>4. Good(state', manual') /\ manual' \in {NoPrompt} \cup 0 .. Len(counts)
        /\ feedback' \in Feedback /\ (mounted => feedback' # "copying")
    <2>1. CASE UNCHANGED <<state, manual>>
      BY <1>1, <2>1 DEF TypeOK, Feedback, FailedCopy
    <2>2. CASE feedback' = "copy failed" /\ FailedCopy(p.task)
      <3>1. Good(Open(state, "manual"), p.task)
        BY <1>3, ManualGood, OpenGood DEF Screens
      <3>. QED  BY <1>3, <2>2, <3>1 DEF FailedCopy, Feedback
    <2>. QED  BY <1>1, <2>1, <2>2
  <1>5. TypeOK'
    BY <1>1, <1>2, <1>4 DEF TypeOK, Good
  <1>6. Good(state, manual)'
    BY <1>2, <1>4 DEF Good, CountAt
  <1>7. OneCopyAtATime'
    <2>1. pending' = {}
      BY <1>1 DEF OneCopyAtATime
    <2>. QED  BY <1>2, <1>4, <2>1 DEF OneCopyAtATime
  <1>. QED  BY <1>5, <1>6, <1>7

LEMMA NextInv == IInv /\ [Next]_vars => IInv'
  <1>. SUFFICES ASSUME IInv, [Next]_vars PROVE IInv'
    OBVIOUS
  <1>0. TypeOK /\ Good(state, manual) /\ feedback \in Feedback /\ workflow \in BOOLEAN
    BY DEF IInv, TypeOK
  <1>1. CASE Quit
    <2>1. TypeOK'
      BY <1>0, <1>1 DEF Quit, TypeOK
    <2>2. Good(state, manual)'
      BY <1>0, <1>1 DEF Quit, Good, CountAt
    <2>3. OneCopyAtATime'
      BY <1>1 DEF Quit, IInv, OneCopyAtATime
    <2>. QED  BY <2>1, <2>2, <2>3 DEF IInv
  <1>2. CASE Escape
    <2>1. Good(state', manual)
      BY <1>0, <1>2, BackGood DEF Escape
    <2>. QED  BY <1>0, <1>2, <2>1, MoveInv DEF Escape, Feedback
  <1>3. CASE Arrow
    <2>1. Good(state', manual)
      BY <1>0, <1>3, VerticalGood, HorizontalGood DEF Arrow
    <2>. QED  BY <1>0, <1>3, <2>1, MoveInv DEF Arrow
  <1>4. CASE Coverage
    <2>1. Good(state', manual)
      BY <1>0, <1>4, OpenGood DEF Coverage, Screens
    <2>. QED  BY <1>0, <1>4, <2>1, MoveInv DEF Coverage
  <1>5. CASE Detail
    <2>1. Good(state', manual)
      BY <1>0, <1>5, OpenGood DEF Detail, Screens
    <2>. QED  BY <1>0, <1>5, <2>1, MoveInv DEF Detail
  <1>6. CASE Confirm \/ Cancel
    <2>1. Good(state', manual)
      BY <1>0, <1>6, BackGood DEF Confirm, Cancel
    <2>2. feedback' \in Feedback /\ feedback' # "copying" /\ workflow' \in BOOLEAN
      BY <1>0, <1>6 DEF Confirm, Cancel, Feedback
    <2>. QED  BY <1>6, <2>1, <2>2, MoveInv DEF Confirm, Cancel
  <1>7. CASE EnterResults
    <2>1. CASE \E screen \in {"review", "confirm"} :
                 /\ state' = Open(state, screen)
                 /\ UNCHANGED <<counts, busy, pending, feedback, manual, workflow,
                                mounted, copies>>
      <3>1. Good(state', manual)
        BY <1>0, <2>1, OpenGood DEF Screens
      <3>. QED  BY <1>0, <2>1, <3>1, MoveInv
    <2>2. CASE StartCopy(0)
      <3>1. 0 \in 0 .. Len(counts)
        BY <1>0, CountsType
      <3>. QED  BY <2>2, <3>1, StartInv
    <2>. QED  BY <1>1, <1>7, <2>1, <2>2 DEF EnterResults
  <1>8. CASE EnterIssue
    <2>1. CASE HasGroup /\ StartCopy(state.group + 1)
      <3>1. state.group \in Nat
        BY <1>0, Fields DEF Good
      <3>2. state.group + 1 \in 0 .. Len(counts)
        <4>1. Len(counts) \in Nat
          BY <1>0, CountsType
        <4>. QED  BY <2>1, <3>1, <4>1 DEF HasGroup
      <3>. QED  BY <2>1, <3>2, StartInv
    <2>2. CASE feedback' = "none selected"
               /\ UNCHANGED <<counts, state, busy, pending, manual, workflow, mounted, copies>>
      BY <1>0, <2>2, MoveInv DEF Feedback
    <2>. QED  BY <1>8, <2>1, <2>2 DEF EnterIssue
  <1>9. CASE CopyEnds
    BY <1>9, CopyEndsInv
  <1>10. CASE UNCHANGED vars
    BY <1>0, <1>10, MoveInv DEF vars
  <1>. QED
    BY <1>1, <1>2, <1>3, <1>4, <1>5, <1>6, <1>7, <1>8, <1>9, <1>10 DEF Next

LEMMA Invariance == Spec => []IInv
  BY InitInv, NextInv, PTL DEF Spec

(* Whatever keys are pressed and whenever the clipboard answers, the       *)
(* selected group and occurrence exist.                                    *)
THEOREM SelectionValid == Spec => [](TypeOK /\ SelectionIsValid)
  <1>1. IInv => TypeOK /\ SelectionIsValid
    BY DEF IInv, Good, SelectionIsValid
  <1>. QED  BY <1>1, Invariance, PTL

(* The manual screen has a task, and the ways back the properties of the   *)
(* view rest on.                                                           *)
THEOREM ManualOffered == Spec => [](ManualHasTask /\ DetailReturnsToReview /\ WayBackInv)
  <1>1. IInv => ManualHasTask /\ DetailReturnsToReview /\ WayBackInv
    BY DEF IInv, Good, ManualHasTask, DetailReturnsToReview, WayBackInv
  <1>. QED  BY <1>1, Invariance, PTL

(* At most one copy is pending and the handler knows of it.                *)
THEOREM CopiesOneByOne == Spec => []OneCopyAtATime
  <1>1. IInv => OneCopyAtATime
    BY DEF IInv
  <1>. QED  BY <1>1, Invariance, PTL

-----------------------------------------------------------------------------
(***************************************************************************)
(* copyToClipboard tells the truth, tries every tool before it gives up,   *)
(* leaves no tool running that it has not told to end, and no timer of one *)
(* tool cuts the next one short.  The tools before the current one have    *)
(* failed for good and those after it have not been touched; what arrives  *)
(* late is for one of the former, and finish ignores it.                   *)
(***************************************************************************)
ToolOrder ==
  /\ \A i \in 1 .. Tools : i < tool => outcome[i] = "error"
  /\ \A i \in 1 .. Tools : i > tool => child[i] = "unstarted" /\ outcome[i] = ""

AnswerTruth ==
  /\ \A i \in 1 .. Tools : outcome[i] = "ok" => child[i] = "succeeded"
  /\ result = "copied" => outcome[tool] = "ok"
  /\ result = "unavailable" => outcome[tool] = "error" /\ tool = Tools

ClipInv == Clip!TypeOK /\ ToolOrder /\ AnswerTruth /\ Clip!TimerIsCurrent /\ Clip!StragglersAreTold

(* Tools are compared by number. *)
LEMMA ToolsAreNumbers ==
  /\ Tools \in Nat /\ 1 \in 1 .. Tools
  /\ \A i \in 1 .. Tools : ~(i < 1) /\ i <= i
  /\ \A i \in 1 .. Tools : i < Tools \/ i = Tools
  /\ \A i, j \in 1 .. Tools : i < j \/ i = j \/ i > j
  /\ \A i, j \in 1 .. Tools : i <= j <=> i < j \/ i = j
  /\ \A i, j \in 1 .. Tools : ~(i < j /\ i > j)
BY CopyAssumption DEF CopyAssumption

(* What changes when the next tool's turn comes. *)
LEMMA NextTool ==
  ASSUME NEW t \in 1 .. Tools, t < Tools
  PROVE  /\ t + 1 \in 1 .. Tools
         /\ \A i \in 1 .. Tools : i < t + 1 => i < t \/ i = t
         /\ \A i \in 1 .. Tools : i > t + 1 => i > t
         /\ t + 1 > t
BY CopyAssumption DEF CopyAssumption

LEMMA ClipInit == Clip!Init => ClipInv
<1> SUFFICES ASSUME Clip!Init PROVE ClipInv
  OBVIOUS
<1>1. Clip!TypeOK
  BY ToolsAreNumbers DEF Clip!Init, Clip!TypeOK
<1>2. ToolOrder
  <2>1. tool = 1 /\ \A i \in 1 .. Tools : child[i] = "unstarted" /\ outcome[i] = ""
    BY DEF Clip!Init
  <2> QED BY <2>1, ToolsAreNumbers DEF ToolOrder
<1>3. AnswerTruth
  BY DEF Clip!Init, AnswerTruth
<1>4. Clip!TimerIsCurrent
  BY DEF Clip!Init, Clip!TimerIsCurrent
<1>5. Clip!StragglersAreTold
  BY DEF Clip!Init, Clip!StragglersAreTold
<1> QED BY <1>1, <1>2, <1>3, <1>4, <1>5 DEF ClipInv

(* What finish does to a tool that has been reached. *)
LEMMA FinishKeeps ==
  ASSUME ClipInv, NEW i \in 1 .. Tools, i <= tool, NEW how \in {"ok", "error"},
         Clip!Finish(i, how),
         how = "ok" => child[i] = "succeeded",
         tool' = tool, held' = held, result' = result,
         child' = child \/ (how = "error" /\ child[i] # "succeeded"
                              /\ child' = [child EXCEPT ![i] = "told"]),
         child'[i] # "running"
  PROVE  ClipInv'
<1>1. CASE outcome[i] # ""
  <2>1. outcome' = outcome /\ timer' = timer
    BY <1>1 DEF Clip!Finish
  <2>2. Clip!TypeOK'
    BY <2>1 DEF ClipInv, Clip!TypeOK, Clip!Runs, Clip!Exited
  <2>3. ToolOrder'
    BY <1>1, <2>1 DEF ClipInv, Clip!TypeOK, ToolOrder, Clip!Exited
  <2>4. AnswerTruth'
    BY <1>1, <2>1 DEF ClipInv, Clip!TypeOK, ToolOrder, AnswerTruth, Clip!Runs, Clip!Exited
  <2>5. Clip!TimerIsCurrent'
    BY <1>1, <2>1 DEF ClipInv, Clip!TypeOK, Clip!TimerIsCurrent
  <2>6. Clip!StragglersAreTold'
    BY <1>1, <2>1 DEF ClipInv, Clip!TypeOK, ToolOrder, Clip!StragglersAreTold, Clip!Runs, Clip!Exited
  <2> QED BY <2>2, <2>3, <2>4, <2>5, <2>6 DEF ClipInv
<1>2. CASE outcome[i] = ""
  <2>1. outcome' = [outcome EXCEPT ![i] = how] /\ timer' = FALSE
    BY <1>2 DEF Clip!Finish
  <2>2. Clip!TypeOK'
    BY <2>1 DEF ClipInv, Clip!TypeOK, Clip!Runs, Clip!Exited
  <2>3. i = tool
    <3>1. i < tool \/ i = tool
      BY ToolsAreNumbers DEF ClipInv, Clip!TypeOK
    <3> QED BY <1>2, <3>1 DEF ClipInv, ToolOrder
  <2>4. result = ""
    BY <1>2, <2>3 DEF ClipInv, Clip!TypeOK, AnswerTruth
  <2>5. ToolOrder'
    <3>1. \A j \in 1 .. Tools : j < tool \/ j > tool => j # i
      BY <2>3, ToolsAreNumbers
    <3>2. /\ \A j \in 1 .. Tools \ {i} : outcome'[j] = outcome[j]
          /\ \A j \in 1 .. Tools \ {i} : child'[j] = child[j]
      BY <2>1 DEF ClipInv, Clip!TypeOK
    <3> QED BY <3>1, <3>2 DEF ClipInv, ToolOrder
  <2>6. AnswerTruth'
    BY <2>1, <2>3, <2>4 DEF ClipInv, Clip!TypeOK, ToolOrder, AnswerTruth, Clip!Runs, Clip!Exited
  <2>7. Clip!TimerIsCurrent'
    BY <2>1, <2>3, <2>4 DEF ClipInv, Clip!TypeOK, Clip!TimerIsCurrent
  <2>8. Clip!StragglersAreTold'
    BY <2>1, <2>3, <2>4 DEF ClipInv, Clip!TypeOK, ToolOrder, Clip!StragglersAreTold, Clip!Runs, Clip!Exited
  <2> QED BY <2>2, <2>5, <2>6, <2>7, <2>8 DEF ClipInv
<1> QED BY <1>1, <1>2

(* Only tools whose turn has come have been started. *)
LEMMA Touched ==
  ASSUME ClipInv, NEW i \in 1 .. Tools, child[i] \in Clip!Runs \cup Clip!Exited
  PROVE  i <= tool
<1>1. ~(i > tool)
  BY DEF ClipInv, ToolOrder, Clip!Runs, Clip!Exited
<1> QED BY <1>1, ToolsAreNumbers DEF ClipInv, Clip!TypeOK

LEMMA KillAndFinish ==
  ASSUME ClipInv, NEW i \in 1 .. Tools, i <= tool, Clip!Kill(i), Clip!Finish(i, "error"),
         tool' = tool, held' = held, result' = result
  PROVE  ClipInv'
<1>1. i \in DOMAIN child
  BY DEF ClipInv, Clip!TypeOK
<1>2. CASE child[i] = "running"
  <2>1. child' = [child EXCEPT ![i] = "told"] /\ child'[i] # "running"
    BY <1>1, <1>2 DEF Clip!Kill
  <2> QED BY <1>2, <2>1, FinishKeeps
<1>3. CASE child[i] # "running"
  <2>1. child' = child
    BY <1>1, <1>3 DEF Clip!Kill, ClipInv, Clip!TypeOK
  <2> QED BY <1>3, <2>1, FinishKeeps
<1> QED BY <1>2, <1>3

LEMMA ClipStep == ClipInv /\ [Clip!Next]_(Clip!vars) => ClipInv'
<1> SUFFICES ASSUME ClipInv, [Clip!Next]_(Clip!vars) PROVE ClipInv'
  OBVIOUS
<1> USE DEF Clip!Exited, Clip!Runs
<1>1. CASE Clip!Start
  <2>1. CASE Clip!Finish(tool, "error") /\ UNCHANGED child
    <3>1. tool \in 1 .. Tools /\ child[tool] = "unstarted"
      BY <1>1 DEF ClipInv, Clip!TypeOK, Clip!Start
    <3>2. /\ tool <= tool /\ Clip!Finish(tool, "error") /\ child' = child
          /\ tool' = tool /\ held' = held /\ result' = result
          /\ child'[tool] # "running"
      BY <1>1, <2>1, <3>1, ToolsAreNumbers DEF Clip!Start
    <3> QED BY <3>1, <3>2, FinishKeeps
  <2>2. CASE /\ \E c \in {"missing", "running"} : child' = [child EXCEPT ![tool] = c]
             /\ timer' = TRUE /\ UNCHANGED outcome
    <3>1. /\ tool' = tool /\ held' = held /\ result' = result
          /\ result = "" /\ outcome[tool] = "" /\ child[tool] = "unstarted"
      BY <1>1 DEF Clip!Start
    <3>2. Clip!TypeOK'
      BY <2>2, <3>1 DEF ClipInv, Clip!TypeOK
    <3>3. ToolOrder'
      BY <2>2, <3>1 DEF ClipInv, Clip!TypeOK, ToolOrder, Clip!Exited
    <3>4. AnswerTruth'
      BY <2>2, <3>1 DEF ClipInv, Clip!TypeOK, ToolOrder, AnswerTruth, Clip!Runs, Clip!Exited
    <3>5. Clip!TimerIsCurrent'
      BY <2>2, <3>1 DEF ClipInv, Clip!TypeOK, Clip!TimerIsCurrent
    <3>6. Clip!StragglersAreTold'
      BY <2>2, <3>1 DEF ClipInv, Clip!TypeOK, ToolOrder, Clip!StragglersAreTold, Clip!Runs, Clip!Exited
    <3> QED BY <3>2, <3>3, <3>4, <3>5, <3>6 DEF ClipInv
  <2> QED BY <1>1, <2>1, <2>2 DEF Clip!Start
<1>2. CASE Clip!ErrorEvent
  <2>1. tool \in 1 .. Tools
    BY DEF ClipInv, Clip!TypeOK
  <2>2. /\ tool <= tool /\ Clip!Finish(tool, "error") /\ child' = child
        /\ tool' = tool /\ held' = held /\ result' = result
        /\ child'[tool] # "running"
    BY <1>2, <2>1, ToolsAreNumbers DEF Clip!ErrorEvent
  <2> QED BY <2>1, <2>2, FinishKeeps
<1>3. CASE Clip!TimesOut
  <2>1. tool \in 1 .. Tools /\ tool <= tool
    BY ToolsAreNumbers DEF ClipInv, Clip!TypeOK
  <2>2. /\ Clip!Kill(tool) /\ Clip!Finish(tool, "error")
        /\ tool' = tool /\ held' = held /\ result' = result
    BY <1>3 DEF Clip!TimesOut
  <2> QED BY <2>1, <2>2, KillAndFinish
<1>4. CASE Clip!Continue
  <2>1. /\ result = "" /\ outcome[tool] # ""
        /\ child' = child /\ held' = held /\ timer' = timer /\ outcome' = outcome
    BY <1>4 DEF Clip!Continue
  <2>2. timer = FALSE
    BY <2>1 DEF ClipInv, Clip!TypeOK, Clip!TimerIsCurrent
  <2>3. CASE outcome[tool] = "error" /\ tool < Tools
    <3>1. tool' = tool + 1 /\ result' = result
      BY <1>4, <2>3 DEF Clip!Continue
    <3>0. /\ tool' \in 1 .. Tools /\ outcome[tool'] = "" /\ child[tool'] = "unstarted"
          /\ \A i \in 1 .. Tools : i < tool' => i < tool \/ i = tool
          /\ \A i \in 1 .. Tools : i > tool' => i > tool
      <4>1. tool \in 1 .. Tools /\ tool < Tools
        BY <2>3 DEF ClipInv, Clip!TypeOK
      <4>2. tool' \in 1 .. Tools /\ tool' > tool
        BY <3>1, <4>1, NextTool
      <4> QED BY <3>1, <4>1, <4>2, NextTool DEF ClipInv, ToolOrder
    <3>2. Clip!TypeOK'
      BY <2>1, <3>0, <3>1 DEF ClipInv, Clip!TypeOK
    <3>3. ToolOrder'
      BY <2>1, <2>2, <2>3, <3>0, <3>1 DEF ClipInv, Clip!TypeOK, ToolOrder, Clip!Exited
    <3>4. AnswerTruth'
      BY <2>1, <2>2, <2>3, <3>0, <3>1 DEF ClipInv, Clip!TypeOK, ToolOrder, AnswerTruth, Clip!Runs, Clip!Exited
    <3>5. Clip!TimerIsCurrent'
      BY <2>1, <2>2, <2>3, <3>0, <3>1 DEF ClipInv, Clip!TypeOK, Clip!TimerIsCurrent
    <3>6. Clip!StragglersAreTold'
      BY <2>1, <2>2, <2>3, <3>0, <3>1 DEF ClipInv, Clip!TypeOK, ToolOrder, Clip!StragglersAreTold, Clip!Runs, Clip!Exited
    <3> QED BY <3>2, <3>3, <3>4, <3>5, <3>6 DEF ClipInv
  <2>4. CASE ~(outcome[tool] = "error" /\ tool < Tools)
    <3>1. tool' = tool /\ result' = IF outcome[tool] = "ok" THEN "copied" ELSE "unavailable"
      BY <1>4, <2>4 DEF Clip!Continue
    <3>2. Clip!TypeOK'
      BY <2>1, <3>1 DEF ClipInv, Clip!TypeOK
    <3>3. ToolOrder'
      BY <2>1, <2>2, <2>4, <3>1 DEF ClipInv, Clip!TypeOK, ToolOrder, Clip!Exited
    <3>4. AnswerTruth'
      <4>1. outcome[tool] = "ok" \/ (outcome[tool] = "error" /\ ~(tool < Tools))
        BY <2>1, <2>4 DEF ClipInv, Clip!TypeOK
      <4>2. tool < Tools \/ tool = Tools
        BY ToolsAreNumbers DEF ClipInv, Clip!TypeOK
      <4> QED BY <2>1, <3>1, <4>1, <4>2 DEF ClipInv, AnswerTruth
    <3>5. Clip!TimerIsCurrent'
      BY <2>1, <2>2, <2>4, <3>1 DEF ClipInv, Clip!TypeOK, Clip!TimerIsCurrent
    <3>6. Clip!StragglersAreTold'
      BY <2>1, <2>2, <2>4, <3>1 DEF ClipInv, Clip!TypeOK, ToolOrder, Clip!StragglersAreTold, Clip!Runs, Clip!Exited
    <3> QED BY <3>2, <3>3, <3>4, <3>5, <3>6 DEF ClipInv
  <2> QED BY <2>3, <2>4
<1>5. ASSUME NEW i \in 1 .. Tools, Clip!ToolExits(i) PROVE ClipInv'
  <2>1. /\ child[i] \in {"running", "told"}
        /\ child' = [child EXCEPT ![i] = "succeeded"] \/ child' = [child EXCEPT ![i] = "failed"]
        /\ held' = held \/ held' = [held EXCEPT ![i] = TRUE]
        /\ tool' = tool /\ timer' = timer /\ outcome' = outcome /\ result' = result
    BY <1>5 DEF Clip!ToolExits
  <2>2. Clip!TypeOK'
    BY <2>1 DEF ClipInv, Clip!TypeOK
  <2>3. ToolOrder'
    BY <2>1 DEF ClipInv, Clip!TypeOK, ToolOrder, Clip!Exited
  <2>4. AnswerTruth'
    BY <2>1 DEF ClipInv, Clip!TypeOK, ToolOrder, AnswerTruth, Clip!Runs, Clip!Exited
  <2>5. Clip!TimerIsCurrent'
    BY <2>1 DEF ClipInv, Clip!TypeOK, Clip!TimerIsCurrent
  <2>6. Clip!StragglersAreTold'
    BY <2>1 DEF ClipInv, Clip!TypeOK, ToolOrder, Clip!StragglersAreTold, Clip!Runs, Clip!Exited
  <2> QED BY <2>2, <2>3, <2>4, <2>5, <2>6 DEF ClipInv
<1>6. ASSUME NEW i \in 1 .. Tools, Clip!BackgroundEnds(i) PROVE ClipInv'
  BY <1>6 DEF Clip!BackgroundEnds, ClipInv, Clip!TypeOK, ToolOrder, AnswerTruth, Clip!TimerIsCurrent, Clip!StragglersAreTold
<1>7. ASSUME NEW i \in 1 .. Tools, Clip!CloseEvent(i) PROVE ClipInv'
  <2>1. i <= tool
    BY <1>7, Touched DEF Clip!CloseEvent
  <2>2. /\ Clip!Finish(i, Clip!CloseOutcome(i)) /\ child' = child /\ child[i] # "running"
        /\ tool' = tool /\ held' = held /\ result' = result
    BY <1>7 DEF Clip!CloseEvent
  <2>3. /\ Clip!CloseOutcome(i) \in {"ok", "error"}
        /\ Clip!CloseOutcome(i) = "ok" => child[i] = "succeeded"
    BY DEF Clip!CloseOutcome
  <2> QED BY <2>1, <2>2, <2>3, FinishKeeps
<1>8. ASSUME NEW i \in 1 .. Tools, Clip!StdinError(i) PROVE ClipInv'
  <2>1. i \in 1 .. Tools /\ i <= tool
    BY <1>8, Touched DEF Clip!StdinError
  <2>2. /\ Clip!Kill(i) /\ Clip!Finish(i, "error")
        /\ tool' = tool /\ held' = held /\ result' = result
    BY <1>8 DEF Clip!StdinError
  <2> QED BY <2>1, <2>2, KillAndFinish
<1>9. CASE UNCHANGED Clip!vars
  BY <1>9 DEF Clip!vars, ClipInv, Clip!TypeOK, ToolOrder, AnswerTruth, Clip!TimerIsCurrent, Clip!StragglersAreTold
<1> QED
  BY <1>1, <1>2, <1>3, <1>4, <1>5, <1>6, <1>7, <1>8, <1>9 DEF Clip!Next, Clip!Done

(* The invariant of copyToClipboard, types included. *)
THEOREM ClipboardInv == Clip!Spec => []ClipInv
BY ClipInit, ClipStep, PTL DEF Clip!Spec

(* What the invariant says of an answer. *)
LEMMA AnswerFollows == ClipInv => Clip!CopiedIsTrue /\ Clip!GivesUpLast
<1> SUFFICES ASSUME ClipInv PROVE Clip!CopiedIsTrue /\ Clip!GivesUpLast
  OBVIOUS
<1>1. Clip!CopiedIsTrue
  BY DEF ClipInv, Clip!TypeOK, AnswerTruth, Clip!CopiedIsTrue
<1>2. Clip!GivesUpLast
  <2> SUFFICES ASSUME result = "unavailable", NEW i \in 1 .. Tools PROVE outcome[i] = "error"
    BY DEF Clip!GivesUpLast
  <2>1. tool = Tools /\ outcome[tool] = "error"
    BY DEF ClipInv, AnswerTruth
  <2>2. i < tool \/ i = tool
    BY <2>1, CopyAssumption DEF CopyAssumption
  <2> QED BY <2>1, <2>2 DEF ClipInv, ToolOrder
<1> QED BY <1>1, <1>2

(* Copied is only said when the current tool took the text and exited 0,   *)
(* and unavailable only after every tool has failed.                       *)
THEOREM AnswerIsTrue == Clip!Spec => [](Clip!CopiedIsTrue /\ Clip!GivesUpLast)
BY AnswerFollows, ClipboardInv, PTL

(* A pending timer is that of the tool being tried: once that one has      *)
(* settled no timer is left to end the next one early.                     *)
THEOREM TimersAreCurrent == Clip!Spec => []Clip!TimerIsCurrent
<1>1. ClipInv => Clip!TimerIsCurrent
  BY DEF ClipInv
<1> QED BY <1>1, ClipboardInv, PTL

-----------------------------------------------------------------------------
(***************************************************************************)
(* The composition: each part keeps its own invariant, and the line under  *)
(* the screen agrees with the answer of the last call.                     *)
(***************************************************************************)
CopyInv ==
  /\ IInv /\ ClipInv
  /\ feedback = "copied" => result = "copied"
  /\ feedback = "copy failed" => result = "unavailable"

(* What a key does to the line: only the installation and the copy write   *)
(* words of their own, and neither says how a copy ended.                  *)
LEMMA KeysSayNothing ==
  ASSUME Quit \/ Escape \/ Arrow \/ Coverage \/ Detail \/ Confirm \/ Cancel
           \/ EnterResults \/ EnterIssue
  PROVE  /\ feedback' = feedback \/ feedback' \notin {"copied", "copy failed"}
         /\ pending' # pending => feedback' = "copying"
<1>1. CASE Quit \/ Escape \/ Arrow \/ Coverage \/ Detail \/ Confirm \/ Cancel
  BY <1>1 DEF Quit, Escape, Arrow, Coverage, Detail, Confirm, Cancel
<1>2. CASE EnterResults
  BY <1>2 DEF EnterResults, StartCopy, Quit
<1>3. CASE EnterIssue
  BY <1>3 DEF EnterIssue, StartCopy
<1> QED BY <1>1, <1>2, <1>3

(* An answer is not taken back: only a new call forgets it.                *)
LEMMA AnswerStays ==
  ASSUME Clip!Next, result # ""
  PROVE  result' = result
BY DEF Clip!Next, Clip!Start, Clip!ErrorEvent, Clip!TimesOut, Clip!Continue, Clip!Done,
       Clip!ToolExits, Clip!BackgroundEnds, Clip!CloseEvent, Clip!StdinError, Clip!vars

(* A step of the composition is a step of the screens or leaves them.      *)
LEMMA CopyStepIsViewStep == [CopyNext]_copyVars => [Next]_vars
BY DEF CopyNext, KeyPressed, ClipboardRuns, ClipboardStep, CopyReturns, copyVars, Next

(* A call begins where copyToClipboard begins.                             *)
LEMMA CallBegins == CallClipboard => ClipInv'
<1>1. Clip!Init' => ClipInv'
  BY ClipInit, PTL
<1>2. CallClipboard => Clip!Init'
  BY DEF CallClipboard, Clip!Init
<1> QED BY <1>1, <1>2

LEMMA CopyStep == CopyInv /\ [CopyNext]_copyVars => CopyInv'
<1> SUFFICES ASSUME CopyInv, [CopyNext]_copyVars PROVE CopyInv'
  OBVIOUS
<1>1. IInv'
  BY CopyStepIsViewStep, NextInv DEF CopyInv
<1>2. ASSUME UNCHANGED clipboard PROVE ClipInv' /\ result' = result
  <2>1. UNCHANGED Clip!vars
    BY <1>2 DEF clipboard, Clip!vars
  <2> QED BY <2>1, ClipStep DEF CopyInv, Clip!vars
<1>3. CASE KeyPressed
  <2>1. CASE pending' = pending /\ UNCHANGED clipboard
    BY <1>1, <1>2, <1>3, <2>1, KeysSayNothing DEF KeyPressed, CopyInv
  <2>2. CASE (EnterResults \/ EnterIssue) /\ pending' # pending /\ CallClipboard
    BY <1>1, <2>2, KeysSayNothing, CallBegins DEF CopyInv
  <2> QED BY <1>3, <2>1, <2>2 DEF KeyPressed
<1>4. CASE ClipboardRuns
  <2>1. Clip!Next /\ feedback' = feedback
    BY <1>4 DEF ClipboardRuns, ClipboardStep, vars
  <2>2. ClipInv'
    BY <2>1, ClipStep DEF CopyInv
  <2>3. result # "" => result' = result
    BY <2>1, AnswerStays
  <2> QED BY <1>1, <2>1, <2>2, <2>3 DEF CopyInv
<1>5. CASE CopyReturns
  <2>1. ClipInv' /\ result' = result /\ result # ""
    BY <1>2, <1>5 DEF CopyReturns
  <2>2. result \in {"copied", "unavailable"}
    BY <2>1 DEF CopyInv, ClipInv, Clip!TypeOK
  <2>3. feedback' = feedback \/ feedback' = Shown(result)
    BY <1>5 DEF CopyReturns, CopyEnds
  <2> QED BY <1>1, <2>1, <2>2, <2>3 DEF CopyInv, Shown
<1>6. CASE UNCHANGED copyVars
  BY <1>1, <1>2, <1>6 DEF copyVars, vars, CopyInv
<1> QED BY <1>3, <1>4, <1>5, <1>6 DEF CopyNext

LEMMA CopyInvariance == CopySpec => []CopyInv
<1>1. CopyInit => CopyInv
  BY InitInv, ClipInit DEF CopyInit, CopyInv, Init
<1> QED BY <1>1, CopyStep, PTL DEF CopySpec

(* Whatever is pressed while a copy is under way, the line says copied     *)
(* only when a tool took the text, and the manual screen comes only after  *)
(* every tool has failed.                                                  *)
THEOREM LineTrue == CopySpec => []LineIsTrue
<1>1. ClipInv => Clip!CopiedIsTrue /\ Clip!GivesUpLast
  BY AnswerFollows
<1>2. CopyInv => LineIsTrue
  BY <1>1 DEF CopyInv, LineIsTrue, Clip!CopiedIsTrue, Clip!GivesUpLast
<1> QED BY <1>2, CopyInvariance, PTL

(* Whichever way a call goes on without the close of a tool (its timeout,  *)
(* an error of its stdin), the tool was sent SIGTERM unless it had exited. *)
(* That it then ends is not claimed: nothing in the code sees to it.       *)
THEOREM HungToolsTold == CopySpec => []HungToolsAreTold
<1>1. CopyInv => HungToolsAreTold
  BY DEF CopyInv, ClipInv, HungToolsAreTold
<1> QED BY <1>1, CopyInvariance, PTL

(* Everything proved of the result screens holds of them with the          *)
(* clipboard (the safety part of ImplementsView).                          *)
THEOREM ViewIsImplemented == CopySpec => Spec
<1>1. CopyInit => Init
  BY DEF CopyInit
<1> QED BY <1>1, CopyStepIsViewStep, PTL DEF CopySpec, Spec
=============================================================================
