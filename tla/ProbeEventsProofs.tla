-------------------------- MODULE ProbeEventsProofs --------------------------
(***************************************************************************)
(* Proofs about the lines of events.ndjson: about what a hooked process    *)
(* writes (ProbeHook), for any sets of requests and queries and any        *)
(* thresholds and bounds; and, in the second half, about what the analysis *)
(* makes of a file of any length (ProbeAnalysis), whose lines are called   *)
(* file here.                                                              *)
(***************************************************************************)
EXTENDS ProbeHook, ProbeAnalysis, SequenceTheorems, FiniteSetTheorems, WellFoundedInduction,
        TLAPS

LEMMA LeastNumber ==
  ASSUME NEW S \in SUBSET Nat, S # {}
  PROVE  \E n \in S : \A m \in S : n <= m
  <1>1. PICK x \in S : \A y \in S : ~(<<y, x>> \in OpToRel(<, Nat))
    BY NatLessThanWellFounded, WFMin
  <1>2. \A y \in S : y < x => <<y, x>> \in OpToRel(<, Nat)
    BY DEF OpToRel
  <1>3. \A y \in S : ~(y < x)
    BY <1>1, <1>2
  <1>. QED  BY <1>3

(***************************************************************************)
(* The recorded events with those to come: an append moves one from the    *)
(* second part to the first.                                               *)
(***************************************************************************)
LEMMA SingleEvent == \A e \in Event : <<e>> \in Seq(Event)
  OBVIOUS

LEMMA AppendPending ==
  ASSUME NEW s \in Seq(Event), NEW t \in Seq(Event), t # <<>>
  PROVE  /\ Append(s, Head(t)) \o Tail(t) = s \o t
         /\ Append(s, Head(t)) \in Seq(Event) /\ Tail(t) \in Seq(Event)
  <1>1. /\ Len(t) \in Nat \ {0} /\ Head(t) = t[1] /\ Head(t) \in Event
        /\ Tail(t) \in Seq(Event) /\ Tail(t) = SubSeq(t, 2, Len(t))
    BY EmptySeq, HeadTailProperties, TailIsSubSeq
  <1>2. t = <<Head(t)>> \o Tail(t)
    <2>1. 1 \in 1 .. Len(t) /\ Len(t) \in 1 .. Len(t) /\ 1 + 1 = 2
      BY <1>1
    <2>2. SubSeq(t, 1, Len(t)) = <<t[1]>> \o SubSeq(t, 1 + 1, Len(t))
      BY <2>1, SubSeqRecursiveFirst
    <2>. QED  BY <1>1, <2>1, <2>2, SubSeqFull
  <1>3. Append(s, Head(t)) = s \o <<Head(t)>> /\ Append(s, Head(t)) \in Seq(Event)
    BY <1>1, AppendIsConcat, AppendProperties
  <1>4. <<Head(t)>> \in Seq(Event)
    BY <1>1
  <1>5. (s \o <<Head(t)>>) \o Tail(t) = s \o (<<Head(t)>> \o Tail(t))
    BY <1>1, <1>4, ConcatAssociative
  <1>. QED  BY <1>1, <1>2, <1>3, <1>5

(***************************************************************************)
(* Samples is what its recursion says.  The equation needs a function that *)
(* satisfies it: the shortest sequence without one would be one longer     *)
(* than a sequence with one.                                               *)
(***************************************************************************)
Sums(f, s, n) ==
  f = [k \in 0 .. n |-> IF k = 0 THEN 0 ELSE f[k - 1] + WindowOf(s[k])]

LEMMA SumsExist ==
  ASSUME NEW s, NEW n \in Nat
  PROVE  \E f : Sums(f, s, n)
  <1>. DEFINE Bad == {m \in Nat : ~ \E f : Sums(f, s, m)}
  <1>1. SUFFICES ASSUME Bad # {} PROVE FALSE
    OBVIOUS
  <1>2. PICK m \in Bad : \A k \in Bad : m <= k
    BY <1>1, LeastNumber
  <1>3. m # 0
    <2>1. Sums([k \in 0 .. 0 |-> 0], s, 0)
      BY DEF Sums
    <2>. QED  BY <1>2, <2>1
  <1>4. m - 1 \in Nat /\ m - 1 \notin Bad
    BY <1>2, <1>3
  <1>5. PICK f : Sums(f, s, m - 1)
    BY <1>4
  <1>. DEFINE g == [k \in 0 .. m |-> IF k < m THEN f[k] ELSE f[m - 1] + WindowOf(s[m])]
  <1>6. ASSUME NEW k \in 0 .. m
        PROVE  g[k] = IF k = 0 THEN 0 ELSE g[k - 1] + WindowOf(s[k])
    <2>1. CASE k < m
      <3>1. k \in 0 .. m - 1 /\ m \in Nat
        BY <2>1, <1>2
      <3>2. f[k] = IF k = 0 THEN 0 ELSE f[k - 1] + WindowOf(s[k])
        BY <1>5, <3>1 DEF Sums
      <3>3. g[k] = f[k] /\ (k # 0 => g[k - 1] = f[k - 1])
        BY <2>1, <3>1
      <3>. QED  BY <3>2, <3>3
    <2>2. CASE k = m
      BY <1>3, <1>4, <2>2
    <2>. QED  BY <2>1, <2>2
  <1>7. g = [k \in 0 .. m |-> IF k = 0 THEN 0 ELSE g[k - 1] + WindowOf(s[k])]
    BY <1>6
  <1>8. Sums(g, s, m)
    BY <1>7 DEF Sums
  <1>. QED  BY <1>2, <1>8

LEMMA SamplesSum ==
  ASSUME NEW s \in Seq(Event)
  PROVE  Sums(Samples(s), s, Len(s))
  <1>. DEFINE P(f) == Sums(f, s, Len(s))
  <1>1. \E f : P(f)
    BY SumsExist
  <1>2. P(CHOOSE f : P(f))
    BY <1>1
  <1>3. Samples(s) = CHOOSE f : P(f)
    BY DEF Samples, Sums
  <1>. QED  BY <1>2, <1>3

LEMMA SamplesEquation ==
  ASSUME NEW s \in Seq(Event)
  PROVE  /\ Samples(s)[0] = 0
         /\ \A k \in 1 .. Len(s) : Samples(s)[k] = Samples(s)[k - 1] + WindowOf(s[k])
  <1>1. Samples(s) = [k \in 0 .. Len(s) |->
                        IF k = 0 THEN 0 ELSE Samples(s)[k - 1] + WindowOf(s[k])]
    BY SamplesSum DEF Sums
  <1>2. \A k \in 0 .. Len(s) :
          Samples(s)[k] = IF k = 0 THEN 0 ELSE Samples(s)[k - 1] + WindowOf(s[k])
    BY <1>1
  <1>. QED  BY <1>2

LEMMA WindowType == \A e \in Event : WindowOf(e) \in Nat
  <1>. TAKE e \in Event
  <1>1. e.type = "loop.lag" => e.count \in Nat
    BY DEF Event
  <1>. QED  BY <1>1 DEF WindowOf

LEMMA SamplesType ==
  ASSUME NEW s \in Seq(Event)
  PROVE  \A n \in 0 .. Len(s) : Samples(s)[n] \in Nat
  <1>. DEFINE Bad == {n \in 0 .. Len(s) : Samples(s)[n] \notin Nat}
  <1>1. SUFFICES ASSUME Bad # {} PROVE FALSE
    OBVIOUS
  <1>2. PICK n \in Bad : \A k \in Bad : n <= k
    <2>1. Bad \in SUBSET Nat
      OBVIOUS
    <2>. HIDE DEF Bad
    <2>. QED  BY <1>1, <2>1, LeastNumber
  <1>3. n # 0
    BY <1>2, SamplesEquation
  <1>4. n - 1 \in 0 .. Len(s) /\ n \in 1 .. Len(s) /\ Samples(s)[n - 1] \in Nat
    BY <1>2, <1>3
  <1>5. s[n] \in Event
    BY <1>4
  <1>. QED  BY <1>2, <1>4, <1>5, SamplesEquation, WindowType

(* The sum of the first lines does not depend on those that follow.        *)
LEMMA SamplesOfPrefix ==
  ASSUME NEW s \in Seq(Event), NEW t \in Seq(Event), NEW m \in 0 .. Len(s), m <= Len(t),
         \A k \in 1 .. m : s[k] = t[k]
  PROVE  \A n \in 0 .. m : Samples(s)[n] = Samples(t)[n]
  <1>. DEFINE Bad == {n \in 0 .. m : Samples(s)[n] # Samples(t)[n]}
  <1>1. SUFFICES ASSUME Bad # {} PROVE FALSE
    OBVIOUS
  <1>2. PICK n \in Bad : \A k \in Bad : n <= k
    <2>1. Bad \in SUBSET Nat
      OBVIOUS
    <2>. HIDE DEF Bad
    <2>. QED  BY <1>1, <2>1, LeastNumber
  <1>3. n # 0
    BY <1>2, SamplesEquation
  <1>4. n - 1 \in 0 .. m /\ n - 1 \notin Bad /\ n \in 1 .. m
    BY <1>2, <1>3
  <1>5. Samples(s)[n - 1] = Samples(t)[n - 1] /\ s[n] = t[n]
    BY <1>4
  <1>6. n \in 1 .. Len(s) /\ n \in 1 .. Len(t)
    BY <1>4
  <1>. QED  BY <1>2, <1>5, <1>6, SamplesEquation

LEMMA SamplesOfAppend ==
  ASSUME NEW s \in Seq(Event), NEW e \in Event
  PROVE  /\ \A n \in 0 .. Len(s) : Samples(Append(s, e))[n] = Samples(s)[n]
         /\ Samples(Append(s, e))[Len(s) + 1] = Samples(s)[Len(s)] + WindowOf(e)
  <1>. DEFINE t == Append(s, e)
  <1>1. /\ t \in Seq(Event) /\ Len(t) = Len(s) + 1 /\ t[Len(s) + 1] = e
        /\ \A k \in 1 .. Len(s) : t[k] = s[k]
    OBVIOUS
  <1>. HIDE DEF t
  <1>2. \A n \in 0 .. Len(s) : Samples(s)[n] = Samples(t)[n]
    BY <1>1, SamplesOfPrefix
  <1>3. Samples(t)[Len(s) + 1] = Samples(t)[Len(s)] + WindowOf(e)
    BY <1>1, SamplesEquation
  <1>. QED  BY <1>2, <1>3 DEF t

LEMMA FlushParts ==
  ASSUME NEW final, NEW after, flushLag(final, after)
  PROVE  \E n \in 0 .. MaxTicks, m \in 0 .. MaxTicks - totalHist :
           /\ ahead' = ahead + n - m /\ ahead' \in -1 .. 1
           /\ writeEvent(<<LoopLag(SamplesOf(windowHist + n), SamplesOf(totalHist + m), final)>>
                           \o after)
           /\ windowHist' = 0 /\ totalHist' = totalHist + m
  BY Zenon DEF flushLag, Reset

LEMMA SamplesOfTicks ==
  /\ \A ticks \in Nat : SamplesOf(ticks) \in Nat
  /\ \A ticks, later \in Nat : ticks <= later => SamplesOf(ticks) <= SamplesOf(later)
  BY DEF SamplesOf

-----------------------------------------------------------------------------
(* The events a hook writes.                                               *)
LEMMA EventsOfTheHook ==
  /\ Attach \in Event /\ Detach \in Event /\ BlockCall \in Event
  /\ MemSample \in Event /\ GcPause \in Event
  /\ \A n \in Nat, m \in Nat, final \in BOOLEAN : LoopLag(n, m, final) \in Event
  BY DEF Event, Attach, Detach, BlockCall, MemSample, GcPause, LoopLag

LEMMA EventsOfWork ==
  ASSUME TypeOK
  PROVE  /\ \A r \in Requests : HttpRequest(r) \in Event
         /\ \A q \in Queries : DbQuery(q) \in Event
  <1>1. \A r \in Requests : store[r] \in Nat \cup {NoStore}
    BY DEF TypeOK
  <1>2. \A q \in Queries : query[q].scoped \in BOOLEAN
    BY DEF TypeOK, QueryRecord
  <1>. QED  BY <1>1, <1>2 DEF Event, HttpRequest, DbQuery

LEMMA WriteType ==
  ASSUME NEW written \in Seq(Event), writeEvent(written)
  PROVE  toWrite' \in Seq(Event)
  BY EmptySeq DEF writeEvent

LEMMA ApisWrapped == \A n \in 0 .. Len(Apis) - 1 : ToSet(SubSeq(Apis, 1, n)) \subseteq ToSet(Apis)
  <1>1. Len(Apis) = 2 /\ DOMAIN Apis = 1 .. 2
    BY DEF Apis
  <1>2. ASSUME NEW n \in 0 .. 1
        PROVE  ToSet(SubSeq(Apis, 1, n)) \subseteq ToSet(Apis)
    <2>1. \A i \in 1 .. n : Apis[i] \in {"fs", "crypto"}
      BY <1>2 DEF Apis
    <2>2. /\ SubSeq(Apis, 1, n) \in Seq({"fs", "crypto"})
          /\ Len(SubSeq(Apis, 1, n)) = IF 1 <= n THEN n - 1 + 1 ELSE 0
          /\ \A i \in 1 .. n - 1 + 1 : SubSeq(Apis, 1, n)[i] = Apis[1 + i - 1]
      BY <1>2, <2>1, SubSeqProperties
    <2>3. DOMAIN SubSeq(Apis, 1, n) \subseteq 1 .. n
      BY <1>2, <2>2, LenProperties
    <2>. QED  BY <1>1, <1>2, <2>2, <2>3 DEF ToSet
  <1>. QED  BY <1>1, <1>2

-----------------------------------------------------------------------------
(* Type correctness. *)

LEMMA TypeInit == Init => TypeOK
  <1>. SUFFICES ASSUME Init PROVE TypeOK
    OBVIOUS
  <1>1. settings \in SettingKinds /\ filters \in SettingKinds
    BY HookAssumption DEF Init, SettingKinds
  <1>2. faultsLeft \in Nat /\ work \in Nat
    BY HookAssumption DEF Init
  <1>3. broken \subseteq Collectors /\ inSession \in BOOLEAN
    BY DEF Init
  <1>4. query \in [Queries -> QueryRecord]
    BY DEF Init, QueryRecord
  <1>5. /\ store \in [Requests -> Nat \cup {NoStore}] /\ wraps \in [Exports -> -1 .. 1]
        /\ req \in [Requests -> {"new", "open", "finished", "aborted"}]
        /\ totalHist \in 0 .. MaxTicks
    BY HookAssumption DEF Init
  <1>6. /\ toWrite \in Seq(Event) /\ lines \in Seq(Event)
        /\ frames \in Seq([ms : Nat, watched : BOOLEAN])
    BY DEF Init
  <1>7. /\ phase = "preload" /\ attachFlag = FALSE /\ installed = {} /\ wrappedApis = {}
        /\ disabled = {} /\ recordable = TRUE /\ made = 0 /\ windowHist = 0 /\ ahead = 0
        /\ slow = 0
    BY Zenon DEF Init
  <1>8. /\ phase \in {"preload", "running", "exiting"} /\ attachFlag \in BOOLEAN
        /\ installed \subseteq Collectors /\ wrappedApis \subseteq ToSet(Apis)
        /\ disabled \subseteq {"blocking-call", "http", "db-query"} /\ recordable \in BOOLEAN
    BY <1>7, Zenon
  <1>9. made \in Nat /\ ahead \in -1 .. 1 /\ slow \in Nat
    BY <1>7
  <1>. QED  BY <1>1, <1>2, <1>3, <1>4, <1>5, <1>6, <1>7, <1>8, <1>9, Zenon DEF TypeOK

LEMMA TypeNext == TypeOK /\ [Next]_vars => TypeOK'
  <1>. SUFFICES ASSUME TypeOK, [Next]_vars PROVE TypeOK'
    OBVIOUS
  <1>. USE DEF envVars, hookVars, healthVars, fileVars, callVars, httpVars, dbVars, lagVars
  <1>1. ASSUME LoadHook, phase' \in {"preload", "running", "exiting"}, work' \in Nat
        PROVE  TypeOK'
    <2>1. toWrite' \in Seq(Event)
      <3>1. <<Attach>> \in Seq(Event)
        BY EventsOfTheHook
      <3>. QED  BY <1>1, <3>1, WriteType DEF TypeOK, LoadHook
    <2>2. installed' \subseteq Collectors /\ wrappedApis' \subseteq ToSet(Apis)
      BY <1>1, ApisWrapped DEF TypeOK, LoadHook, InstallCollectors, Installed
    <2>. QED  BY <1>1, <2>1, <2>2 DEF TypeOK, LoadHook
  <1>2. CASE Preload
    BY <1>1, <1>2 DEF TypeOK, Preload
  <1>3. CASE RequireAgain
    BY <1>1, <1>3 DEF TypeOK, RequireAgain, Spend
  <1>4. CASE AppendEvent
    <2>1. /\ Append(lines, Head(toWrite)) \in Seq(Event) /\ Tail(toWrite) \in Seq(Event)
      BY <1>4, AppendPending DEF TypeOK, AppendEvent
    <2>2. Tail(toWrite) \o <<>> \in Seq(Event)
      BY <2>1, ConcatEmptySeq
    <2>3. toWrite' \in Seq(Event)
      BY <1>4, <2>2 DEF AppendEvent, Bypassed, InHookWrite
    <2>. QED  BY <1>4, <2>1, <2>3 DEF TypeOK, AppendEvent
  <1>5. CASE LoseEvent
    <2>1. toWrite' \in Seq(Event) /\ recordable' \in BOOLEAN
      BY <1>5, EmptySeq DEF LoseEvent, AppendFails
    <2>2. faultsLeft' \in Nat
      BY <1>5 DEF TypeOK, LoseEvent, Fault
    <2>. QED  BY <1>5, <2>1, <2>2 DEF TypeOK, LoseEvent
  <1>6. ASSUME NEW final \in BOOLEAN, NEW after \in Seq(Event), flushLag(final, after)
        PROVE  /\ toWrite' \in Seq(Event)
               /\ windowHist' = 0 /\ totalHist' \in 0 .. MaxTicks /\ ahead' \in -1 .. 1
    <2>1. PICK n \in 0 .. MaxTicks, m \in 0 .. MaxTicks - totalHist :
            /\ ahead' \in -1 .. 1
            /\ writeEvent(<<LoopLag(SamplesOf(windowHist + n), SamplesOf(totalHist + m), final)>>
                            \o after)
            /\ windowHist' = 0 /\ totalHist' = totalHist + m
      BY <1>6, FlushParts
    <2>2. /\ totalHist + m \in 0 .. MaxTicks
          /\ SamplesOf(windowHist + n) \in Nat /\ SamplesOf(totalHist + m) \in Nat
      <3>1. windowHist + n \in Nat /\ totalHist + m \in Nat /\ totalHist + m \in 0 .. MaxTicks
        BY HookAssumption DEF TypeOK
      <3>. QED  BY <3>1, SamplesOfTicks
    <2>3. <<LoopLag(SamplesOf(windowHist + n), SamplesOf(totalHist + m), final)>> \in Seq(Event)
      BY <2>2, EventsOfTheHook
    <2>4. <<LoopLag(SamplesOf(windowHist + n), SamplesOf(totalHist + m), final)>> \o after
            \in Seq(Event)
      BY <2>3, ConcatProperties
    <2>. QED  BY <2>1, <2>2, <2>4, WriteType
  <1>7. CASE LagTimer
    <2>1. flushLag(FALSE, <<>>) /\ Spend
      BY <1>7, Zenon DEF LagTimer
    <2>2. /\ toWrite' \in Seq(Event)
          /\ windowHist' = 0 /\ totalHist' \in 0 .. MaxTicks /\ ahead' \in -1 .. 1
      BY <1>6, <2>1, EmptySeq
    <2>3. work' \in Nat
      BY <2>1 DEF TypeOK, Spend
    <2>4. UNCHANGED <<phase, envVars, hookVars, healthVars, fileVars, callVars, httpVars,
                      dbVars>>
      BY <1>7, Zenon DEF LagTimer
    <2>. QED  BY <2>2, <2>3, <2>4 DEF TypeOK
  <1>8. CASE MemoryCollector
    <2>1. toWrite' \in Seq(Event)
      <3>1. <<MemSample>> \in Seq(Event) /\ <<GcPause>> \in Seq(Event)
        BY EventsOfTheHook
      <3>. QED  BY <1>8, <3>1, WriteType DEF MemoryCollector
    <2>. QED  BY <1>8, <2>1 DEF TypeOK, MemoryCollector, Spend
  <1>9. CASE Enter
    <2>1. frames' \in Seq([ms : Nat, watched : BOOLEAN])
      <3>1. \A api : [ms |-> 0, watched |-> ~Bypassed(api)] \in [ms : Nat, watched : BOOLEAN]
        OBVIOUS
      <3>. QED  BY <1>9, <3>1, AppendProperties DEF TypeOK, Enter
    <2>. QED  BY <1>9, <2>1 DEF TypeOK, Enter, Spend
  <1>10. CASE Blocked
    <2>1. frames' \in Seq([ms : Nat, watched : BOOLEAN])
      <3>1. frames \in Seq([ms : Nat, watched : BOOLEAN]) /\ DOMAIN frames = 1 .. Len(frames)
        BY LenProperties DEF TypeOK
      <3>. DEFINE later(i) == [frames[i] EXCEPT !.ms = IF @ < blockThresholdMs THEN @ + 1 ELSE @]
      <3>2. \A i \in 1 .. Len(frames) : later(i) \in [ms : Nat, watched : BOOLEAN]
        <4>. TAKE i \in 1 .. Len(frames)
        <4>1. frames[i] \in [ms : Nat, watched : BOOLEAN]
          BY <3>1, ElementOfSeq
        <4>. QED  BY <4>1
      <3>3. frames' = [i \in 1 .. Len(frames) |-> later(i)]
        BY <1>10, <3>1 DEF Blocked
      <3>4. Len(frames) \in Nat
        BY <3>1, LenProperties
      <3>. HIDE DEF later
      <3>. QED  BY <3>2, <3>3, <3>4
    <2>. QED  BY <1>10, <2>1 DEF TypeOK, Blocked
  <1>11. CASE Leave
    <2>1. frames' \in Seq([ms : Nat, watched : BOOLEAN])
      <3>1. frames \in Seq([ms : Nat, watched : BOOLEAN]) /\ Len(frames) - 1 \in Int
        BY LenProperties DEF TypeOK
      <3>2. \A i \in 1 .. Len(frames) - 1 : frames[i] \in [ms : Nat, watched : BOOLEAN]
        <4>. TAKE i \in 1 .. Len(frames) - 1
        <4>1. i \in 1 .. Len(frames)
          BY <3>1
        <4>. QED  BY <3>1, <4>1, ElementOfSeq
      <3>. QED  BY <1>11, <3>1, <3>2, SubSeqProperties DEF Leave, Front
    <2>2. toWrite' \in Seq(Event)
      <3>1. <<BlockCall>> \in Seq(Event) /\ <<>> \in Seq(Event)
        BY EventsOfTheHook, EmptySeq
      <3>2. (\E b \in BOOLEAN : writeEvent(IF b THEN <<BlockCall>> ELSE <<>>)) \/ toWrite' = toWrite
        BY <1>11 DEF Leave
      <3>. QED  BY <3>1, <3>2, WriteType DEF TypeOK
    <2>3. slow' \in Nat
      BY <1>11 DEF TypeOK, Leave
    <2>4. disabled' \subseteq {"blocking-call", "http", "db-query"} /\ faultsLeft' \in Nat
      <3>1. \/ UNCHANGED healthVars
            \/ Fault("collector") /\ disabled' = disabled \cup {"blocking-call"}
        BY <1>11 DEF Leave
      <3>2. disabled \subseteq {"blocking-call", "http", "db-query"} /\ faultsLeft \in Nat
        BY DEF TypeOK
      <3>3. CASE UNCHANGED healthVars
        BY <3>2, <3>3
      <3>4. CASE faultsLeft > 0 /\ faultsLeft' = faultsLeft - 1
        <4>1. faultsLeft' \in Nat
          BY <3>2, <3>4
        <4>. QED  BY <3>1, <3>2, <4>1
      <3>. QED  BY <3>1, <3>3, <3>4 DEF Fault
    <2>. QED  BY <1>11, <2>1, <2>2, <2>3, <2>4 DEF TypeOK, Leave
  <1>12. ASSUME NEW r \in Requests, Dispatch(r)
         PROVE  TypeOK'
    BY <1>12 DEF TypeOK, Dispatch, FreshStore, Spend
  <1>13. ASSUME NEW r \in Requests, Finish(r)
         PROVE  TypeOK'
    <2>1. toWrite' \in Seq(Event)
      <3>1. <<HttpRequest(r)>> \in Seq(Event)
        BY EventsOfWork
      <3>. QED  BY <1>13, <3>1, WriteType DEF TypeOK, Finish
    <2>2. disabled' \subseteq {"blocking-call", "http", "db-query"} /\ faultsLeft' \in Nat
      <3>1. \/ UNCHANGED healthVars
            \/ Fault("collector") /\ disabled' = disabled \cup {"http"}
        BY <1>13 DEF Finish
      <3>2. disabled \subseteq {"blocking-call", "http", "db-query"} /\ faultsLeft \in Nat
        BY DEF TypeOK
      <3>3. CASE UNCHANGED healthVars
        BY <3>2, <3>3
      <3>4. CASE faultsLeft > 0 /\ faultsLeft' = faultsLeft - 1
        <4>1. faultsLeft' \in Nat
          BY <3>2, <3>4
        <4>. QED  BY <3>1, <3>2, <4>1
      <3>. QED  BY <3>1, <3>3, <3>4 DEF Fault
    <2>3. req' \in [Requests -> {"new", "open", "finished", "aborted"}]
      BY <1>13 DEF TypeOK, Finish
    <2>. QED  BY <1>13, <2>1, <2>2, <2>3 DEF TypeOK, Finish
  <1>14. ASSUME NEW r \in Requests, Abort(r)
         PROVE  TypeOK'
    BY <1>14 DEF TypeOK, Abort
  <1>15. ASSUME NEW x \in Exports, LoadClient(x)
         PROVE  TypeOK'
    <2>1. PICK class \in -1 .. 1 :
            /\ class # -1 \/ class = wraps[x]
            /\ \/ wraps' = [wraps EXCEPT ![x] = Wrapped(class)]
               \/ wraps' = [wraps EXCEPT ![x] = class]
      <3>1. wraps \in [Exports -> -1 .. 1] /\ wraps[x] \in -1 .. 1
        BY DEF TypeOK
      <3>. DEFINE Classes == IF wraps[x] = -1
                               THEN {0} \cup ({wraps[y] : y \in Exports} \ {-1}) ELSE {wraps[x]}
      <3>2. \A class \in Classes : class \in -1 .. 1 /\ (class # -1 \/ class = wraps[x])
        BY <3>1
      <3>3. \E class \in Classes : \/ wraps' = [wraps EXCEPT ![x] = Wrapped(class)]
                                  \/ wraps' = [wraps EXCEPT ![x] = class]
        BY <1>15 DEF LoadClient
      <3>. HIDE DEF Classes
      <3>. QED  BY <3>2, <3>3
    <2>2. wraps' \in [Exports -> -1 .. 1]
      <3>1. wraps \in [Exports -> -1 .. 1]
        BY DEF TypeOK
      <3>2. Wrapped(class) \in -1 .. 1
        BY <2>1 DEF Wrapped
      <3>. HIDE DEF Wrapped
      <3>. QED  BY <2>1, <3>1, <3>2
    <2>3. made' \in Nat /\ work' \in Nat
      <3>1. made \in Nat /\ work \in Nat
        BY DEF TypeOK
      <3>2. made' \in {made, made + 1} /\ work' \in {work, work - 1} /\ (work' # work => work > 0)
        BY <1>15 DEF LoadClient, Spend
      <3>. QED  BY <3>1, <3>2
    <2>. QED  BY <1>15, <2>2, <2>3 DEF TypeOK, LoadClient
  <1>16. CASE UnsupportedClient
    BY <1>16 DEF TypeOK, UnsupportedClient, Fault
  <1>17. ASSUME NEW q \in Queries, StartQuery(q)
         PROVE  TypeOK'
    <2>1. PICK r \in Requests \cup {NoRequest}, x \in {y \in Exports : wraps[y] # -1} :
            LET observers == IF "db-query" \in disabled THEN 0 ELSE wraps[x] IN
            /\ query' = [query EXCEPT ![q] =
                 [state |-> "running", by |-> r, observers |-> observers,
                  scoped |-> getStore(r), inTime |-> r # NoRequest /\ req[r] = "open"]]
            /\ Observe(r, observers)
      BY <1>17 DEF StartQuery
    <2>. DEFINE observers == IF "db-query" \in disabled THEN 0 ELSE wraps[x]
    <2>2. observers \in 0 .. 1
      BY DEF TypeOK
    <2>. HIDE DEF observers
    <2>3. query' \in [Queries -> QueryRecord]
      <3>1. [state |-> "running", by |-> r, observers |-> observers,
             scoped |-> getStore(r), inTime |-> r # NoRequest /\ req[r] = "open"]
            \in QueryRecord
        BY <2>2 DEF QueryRecord, getStore
      <3>. QED  BY <2>1, <3>1 DEF TypeOK, observers
    <2>4. store' \in [Requests -> Nat \cup {NoStore}]
      BY <2>1, <2>2 DEF TypeOK, Observe, observers
    <2>. QED  BY <1>17, <2>3, <2>4 DEF TypeOK, StartQuery, Spend
  <1>18. ASSUME NEW q \in Queries, EndQuery(q)
         PROVE  TypeOK'
    <2>1. [i \in 1 .. query[q].observers |-> DbQuery(q)] \in Seq(Event)
      <3>1. query[q].observers \in Nat
        BY DEF TypeOK, QueryRecord
      <3>. QED  BY <3>1, EventsOfWork
    <2>2. toWrite' \in Seq(Event)
      BY <1>18, <2>1, WriteType DEF EndQuery
    <2>3. query' \in [Queries -> QueryRecord]
      <3>1. [query[q] EXCEPT !.state = "done"] \in QueryRecord
        BY DEF TypeOK, QueryRecord
      <3>2. query' = [query EXCEPT ![q] = [query[q] EXCEPT !.state = "done"]]
        BY <1>18 DEF EndQuery
      <3>. QED  BY <3>1, <3>2 DEF TypeOK
    <2>. QED  BY <1>18, <2>2, <2>3 DEF TypeOK, EndQuery
  <1>19. CASE Exit
    <2>1. <<Detach>> \in Seq(Event)
      BY EventsOfTheHook
    <2>. QED  BY <1>6, <1>19, <2>1, WriteType DEF TypeOK, Exit
  <1>20. CASE UNCHANGED vars
    BY <1>20 DEF TypeOK, vars
  <1>. QED
    BY <1>2, <1>3, <1>4, <1>5, <1>7, <1>8, <1>9, <1>10, <1>11, <1>12, <1>13, <1>14,
       <1>15, <1>16, <1>17, <1>18, <1>19, <1>20 DEF Next

LEMMA Types == Spec => []TypeOK
  BY TypeInit, TypeNext, PTL DEF Spec

-----------------------------------------------------------------------------
(* What a step does to Written: nothing, one event more (two on exit), or, *)
(* with a failed append, the loss of what the turn had still to append.    *)
(* While the process does not record, the events of a step are dropped.    *)
Keeps == recordable' = recordable /\ Written' = Written
Records(e) ==
  recordable' = recordable /\ Written' = IF recordable THEN Append(Written, e) ELSE Written
Loses ==
  /\ ~recordable' /\ Written' \in Seq(Event) /\ Len(Written') <= Len(Written)
  /\ \A i \in 1 .. Len(Written') : Written'[i] = Written[i]

LEMMA WrittenType == TypeOK => Written \in Seq(Event)
  BY ConcatProperties DEF TypeOK, Written

LEMMA Silent ==
  ASSUME UNCHANGED <<fileVars, toWrite>>
  PROVE  Keeps
  BY DEF Keeps, Written, fileVars

LEMMA WriteNothing ==
  ASSUME TypeOK, toWrite = <<>>, UNCHANGED fileVars, writeEvent(<<>>)
  PROVE  Keeps
  BY DEF Keeps, Written, fileVars, writeEvent

LEMMA WriteOne ==
  ASSUME TypeOK, NEW e \in Event, toWrite = <<>>, UNCHANGED fileVars, writeEvent(<<e>>)
  PROVE  Records(e)
  <1>1. lines \in Seq(Event) /\ Written = lines /\ lines \o <<>> = lines
    BY ConcatEmptySeq DEF TypeOK, Written
  <1>2. lines' = lines /\ recordable' = recordable
    BY DEF fileVars
  <1>3. Append(lines, e) = lines \o <<e>>
    BY <1>1, AppendIsConcat
  <1>4. CASE recordable
    BY <1>1, <1>2, <1>3, <1>4 DEF writeEvent, Written, Records
  <1>5. CASE ~recordable
    BY <1>1, <1>2, <1>5 DEF writeEvent, Written, Records
  <1>. QED  BY <1>4, <1>5

LEMMA WriteTwo ==
  ASSUME TypeOK, NEW e \in Event, NEW f \in Event, recordable,
         toWrite = <<>>, UNCHANGED fileVars, writeEvent(<<e>> \o <<f>>)
  PROVE  recordable' = recordable /\ Written' = Append(Append(Written, e), f)
  <1>1. lines \in Seq(Event) /\ Written = lines
    BY ConcatEmptySeq DEF TypeOK, Written
  <1>2. lines' = lines /\ recordable' = recordable /\ toWrite' = <<e>> \o <<f>>
    BY DEF fileVars, writeEvent
  <1>3. Append(lines, e) = lines \o <<e>> /\ Append(lines, e) \in Seq(Event)
    BY <1>1, AppendIsConcat, AppendProperties
  <1>4. Append(Append(lines, e), f) = (lines \o <<e>>) \o <<f>>
    BY <1>3, AppendIsConcat
  <1>5. <<e>> \in Seq(Event) /\ <<f>> \in Seq(Event)
    OBVIOUS
  <1>6. (lines \o <<e>>) \o <<f>> = lines \o (<<e>> \o <<f>>)
    BY <1>1, <1>5, ConcatAssociative
  <1>. QED  BY <1>1, <1>2, <1>4, <1>6 DEF Written

(* An append only moves an event: the wrapped call that appends is not      *)
(* watched while the hook writes.                                           *)
LEMMA AppendKeeps == TypeOK /\ AppendEvent => Keeps
  <1>. SUFFICES ASSUME TypeOK, AppendEvent PROVE Keeps
    OBVIOUS
  <1>1. toWrite # <<>> /\ toWrite \in Seq(Event) /\ lines \in Seq(Event)
    BY DEF TypeOK, AppendEvent
  <1>2. Append(lines, Head(toWrite)) \o Tail(toWrite) = lines \o toWrite /\ Tail(toWrite) \in Seq(Event)
    BY <1>1, AppendPending
  <1>3. Tail(toWrite) \o <<>> = Tail(toWrite)
    BY <1>2, ConcatEmptySeq
  <1>4. toWrite' = Tail(toWrite)
    BY <1>3 DEF AppendEvent, Bypassed, InHookWrite
  <1>. QED  BY <1>2, <1>4 DEF AppendEvent, Keeps, Written

LEMMA LoseLoses == TypeOK /\ LoseEvent => Loses
  <1>. SUFFICES ASSUME TypeOK, LoseEvent PROVE Loses
    OBVIOUS
  <1>1. toWrite \in Seq(Event) /\ lines \in Seq(Event)
    BY DEF TypeOK
  <1>2. Written' = lines
    <2>1. toWrite' = <<>> /\ lines' = lines
      BY DEF LoseEvent
    <2>. QED  BY <1>1, <2>1, ConcatEmptySeq DEF Written
  <1>3. /\ Len(Written) = Len(lines) + Len(toWrite) /\ Len(lines) \in Nat /\ Len(toWrite) \in Nat
        /\ \A i \in 1 .. Len(lines) + Len(toWrite) :
             Written[i] = IF i <= Len(lines) THEN lines[i] ELSE toWrite[i - Len(lines)]
    BY <1>1, ConcatProperties, LenProperties DEF Written
  <1>4. Len(lines) <= Len(Written) /\ \A i \in 1 .. Len(lines) : lines[i] = Written[i]
    BY <1>3
  <1>5. ~recordable'
    BY DEF LoseEvent, AppendFails
  <1>. QED  BY <1>1, <1>2, <1>4, <1>5 DEF Loses

(***************************************************************************)
(* What each action adds.  A lag window has the ticks since the last flush, *)
(* because the first histogram was reset then.                             *)
(***************************************************************************)
Windows(final) ==
  \E n \in Nat, count \in Nat, total \in Nat :
    /\ count = SamplesOf(n) /\ total = SamplesOf(totalHist')
    /\ ahead' - ahead = n - (totalHist' - totalHist) /\ ahead' \in -1 .. 1
    /\ IF final THEN recordable' = recordable /\
                     Written' = Append(Append(Written, LoopLag(count, total, TRUE)), Detach)
       ELSE Records(LoopLag(count, total, FALSE))

LEMMA PreloadWrites ==
  ASSUME TypeOK, StageInv, Preload
  PROVE  IF inSession THEN Records(Attach) ELSE Keeps
  <1>1. toWrite = <<>>
    BY ConcatEqualIffEmpty DEF TypeOK, StageInv, Preload, Written
  <1>2. ~attachFlag
    BY DEF StageInv, Preload
  <1>. QED  BY <1>1, <1>2, WriteOne, Silent, EventsOfTheHook
         DEF Preload, LoadHook, AlreadyAttached, fileVars

LEMMA LagTimerWrites ==
  ASSUME TypeOK, LagTimer
  PROVE  Windows(FALSE)
  <1>1. flushLag(FALSE, <<>>) /\ toWrite = <<>> /\ UNCHANGED fileVars
    BY Zenon DEF LagTimer, Idle
  <1>2. PICK n \in 0 .. MaxTicks, m \in 0 .. MaxTicks - totalHist :
          /\ ahead' = ahead + n - m /\ ahead' \in -1 .. 1
          /\ writeEvent(<<LoopLag(SamplesOf(windowHist + n), SamplesOf(totalHist + m), FALSE)>>
                          \o <<>>)
          /\ totalHist' = totalHist + m
    BY <1>1, FlushParts
  <1>3. /\ n \in Nat /\ windowHist + n = n /\ totalHist + m \in Nat /\ ahead \in Int /\ m \in Int
        /\ totalHist \in Int
    BY HookAssumption DEF TypeOK
  <1>. DEFINE line == LoopLag(SamplesOf(n), SamplesOf(totalHist + m), FALSE)
  <1>4. SamplesOf(n) \in Nat /\ SamplesOf(totalHist + m) \in Nat /\ line \in Event
    BY <1>3, SamplesOfTicks, EventsOfTheHook
  <1>5. writeEvent(<<line>>)
    <2>1. <<line>> \in Seq(Event)
      BY <1>4, SingleEvent
    <2>. HIDE DEF line
    <2>2. <<line>> \o <<>> = <<line>>
      BY <2>1, ConcatEmptySeq
    <2>. USE DEF line
    <2>. QED  BY <1>2, <1>3, <2>2, Zenon
  <1>6. Records(line)
    BY <1>1, <1>4, <1>5, WriteOne
  <1>7. ahead' - ahead = n - (totalHist' - totalHist)
    BY <1>2, <1>3
  <1>. QED  BY <1>2, <1>3, <1>4, <1>6, <1>7 DEF Windows

LEMMA ExitWrites ==
  ASSUME TypeOK, Exit
  PROVE  IF inSession /\ FlushesOnExit THEN recordable /\ Windows(TRUE)
           ELSE UNCHANGED lagVars /\ IF inSession THEN Records(Detach) ELSE Keeps
  <1>1. toWrite = <<>> /\ UNCHANGED fileVars
    BY Zenon DEF Exit, Idle
  <1>2. CASE inSession /\ FlushesOnExit
    <2>1. flushLag(TRUE, <<Detach>>) /\ recordable
      BY <1>2, Zenon DEF Exit, FlushesOnExit
    <2>2. PICK n \in 0 .. MaxTicks, m \in 0 .. MaxTicks - totalHist :
            /\ ahead' = ahead + n - m /\ ahead' \in -1 .. 1
            /\ writeEvent(<<LoopLag(SamplesOf(windowHist + n), SamplesOf(totalHist + m), TRUE)>>
                            \o <<Detach>>)
            /\ totalHist' = totalHist + m
      BY <2>1, FlushParts
    <2>3. /\ n \in Nat /\ windowHist + n = n /\ totalHist + m \in Nat /\ ahead \in Int
          /\ m \in Int /\ totalHist \in Int
      BY HookAssumption DEF TypeOK
    <2>. DEFINE line == LoopLag(SamplesOf(n), SamplesOf(totalHist + m), TRUE)
    <2>4. /\ SamplesOf(n) \in Nat /\ SamplesOf(totalHist + m) \in Nat
          /\ line \in Event /\ Detach \in Event
      BY <2>3, SamplesOfTicks, EventsOfTheHook
    <2>5. writeEvent(<<line>> \o <<Detach>>)
      BY <2>2, <2>3, Zenon
    <2>6. recordable' = recordable /\ Written' = Append(Append(Written, line), Detach)
      BY <1>1, <2>1, <2>4, <2>5, WriteTwo
    <2>7. ahead' - ahead = n - (totalHist' - totalHist)
      BY <2>2, <2>3
    <2>. QED  BY <1>2, <2>1, <2>2, <2>3, <2>4, <2>6, <2>7 DEF Windows
  <1>3. CASE inSession /\ ~FlushesOnExit
    BY <1>1, <1>3, WriteOne, EventsOfTheHook DEF Exit
  <1>4. CASE ~inSession
    BY <1>1, <1>4, Silent DEF Exit
  <1>. QED  BY <1>2, <1>3, <1>4

LEMMA MemoryWrites ==
  ASSUME TypeOK, MemoryCollector
  PROVE  \E e \in {MemSample, GcPause} : Records(e)
  BY WriteOne, EventsOfTheHook DEF MemoryCollector, Idle

Slow(call, site) == call.ms >= blockThresholdMs /\ passesFilter(site)

LEMMA LeaveWrites ==
  ASSUME TypeOK, Leave
  PROVE  \E site \in Sites :
           LET call == Last(frames) IN
           /\ slow' = IF Slow(call, site) THEN slow + 1 ELSE slow
           /\ \/ call.watched /\ Slow(call, site) /\ Records(BlockCall) /\ UNCHANGED healthVars
              \/ ~(call.watched /\ Slow(call, site)) /\ Keeps /\ UNCHANGED healthVars
              \/ Keeps /\ disabled' = disabled \cup {"blocking-call"}
  <1>. DEFINE call == Last(frames)
  <1>1. PICK site \in Sites :
          /\ \/ /\ writeEvent(IF call.watched /\ Recorded(call.ms, site) THEN <<BlockCall>> ELSE <<>>)
                /\ UNCHANGED healthVars
             \/ /\ disabled' = disabled \cup {"blocking-call"}
                /\ UNCHANGED toWrite
          /\ slow' = IF call.ms >= blockThresholdMs /\ passesFilter(site) THEN slow + 1 ELSE slow
    BY DEF Leave
  <1>2. toWrite = <<>> /\ UNCHANGED fileVars /\ BlockCall \in Event
    BY EventsOfTheHook DEF Leave
  <1>3. Recorded(call.ms, site) <=> Slow(call, site)
    BY DEF Recorded, Slow
  <1>. HIDE DEF call
  <1>4. slow' = IF Slow(call, site) THEN slow + 1 ELSE slow
    BY <1>1 DEF Slow
  <1>5. CASE UNCHANGED toWrite /\ disabled' = disabled \cup {"blocking-call"}
    BY <1>2, <1>4, <1>5, Silent DEF call
  <1>6. CASE call.watched /\ Slow(call, site) /\ writeEvent(<<BlockCall>>) /\ UNCHANGED healthVars
    BY <1>2, <1>4, <1>6, WriteOne DEF call
  <1>7. CASE ~(call.watched /\ Slow(call, site)) /\ writeEvent(<<>>) /\ UNCHANGED healthVars
    BY <1>2, <1>4, <1>7, WriteNothing DEF call
  <1>. QED  BY <1>1, <1>3, <1>5, <1>6, <1>7

LEMMA FinishWrites ==
  ASSUME TypeOK, NEW r \in Requests, Finish(r)
  PROVE  \/ store[r] # NoStore /\ "http" \notin disabled /\ Records(HttpRequest(r))
         \/ Keeps /\ (store[r] = NoStore \/ "http" \in disabled')
  <1>1. UNCHANGED fileVars /\ toWrite = <<>> /\ HttpRequest(r) \in Event
    BY EventsOfWork DEF Finish, Idle
  <1>2. CASE store[r] # NoStore /\ "http" \notin disabled /\ writeEvent(<<HttpRequest(r)>>)
    BY <1>1, <1>2, WriteOne
  <1>3. CASE UNCHANGED toWrite /\ (store[r] = NoStore \/ "http" \in disabled')
    BY <1>1, <1>3, Silent
  <1>. QED  BY <1>2, <1>3 DEF Finish, healthVars

LEMMA EndQueryWrites ==
  ASSUME TypeOK, StageInv, NEW q \in Queries, EndQuery(q)
  PROVE  IF query[q].observers = 1 THEN Records(DbQuery(q)) ELSE Keeps
  <1>1. query[q].observers \in {0, 1}
    BY DEF TypeOK, QueryRecord, StageInv
  <1>2. toWrite = <<>> /\ UNCHANGED fileVars
        /\ writeEvent([i \in 1 .. query[q].observers |-> DbQuery(q)])
    BY DEF EndQuery, Idle
  <1>3. DbQuery(q) \in Event
    BY EventsOfWork
  <1>4. CASE query[q].observers = 1
    <2>1. [i \in 1 .. 1 |-> DbQuery(q)] = <<DbQuery(q)>>
      OBVIOUS
    <2>. QED  BY <1>2, <1>3, <1>4, <2>1, WriteOne
  <1>5. CASE query[q].observers = 0
    <2>1. [i \in 1 .. 0 |-> DbQuery(q)] = <<>>
      OBVIOUS
    <2>. QED  BY <1>2, <1>5, <2>1, WriteNothing
  <1>. QED  BY <1>1, <1>4, <1>5

(***************************************************************************)
(* Before the preload nothing else runs; after it the environment and what *)
(* was installed stay.                                                     *)
(***************************************************************************)
LEMMA Later ==
  ASSUME TypeOK, StageInv, Next, ~Preload
  PROVE  /\ phase # "preload" /\ phase' # "preload"
         /\ phase = "exiting" => phase' = "exiting"
         /\ UNCHANGED envVars /\ UNCHANGED hookVars
         /\ \A c : Works(c)' => Works(c)
         /\ \A valid : InSession(valid)' <=> InSession(valid)
  <1>1. CASE RequireAgain
    BY <1>1 DEF StageInv, RequireAgain, LoadHook, AlreadyAttached, Idle, Works, InSession,
                envVars, hookVars, healthVars
  <1>2. ASSUME ~RequireAgain
        PROVE  /\ phase' = phase \/ (Idle /\ phase' = "exiting")
               /\ UNCHANGED envVars /\ UNCHANGED hookVars
               /\ disabled \subseteq disabled'
    <2>1. CASE AppendEvent \/ LoseEvent \/ Enter \/ Blocked
      BY <2>1 DEF AppendEvent, LoseEvent, Enter, Blocked, healthVars
    <2>2. CASE LagTimer \/ MemoryCollector
      BY <2>2, Zenon DEF LagTimer, MemoryCollector, healthVars
    <2>3. CASE Leave
      BY <2>3, LeaveWrites DEF Leave, healthVars
    <2>4. CASE \E r \in Requests : Dispatch(r) \/ Finish(r) \/ Abort(r)
      BY <2>4 DEF Dispatch, Finish, Abort, healthVars
    <2>5. CASE (\E x \in Exports : LoadClient(x)) \/ UnsupportedClient
      BY <2>5 DEF LoadClient, UnsupportedClient, healthVars
    <2>6. CASE \E q \in Queries : StartQuery(q) \/ EndQuery(q)
      BY <2>6 DEF StartQuery, EndQuery, healthVars
    <2>7. CASE Exit
      BY <2>7, Zenon DEF Exit, healthVars
    <2>. QED  BY <1>2, <2>1, <2>2, <2>3, <2>4, <2>5, <2>6, <2>7 DEF Next
  <1>3. ASSUME ~RequireAgain
        PROVE  phase # "preload"
    <2>1. Written = <<>> /\ phase = "preload" => toWrite = <<>>
      BY ConcatEqualIffEmpty DEF TypeOK, Written
    <2>2. phase = "preload" => toWrite = <<>> /\ frames = <<>>
      BY <2>1 DEF StageInv
    <2>3. CASE AppendEvent \/ LoseEvent \/ Enter \/ Blocked \/ Leave
      BY <2>2, <2>3 DEF AppendEvent, LoseEvent, Enter, Blocked, Leave
    <2>4. CASE Idle
      BY <2>4 DEF Idle
    <2>5. LagTimer \/ MemoryCollector \/ Exit \/ UnsupportedClient => Idle
      BY Zenon DEF LagTimer, MemoryCollector, Exit, UnsupportedClient
    <2>6. (\E r \in Requests : Dispatch(r) \/ Finish(r) \/ Abort(r))
          \/ (\E x \in Exports : LoadClient(x)) \/ (\E q \in Queries : StartQuery(q) \/ EndQuery(q))
            => Idle
      BY DEF Dispatch, Finish, Abort, LoadClient, StartQuery, EndQuery
    <2>. QED  BY <1>3, <2>3, <2>4, <2>5, <2>6 DEF Next
  <1>4. CASE ~RequireAgain
    <2>1. phase # "preload" /\ phase' # "preload" /\ (phase = "exiting" => phase' = "exiting")
      BY <1>2, <1>3, <1>4 DEF Idle
    <2>. QED  BY <1>2, <1>4, <2>1 DEF Works, InSession, envVars
  <1>. QED  BY <1>1, <1>4

-----------------------------------------------------------------------------
(* StageInv is inductive. *)

LEMMA StageInit == Init => StageInv
  <1>. SUFFICES ASSUME Init PROVE StageInv
    OBVIOUS
  <1>1. /\ phase = "preload" /\ ~attachFlag /\ slow = 0 /\ totalHist = 0 /\ ahead = 0
        /\ frames = <<>> /\ installed = {} /\ wrappedApis = {} /\ recordable
        /\ toWrite = <<>> /\ lines = <<>>
    BY Zenon DEF Init
  <1>2. /\ \A r \in Requests : req[r] = "new" /\ store[r] = NoStore
        /\ \A q \in Queries : query[q].state = "idle" /\ query[q].observers = 0
        /\ \A x \in Exports : wraps[x] = -1
    BY DEF Init
  <1>3. Written = <<>>
    BY <1>1 DEF Written
  <1>4. ~InSession(TRUE)
    BY <1>1 DEF InSession
  <1>. QED  BY <1>1, <1>2, <1>3, <1>4 DEF StageInv

LEMMA StagePreload == TypeOK /\ StageInv /\ Preload => StageInv'
  <1>. SUFFICES ASSUME TypeOK, StageInv, Preload PROVE StageInv'
    OBVIOUS
  <1>1. /\ phase = "preload" /\ phase' = "running" /\ LoadHook /\ ~attachFlag
        /\ toWrite = <<>>
    BY ConcatEqualIffEmpty DEF TypeOK, StageInv, Preload, Written
  <1>2. /\ attachFlag' = TRUE /\ UNCHANGED envVars /\ UNCHANGED fileVars
        /\ UNCHANGED <<callVars, httpVars, dbVars>>
    BY <1>1 DEF LoadHook
  <1>3. installed = {} /\ wrappedApis = {}
    BY <1>1 DEF StageInv, InSession
  <1>4. ~recordable' => toWrite' = <<>>
    BY <1>1, <1>2 DEF LoadHook, writeEvent, fileVars
  <1>5. InSession(TRUE)' <=> inSession /\ settings = "valid"
    BY <1>1, <1>2 DEF InSession, envVars
  <1>6. /\ installed' = IF InSession(TRUE)' THEN Installed' ELSE {}
        /\ "blocking-call" \in installed' => wrappedApis' = ToSet(Apis)
        /\ ~InSession(TRUE)' => wrappedApis' = {}
    <2>1. CASE inSession /\ settings = "valid"
      BY <1>1, <1>2, <1>5, <2>1 DEF LoadHook, AlreadyAttached, InstallCollectors, Installed, envVars
    <2>2. CASE ~(inSession /\ settings = "valid")
      BY <1>1, <1>3, <1>5, <2>2 DEF LoadHook, AlreadyAttached
    <2>. QED  BY <2>1, <2>2
  <1>7. /\ \A q \in Queries : query'[q].observers <= 1 /\ query'[q].observers = 0
        /\ \A i \in DOMAIN frames' : ~frames'[i].watched
        /\ \A r \in Requests : store'[r] = NoStore
        /\ \A x \in Exports : wraps'[x] < 1
    BY <1>1, <1>2 DEF StageInv, InSession, callVars, httpVars, dbVars
  <1>. QED  BY <1>1, <1>2, <1>4, <1>5, <1>6, <1>7 DEF StageInv

(* The parts of StageInv that a later step can disturb.                    *)
Unwatched ==
  ~InSession(TRUE) =>
    /\ wrappedApis = {} /\ \A i \in DOMAIN frames : ~frames[i].watched
    /\ \A r \in Requests : store[r] = NoStore
    /\ \A q \in Queries : query[q].observers = 0
    /\ \A x \in Exports : wraps[x] < 1
AtMostOnce == \A q \in Queries : query[q].observers <= 1

LEMMA FramesShrink ==
  ASSUME TypeOK, frames # <<>>
  PROVE  /\ DOMAIN Front(frames) \subseteq DOMAIN frames
         /\ \A i \in DOMAIN Front(frames) : Front(frames)[i] = frames[i]
         /\ Len(frames) \in DOMAIN frames
  <1>. DEFINE Frame == [ms : Nat, watched : BOOLEAN]
  <1>1. /\ frames \in Seq(Frame) /\ Len(frames) \in Nat \ {0}
        /\ DOMAIN frames = 1 .. Len(frames)
    BY LenProperties, EmptySeq DEF TypeOK
  <1>2. \A i \in 1 .. Len(frames) - 1 : frames[i] \in Frame
    <2>. TAKE i \in 1 .. Len(frames) - 1
    <2>1. i \in 1 .. Len(frames)
      BY <1>1
    <2>. QED  BY <1>1, <2>1, ElementOfSeq
  <1>. HIDE DEF Frame
  <1>3. 1 \in Int /\ Len(frames) - 1 \in Int
    BY <1>1
  <1>4. /\ Front(frames) \in Seq(Frame)
        /\ Len(Front(frames)) = IF 1 <= Len(frames) - 1 THEN Len(frames) - 1 - 1 + 1 ELSE 0
        /\ \A i \in 1 .. Len(frames) - 1 - 1 + 1 : Front(frames)[i] = frames[1 + i - 1]
    BY <1>2, <1>3, SubSeqProperties DEF Front
  <1>5. Len(Front(frames)) = Len(frames) - 1 /\ Len(frames) - 1 - 1 + 1 = Len(frames) - 1
    <2>1. \A n \in Nat \ {0} : n - 1 - 1 + 1 = n - 1 /\ (~(1 <= n - 1) => n - 1 = 0)
      OBVIOUS
    <2>. QED  BY <1>1, <1>4, <2>1
  <1>6. DOMAIN Front(frames) = 1 .. Len(frames) - 1
    BY <1>4, <1>5, LenProperties
  <1>7. \A i \in 1 .. Len(frames) - 1 : Front(frames)[i] = frames[i]
    <2>. TAKE i \in 1 .. Len(frames) - 1
    <2>1. 1 + i - 1 = i
      BY <1>1
    <2>. QED  BY <1>4, <1>5, <2>1
  <1>8. 1 .. Len(frames) - 1 \subseteq 1 .. Len(frames) /\ Len(frames) \in 1 .. Len(frames)
    BY <1>1
  <1>. QED  BY <1>1, <1>6, <1>7, <1>8

LEMMA UnwatchedNext ==
  ASSUME TypeOK, StageInv, Next, ~Preload
  PROVE  Unwatched' /\ AtMostOnce'
  <1>0. /\ Unwatched /\ AtMostOnce /\ installed = IF InSession(TRUE) THEN Installed ELSE {}
        /\ wrappedApis' = wrappedApis /\ (InSession(TRUE)' <=> InSession(TRUE))
        /\ phase # "preload"
    BY Later DEF StageInv, Unwatched, AtMostOnce, hookVars
  <1>1. ASSUME UNCHANGED <<frames, store, query, wraps>>
        PROVE  Unwatched' /\ AtMostOnce'
    BY <1>0, <1>1 DEF Unwatched, AtMostOnce
  <1>2. CASE RequireAgain
    BY <1>1, <1>2 DEF RequireAgain, LoadHook, callVars, httpVars, dbVars
  <1>3. CASE AppendEvent \/ LoseEvent
    BY <1>1, <1>3 DEF AppendEvent, LoseEvent, callVars, httpVars, dbVars
  <1>4. CASE LagTimer \/ MemoryCollector \/ Exit \/ UnsupportedClient
    <2>1. UNCHANGED <<callVars, httpVars, dbVars>>
      BY <1>4, Zenon DEF LagTimer, MemoryCollector, Exit, UnsupportedClient
    <2>. QED  BY <1>1, <2>1 DEF callVars, httpVars, dbVars
  <1>5. CASE Enter
    <2>1. UNCHANGED <<store, query, wraps>>
      BY <1>5 DEF Enter, httpVars, dbVars
    <2>2. ASSUME ~InSession(TRUE), NEW i \in DOMAIN frames'
          PROVE  ~frames'[i].watched
      <3>1. PICK a \in DOMAIN Apis :
              frames' = Append(frames, [ms |-> 0, watched |-> ~Bypassed(Apis[a])])
        BY <1>5 DEF Enter
      <3>2. Bypassed(Apis[a])
        BY <1>0, <2>2 DEF Unwatched, Bypassed
      <3>. DEFINE f == [ms |-> 0, watched |-> FALSE]
      <3>3. frames' = Append(frames, f) /\ f \in [ms : Nat, watched : BOOLEAN]
        BY <3>1, <3>2
      <3>4. frames \in Seq([ms : Nat, watched : BOOLEAN]) /\ DOMAIN frames = 1 .. Len(frames)
            /\ Len(frames) \in Nat
        BY LenProperties DEF TypeOK
      <3>5. /\ DOMAIN frames' = 1 .. Len(frames) + 1
            /\ \A k \in 1 .. Len(frames) : frames'[k] = frames[k]
            /\ frames'[Len(frames) + 1] = f
        BY <3>3, <3>4, AppendProperties, LenProperties
      <3>6. ~f.watched
        OBVIOUS
      <3>. QED  BY <1>0, <2>2, <3>4, <3>5, <3>6 DEF Unwatched
    <2>. QED  BY <1>0, <2>1, <2>2 DEF Unwatched, AtMostOnce
  <1>6. CASE Blocked
    <2>1. /\ UNCHANGED <<store, query, wraps>> /\ DOMAIN frames' = DOMAIN frames
          /\ \A i \in DOMAIN frames : frames'[i].watched = frames[i].watched
      <3>1. \A i \in DOMAIN frames : frames[i] \in [ms : Nat, watched : BOOLEAN]
        <4>1. frames \in Seq([ms : Nat, watched : BOOLEAN]) /\ DOMAIN frames = 1 .. Len(frames)
          BY LenProperties DEF TypeOK
        <4>. TAKE i \in DOMAIN frames
        <4>. QED  BY <4>1, ElementOfSeq
      <3>. QED  BY <1>6, <3>1 DEF Blocked, httpVars, dbVars
    <2>. QED  BY <1>0, <2>1 DEF Unwatched, AtMostOnce
  <1>7. CASE Leave
    <2>1. UNCHANGED <<store, query, wraps>> /\ frames # <<>> /\ frames' = Front(frames)
      BY <1>7 DEF Leave, httpVars, dbVars
    <2>. QED  BY <1>0, <2>1, FramesShrink DEF Unwatched, AtMostOnce
  <1>8. ASSUME NEW r \in Requests, Dispatch(r) \/ Finish(r) \/ Abort(r)
        PROVE  Unwatched' /\ AtMostOnce'
    <2>1. UNCHANGED <<frames, query, wraps>>
      BY <1>8 DEF Dispatch, Finish, Abort, callVars, dbVars
    <2>2. ~InSession(TRUE) => store' = store
      BY <1>0, <1>8 DEF Dispatch, Finish, Abort, httpVars
    <2>. QED  BY <1>0, <2>1, <2>2 DEF Unwatched, AtMostOnce
  <1>9. ASSUME NEW x \in Exports, LoadClient(x)
        PROVE  Unwatched' /\ AtMostOnce'
    <2>1. UNCHANGED <<frames, store, query>>
      BY <1>9 DEF LoadClient, callVars, httpVars
    <2>2. ASSUME ~InSession(TRUE), NEW y \in Exports
          PROVE  wraps'[y] < 1
      <3>1. PICK class \in {0, wraps[x]} \cup {wraps[z] : z \in Exports} :
              wraps' = [wraps EXCEPT ![x] = class]
        BY <1>0, <1>9, <2>2 DEF LoadClient
      <3>2. class < 1
        BY <1>0, <2>2, <3>1 DEF Unwatched
      <3>. QED  BY <1>0, <2>2, <3>1, <3>2 DEF Unwatched, TypeOK
    <2>. QED  BY <1>0, <2>1, <2>2 DEF Unwatched, AtMostOnce
  <1>10. ASSUME NEW q \in Queries, StartQuery(q)
         PROVE  Unwatched' /\ AtMostOnce'
    <2>. PICK r \in Requests \cup {NoRequest}, x \in {y \in Exports : wraps[y] # -1} :
           \E observers :
             /\ observers = IF "db-query" \in disabled THEN 0 ELSE wraps[x]
             /\ query' = [query EXCEPT ![q] =
                  [state |-> "running", by |-> r, observers |-> observers,
                   scoped |-> getStore(r), inTime |-> r # NoRequest /\ req[r] = "open"]]
             /\ Observe(r, observers)
      BY <1>10 DEF StartQuery
    <2>1. PICK observers :
            /\ observers = IF "db-query" \in disabled THEN 0 ELSE wraps[x]
            /\ query' = [query EXCEPT ![q] =
                 [state |-> "running", by |-> r, observers |-> observers,
                  scoped |-> getStore(r), inTime |-> r # NoRequest /\ req[r] = "open"]]
            /\ Observe(r, observers)
      OBVIOUS
    <2>2. observers \in 0 .. 1 /\ (~InSession(TRUE) => observers = 0)
      <3>1. wraps[x] \in 0 .. 1
        BY <2>1 DEF TypeOK
      <3>2. ~InSession(TRUE) => wraps[x] < 1
        BY <1>0, <2>1 DEF Unwatched
      <3>3. CASE "db-query" \in disabled
        BY <2>1, <3>3
      <3>4. CASE "db-query" \notin disabled
        <4>1. observers = wraps[x]
          BY <2>1, <3>4
        <4>2. \A n \in 0 .. 1 : n < 1 => n = 0
          OBVIOUS
        <4>3. wraps[x] < 1 => wraps[x] = 0
          BY <3>1, <4>2
        <4>. QED  BY <3>1, <3>2, <4>1, <4>3, Zenon
      <3>. QED  BY <3>3, <3>4
    <2>3. /\ query'[q].observers = observers
          /\ \A p \in Queries \ {q} : query'[p] = query[p]
      BY <2>1 DEF TypeOK
    <2>4. UNCHANGED <<frames, wraps>>
      BY <1>10 DEF StartQuery, callVars
    <2>5. ~InSession(TRUE) => store' = store
      BY <1>0, <2>1 DEF Observe, Unwatched
    <2>6. AtMostOnce'
      <3>1. \A p \in Queries : p = q \/ p \in Queries \ {q}
        OBVIOUS
      <3>. QED  BY <1>0, <2>2, <2>3, <3>1 DEF AtMostOnce
    <2>7. ~InSession(TRUE) => \A p \in Queries : query'[p].observers = 0
      BY <1>0, <2>2, <2>3 DEF Unwatched
    <2>. QED  BY <1>0, <2>4, <2>5, <2>6, <2>7 DEF Unwatched
  <1>11. ASSUME NEW q \in Queries, EndQuery(q)
         PROVE  Unwatched' /\ AtMostOnce'
    <2>1. UNCHANGED <<frames, store, wraps>> /\ \A p \in Queries : query'[p].observers = query[p].observers
      BY <1>11 DEF EndQuery, callVars, httpVars, TypeOK, QueryRecord
    <2>. QED  BY <1>0, <2>1 DEF Unwatched, AtMostOnce
  <1>. QED
    BY <1>2, <1>3, <1>4, <1>5, <1>6, <1>7, <1>8, <1>9, <1>10, <1>11 DEF Next

LEMMA StageNext == TypeOK /\ StageInv /\ [Next]_vars => StageInv'
  <1>. SUFFICES ASSUME TypeOK, StageInv, [Next]_vars PROVE StageInv'
    OBVIOUS
  <1>1. CASE UNCHANGED vars
    BY <1>1 DEF StageInv, vars, Written, InSession, Installed, envVars, hookVars, fileVars,
                callVars, httpVars, dbVars, lagVars
  <1>2. CASE Preload
    BY <1>2, StagePreload
  <1>3. CASE Next /\ ~Preload
    <2>1. /\ phase # "preload" /\ phase' # "preload"
          /\ UNCHANGED envVars /\ UNCHANGED hookVars
          /\ InSession(TRUE)' <=> InSession(TRUE)
      BY <1>3, Later
    <2>2. Unwatched' /\ AtMostOnce'
      BY <1>3, UnwatchedNext
    <2>3. ~recordable' => toWrite' = <<>>
      <3>1. LagTimer \/ MemoryCollector \/ Exit => recordable' = recordable
              /\ (toWrite' = toWrite \/ \E written : writeEvent(written))
        BY Zenon DEF LagTimer, MemoryCollector, Exit, flushLag, fileVars
      <3>2. CASE LagTimer \/ MemoryCollector \/ Exit
        BY <3>1, <3>2 DEF StageInv, writeEvent
      <3>3. CASE AppendEvent \/ LoseEvent
        BY <3>3 DEF AppendEvent, LoseEvent, StageInv
      <3>4. CASE RequireAgain
        BY <3>4 DEF RequireAgain, LoadHook, StageInv, AlreadyAttached, fileVars, Idle
      <3>5. CASE Enter \/ Blocked \/ UnsupportedClient
        BY <3>5 DEF Enter, Blocked, UnsupportedClient, StageInv, fileVars
      <3>6. CASE Leave
        BY <3>6 DEF Leave, StageInv, fileVars, writeEvent
      <3>7. CASE \E r \in Requests : Dispatch(r) \/ Finish(r) \/ Abort(r)
        <4>1. recordable' = recordable /\ (toWrite' = toWrite \/ \E written : writeEvent(written))
          BY <3>7 DEF Dispatch, Finish, Abort, fileVars
        <4>. QED  BY <4>1 DEF StageInv, writeEvent
      <3>8. CASE (\E x \in Exports : LoadClient(x)) \/ (\E q \in Queries : StartQuery(q) \/ EndQuery(q))
        BY <3>8 DEF LoadClient, StartQuery, EndQuery, StageInv, fileVars, writeEvent
      <3>. QED  BY <1>3, <3>2, <3>3, <3>4, <3>5, <3>6, <3>7, <3>8 DEF Next
    <2>4. attachFlag' /\ installed' = (IF InSession(TRUE)' THEN Installed' ELSE {})
          /\ ("blocking-call" \in installed' => wrappedApis' = ToSet(Apis))
      BY <2>1 DEF StageInv, hookVars, envVars, Installed
    <2>. QED  BY <2>1, <2>2, <2>3, <2>4 DEF StageInv, Unwatched, AtMostOnce
  <1>. QED  BY <1>1, <1>2, <1>3

LEMMA Stages == Spec => []StageInv
  BY StageInit, StageNext, Types, PTL DEF Spec

-----------------------------------------------------------------------------
(* Which steps write, and what; every other step leaves Written alone.     *)
Work ==
  \/ LagTimer /\ Windows(FALSE)
  \/ MemoryCollector /\ \E e \in {MemSample, GcPause} : Records(e)
  \/ Leave /\ Records(BlockCall)
  \/ \E r \in Requests : Finish(r) /\ Records(HttpRequest(r))
  \/ \E q \in Queries : EndQuery(q) /\ Records(DbQuery(q))
  \/ Exit /\ FlushesOnExit /\ recordable /\ Windows(TRUE)
  \/ Exit /\ ~FlushesOnExit /\ Records(Detach)

LEMMA StepWrites ==
  ASSUME TypeOK, StageInv, [Next]_vars
  PROVE  \/ Keeps \/ Loses
         \/ Preload /\ inSession /\ Records(Attach)
         \/ InSession(FALSE) /\ Work
  <1>. SUFFICES ASSUME ~Keeps, ~Loses, ~(Preload /\ inSession /\ Records(Attach))
                PROVE  InSession(FALSE) /\ Work
    OBVIOUS
  <1>1. CASE UNCHANGED vars
    BY <1>1, Silent DEF vars
  <1>2. CASE Preload
    BY <1>2, PreloadWrites
  <1>3. ASSUME Next, ~Preload
        PROVE  InSession(FALSE) /\ Work
    <2>1. phase # "preload" /\ (installed # {} => InSession(FALSE))
      BY <1>3, Later DEF StageInv, InSession
    <2>2. CASE RequireAgain
      <3>1. UNCHANGED <<fileVars, toWrite>>
        BY <2>2 DEF RequireAgain, LoadHook, AlreadyAttached, StageInv, Idle
      <3>. QED  BY <3>1, Silent
    <2>3. CASE AppendEvent \/ LoseEvent
      BY <2>3, AppendKeeps, LoseLoses
    <2>4. CASE LagTimer
      <3>1. Windows(FALSE) /\ installed # {}
        BY <2>4, LagTimerWrites, Zenon DEF LagTimer
      <3>. QED  BY <2>1, <2>4, <3>1 DEF Work
    <2>5. CASE MemoryCollector
      <3>1. installed # {}
        BY <2>5 DEF MemoryCollector
      <3>. QED  BY <2>1, <2>5, <3>1, MemoryWrites DEF Work
    <2>6. CASE Leave
      <3>1. Last(frames).watched /\ Records(BlockCall) /\ frames # <<>>
        BY <2>6, LeaveWrites DEF Leave
      <3>2. InSession(FALSE)
        BY <3>1, FramesShrink DEF StageInv, InSession, Last
      <3>. QED  BY <2>6, <3>1, <3>2 DEF Work
    <2>7. CASE Enter \/ Blocked \/ UnsupportedClient
      <3>1. UNCHANGED <<fileVars, toWrite>>
        BY <2>7 DEF Enter, Blocked, UnsupportedClient
      <3>. QED  BY <3>1, Silent
    <2>8. CASE \/ \E r \in Requests : Dispatch(r) \/ Abort(r)
               \/ \E x \in Exports : LoadClient(x)
               \/ \E q \in Queries : StartQuery(q)
      <3>1. UNCHANGED <<fileVars, toWrite>>
        BY <2>8 DEF Dispatch, Abort, LoadClient, StartQuery
      <3>. QED  BY <3>1, Silent
    <2>9. ASSUME NEW r \in Requests, Finish(r)
          PROVE  InSession(FALSE) /\ Work
      <3>1. store[r] # NoStore /\ Records(HttpRequest(r))
        BY <2>9, FinishWrites
      <3>2. InSession(FALSE)
        BY <3>1 DEF StageInv, InSession
      <3>. QED  BY <2>9, <3>1, <3>2 DEF Work
    <2>10. ASSUME NEW q \in Queries, EndQuery(q)
           PROVE  InSession(FALSE) /\ Work
      <3>1. query[q].observers = 1 /\ Records(DbQuery(q))
        BY <2>10, EndQueryWrites
      <3>2. InSession(FALSE)
        BY <3>1 DEF StageInv, InSession
      <3>. QED  BY <2>10, <3>1, <3>2 DEF Work
    <2>11. CASE Exit
      BY <2>1, <2>11, ExitWrites DEF Work, InSession
    <2>. QED
      BY <1>3, <2>2, <2>3, <2>4, <2>5, <2>6, <2>7, <2>8, <2>9, <2>10, <2>11 DEF Next
  <1>. QED  BY <1>1, <1>2, <1>3

-----------------------------------------------------------------------------
(* The order of the lines, apart from the phase the process is in.         *)
Order(s) ==
  \A i \in DOMAIN s :
    /\ (s[i].type = "probe.attach") <=> (i = 1)
    /\ s[i].type = "probe.detach" => \A j \in i + 1 .. Len(s) : s[j].type = "block.call"
NoDetach(s) == \A i \in DOMAIN s : s[i].type # "probe.detach"

LEMMA EventTypes ==
  /\ Attach.type = "probe.attach" /\ Detach.type = "probe.detach"
  /\ BlockCall.type = "block.call" /\ MemSample.type = "mem.sample" /\ GcPause.type = "gc.pause"
  /\ \A r : HttpRequest(r).type = "http.request"
  /\ \A q : DbQuery(q).type = "db.query"
  /\ \A n, m, final : LoopLag(n, m, final).type = "loop.lag"
  BY DEF Attach, Detach, BlockCall, MemSample, GcPause, HttpRequest, DbQuery, LoopLag

LEMMA BracketedParts ==
  \A s : Bracketed(s) <=> Order(s) /\ (phase # "exiting" => NoDetach(s))
  BY DEF Bracketed, Order, NoDetach

LEMMA AppendElements ==
  ASSUME NEW s \in Seq(Event), NEW e \in Event
  PROVE  /\ DOMAIN s = 1 .. Len(s) /\ Len(s) \in Nat
         /\ Append(s, e) \in Seq(Event) /\ Append(s, e) # <<>>
         /\ Len(Append(s, e)) = Len(s) + 1 /\ DOMAIN Append(s, e) = 1 .. Len(s) + 1
         /\ \A i \in 1 .. Len(s) : Append(s, e)[i] = s[i]
         /\ Append(s, e)[Len(s) + 1] = e
  BY AppendProperties, LenProperties

LEMMA OrderAppend ==
  ASSUME NEW s \in Seq(Event), NEW e \in Event, Order(s),
         (e.type = "probe.attach") <=> (s = <<>>),
         NoDetach(s) \/ e.type = "block.call"
  PROVE  /\ Order(Append(s, e))
         /\ NoDetach(s) /\ e.type # "probe.detach" => NoDetach(Append(s, e))
  <1>. DEFINE t == Append(s, e)
  <1>1. /\ DOMAIN s = 1 .. Len(s) /\ Len(s) \in Nat /\ Len(t) = Len(s) + 1
        /\ DOMAIN t = 1 .. Len(s) + 1
        /\ \A i \in 1 .. Len(s) : t[i] = s[i]
        /\ t[Len(s) + 1] = e
    BY AppendElements
  <1>2. s = <<>> <=> Len(s) + 1 = 1
    BY <1>1, EmptySeq
  <1>. HIDE DEF t
  <1>3. ASSUME NEW i \in 1 .. Len(s)
        PROVE  /\ (t[i].type = "probe.attach") <=> (i = 1)
               /\ t[i].type = "probe.detach" => \A j \in i + 1 .. Len(t) : t[j].type = "block.call"
    <2>1. t[i] = s[i] /\ i \in DOMAIN s
      BY <1>1
    <2>2. ASSUME t[i].type = "probe.detach", NEW j \in i + 1 .. Len(t)
          PROVE  t[j].type = "block.call"
      <3>1. e.type = "block.call"
        BY <2>1, <2>2 DEF NoDetach
      <3>2. j \in 1 .. Len(s) \/ j = Len(s) + 1
        BY <1>1
      <3>3. CASE j = Len(s) + 1
        BY <1>1, <3>1, <3>3
      <3>4. CASE j \in 1 .. Len(s)
        <4>1. j \in i + 1 .. Len(s) /\ t[j] = s[j]
          BY <1>1, <3>4
        <4>. QED  BY <2>1, <2>2, <4>1 DEF Order
      <3>. QED  BY <3>2, <3>3, <3>4
    <2>. QED  BY <2>1, <2>2 DEF Order
  <1>4. ASSUME NEW i, i = Len(s) + 1
        PROVE  /\ (t[i].type = "probe.attach") <=> (i = 1)
               /\ t[i].type = "probe.detach" => \A j \in i + 1 .. Len(t) : t[j].type = "block.call"
    BY <1>1, <1>2, <1>4
  <1>5. \A i \in DOMAIN t : i \in 1 .. Len(s) \/ i = Len(s) + 1
    BY <1>1
  <1>6. Order(t)
    BY <1>3, <1>4, <1>5 DEF Order
  <1>7. NoDetach(s) /\ e.type # "probe.detach" => NoDetach(t)
    BY <1>1, <1>5 DEF NoDetach
  <1>. QED  BY <1>6, <1>7 DEF t

LEMMA OrderPrefix ==
  ASSUME NEW s \in Seq(Event), NEW t \in Seq(Event), Len(t) <= Len(s),
         \A i \in 1 .. Len(t) : t[i] = s[i], Order(s)
  PROVE  Order(t) /\ (NoDetach(s) => NoDetach(t))
  <1>1. /\ DOMAIN s = 1 .. Len(s) /\ DOMAIN t = 1 .. Len(t) /\ Len(s) \in Nat /\ Len(t) \in Nat
    BY LenProperties
  <1>2. ASSUME NEW i \in DOMAIN t
        PROVE  i \in DOMAIN s /\ t[i] = s[i]
               /\ \A j \in i + 1 .. Len(t) : j \in i + 1 .. Len(s) /\ t[j] = s[j]
    BY <1>1
  <1>. QED  BY <1>2 DEF Order, NoDetach

-----------------------------------------------------------------------------
(* The lines of a process are bracketed by its start and its end.          *)

LEMMA LifecycleKept ==
  ASSUME TypeOK, LifecycleInv, Keeps \/ Loses, UNCHANGED envVars,
         InSession(FALSE)' <=> InSession(FALSE), phase = "exiting" => phase' = "exiting"
  PROVE  LifecycleInv'
  <1>1. Written \in Seq(Event)
    BY WrittenType
  <1>2. CASE Keeps
    BY <1>2, BracketedParts DEF LifecycleInv, Keeps, envVars, Bracketed
  <1>3. CASE Loses
    <2>1. Written' \in Seq(Event) /\ Len(Written') <= Len(Written) /\ ~recordable'
          /\ \A i \in 1 .. Len(Written') : Written'[i] = Written[i]
      BY <1>3 DEF Loses
    <2>2. Order(Written) /\ (phase # "exiting" => NoDetach(Written))
      BY BracketedParts DEF LifecycleInv
    <2>3. Order(Written') /\ (NoDetach(Written) => NoDetach(Written'))
      BY <1>1, <2>1, <2>2, OrderPrefix
    <2>4. Bracketed(Written)'
      BY <2>2, <2>3 DEF Bracketed, Order, NoDetach
    <2>5. ~inSession' => Written' = <<>>
      <3>1. ~inSession' => Len(Written) = 0
        BY EmptySeq DEF LifecycleInv, envVars
      <3>2. Len(Written') \in Nat /\ Len(Written) \in Nat
        BY <1>1, <2>1, LenProperties
      <3>3. Len(Written) = 0 => Len(Written') = 0
        BY <2>1, <3>2
      <3>. QED  BY <2>1, <3>1, <3>3, EmptySeq
    <2>. QED  BY <2>1, <2>4, <2>5 DEF LifecycleInv
  <1>. QED  BY <1>2, <1>3

LEMMA LifecycleRecords ==
  ASSUME TypeOK, LifecycleInv, InSession(FALSE), NEW e \in Event, Records(e),
         UNCHANGED <<envVars, phase>>,
         e.type \notin {"probe.attach", "probe.detach"},
         phase = "running" \/ e.type = "block.call"
  PROVE  LifecycleInv'
  <1>1. inSession /\ (InSession(FALSE)' <=> InSession(FALSE))
    BY DEF InSession, envVars
  <1>2. CASE ~recordable
    BY <1>1, <1>2, LifecycleKept DEF Keeps, Records
  <1>3. CASE recordable
    <2>1. Written \in Seq(Event) /\ Written # <<>> /\ recordable' = recordable
          /\ Written' = Append(Written, e)
      BY <1>3, WrittenType DEF LifecycleInv, Records
    <2>2. Order(Written) /\ (phase # "exiting" => NoDetach(Written))
      BY BracketedParts DEF LifecycleInv
    <2>3. Order(Written') /\ (NoDetach(Written) => NoDetach(Written'))
      BY <2>1, <2>2, OrderAppend
    <2>4. Bracketed(Written)'
      BY <2>2, <2>3 DEF Bracketed, Order, NoDetach
    <2>5. Written' # <<>>
      BY <2>1, AppendElements
    <2>. QED  BY <1>1, <2>4, <2>5 DEF LifecycleInv, envVars
  <1>. QED  BY <1>2, <1>3

LEMMA LifecycleInit == Init => LifecycleInv
  <1>. SUFFICES ASSUME Init PROVE LifecycleInv
    OBVIOUS
  <1>1. Written = <<>> /\ phase = "preload"
    <2>1. toWrite = <<>> /\ lines = <<>> /\ phase = "preload"
      BY Zenon DEF Init
    <2>. QED  BY <2>1 DEF Written
  <1>. QED  BY <1>1 DEF LifecycleInv, InSession, Bracketed

LEMMA LifecycleNext == TypeOK /\ StageInv /\ LifecycleInv /\ [Next]_vars => LifecycleInv'
  <1>. SUFFICES ASSUME TypeOK, StageInv, LifecycleInv, [Next]_vars PROVE LifecycleInv'
    OBVIOUS
  <1>0. Written \in Seq(Event)
    BY WrittenType
  <1>1. CASE UNCHANGED vars
    <2>1. UNCHANGED <<fileVars, toWrite>> /\ UNCHANGED envVars /\ phase' = phase
      BY <1>1 DEF vars
    <2>. QED  BY <2>1, Silent, LifecycleKept DEF InSession, envVars
  <1>2. CASE Preload
    <2>1. /\ Written = <<>> /\ phase' = "running" /\ UNCHANGED envVars
          /\ IF inSession THEN Records(Attach) ELSE Keeps
      BY <1>2, PreloadWrites DEF Preload, LoadHook, StageInv
    <2>2. CASE ~inSession
      BY <2>1, <2>2 DEF LifecycleInv, Keeps, InSession, envVars, Bracketed
    <2>3. CASE inSession /\ ~recordable
      BY <2>1, <2>3 DEF LifecycleInv, Records, InSession, envVars, Bracketed
    <2>4. CASE inSession /\ recordable
      <3>1. Written' = Append(Written, Attach) /\ Attach \in Event /\ Attach.type = "probe.attach"
        BY <2>1, <2>4, EventsOfTheHook, EventTypes DEF Records
      <3>2. Order(Written) /\ NoDetach(Written)
        BY <2>1 DEF Order, NoDetach
      <3>3. Order(Written') /\ NoDetach(Written')
        BY <1>0, <2>1, <3>1, <3>2, OrderAppend
      <3>4. Written' # <<>>
        BY <1>0, <3>1, AppendElements
      <3>5. Bracketed(Written)'
        BY <3>3 DEF Bracketed, Order, NoDetach
      <3>. QED  BY <2>1, <2>4, <3>4, <3>5 DEF LifecycleInv, envVars
    <2>. QED  BY <2>2, <2>3, <2>4
  <1>3. ASSUME Next, ~Preload
        PROVE  LifecycleInv'
    <2>1. /\ UNCHANGED envVars /\ (InSession(FALSE)' <=> InSession(FALSE))
          /\ phase = "exiting" => phase' = "exiting"
      BY <1>3, Later
    <2>2. CASE Keeps \/ Loses
      BY <2>1, <2>2, LifecycleKept
    <2>3. CASE InSession(FALSE) /\ Work
      <3>1. ASSUME NEW e \in Event, Records(e), phase' = phase,
                   e.type \notin {"probe.attach", "probe.detach"},
                   phase = "running" \/ e.type = "block.call"
            PROVE  LifecycleInv'
        BY <2>1, <2>3, <3>1, LifecycleRecords
      <3>2. CASE LagTimer /\ Windows(FALSE)
        <4>1. phase' = phase /\ phase = "running"
          BY <3>2, Zenon DEF LagTimer, Idle
        <4>2. PICK n \in Nat, total \in Nat : Records(LoopLag(n, total, FALSE))
          BY <3>2 DEF Windows
        <4>. QED  BY <3>1, <4>1, <4>2, EventsOfTheHook, EventTypes
      <3>3. CASE MemoryCollector /\ \E e \in {MemSample, GcPause} : Records(e)
        <4>1. phase' = phase /\ phase = "running"
          BY <3>3 DEF MemoryCollector, Idle
        <4>. QED  BY <3>1, <3>3, <4>1, EventsOfTheHook, EventTypes
      <3>4. CASE Leave /\ Records(BlockCall)
        <4>1. phase' = phase
          BY <3>4 DEF Leave
        <4>. QED  BY <3>1, <3>4, <4>1, EventsOfTheHook, EventTypes
      <3>5. ASSUME NEW r \in Requests, Finish(r), Records(HttpRequest(r))
            PROVE  LifecycleInv'
        <4>1. phase' = phase /\ phase = "running"
          BY <3>5 DEF Finish, Idle
        <4>. QED  BY <3>1, <3>5, <4>1, EventsOfWork, EventTypes
      <3>6. ASSUME NEW q \in Queries, EndQuery(q), Records(DbQuery(q))
            PROVE  LifecycleInv'
        <4>1. phase' = phase /\ phase = "running"
          BY <3>6 DEF EndQuery, Idle
        <4>. QED  BY <3>1, <3>6, <4>1, EventsOfWork, EventTypes
      <3>7. CASE Exit /\ ((Windows(TRUE) /\ recordable) \/ Records(Detach))
        <4>1. phase = "running" /\ phase' = "exiting"
          BY <3>7, Zenon DEF Exit, Idle
        <4>2. Order(Written) /\ NoDetach(Written)
          BY <4>1, BracketedParts DEF LifecycleInv
        <4>3. CASE Records(Detach) /\ ~recordable
          BY <2>1, <4>1, <4>3, LifecycleKept DEF Records, Keeps
        <4>4. Written # <<>> \/ ~recordable
          BY <2>3 DEF LifecycleInv
        <4>5. CASE Records(Detach) /\ recordable
          <5>1. Written' = Append(Written, Detach) /\ Detach \in Event /\ Detach.type = "probe.detach"
            BY <4>5, EventsOfTheHook, EventTypes DEF Records
          <5>2. Order(Written') /\ Written' # <<>>
            BY <1>0, <4>2, <4>4, <4>5, <5>1, OrderAppend, AppendElements
          <5>. QED  BY <2>1, <2>3, <4>1, <5>2 DEF LifecycleInv, Bracketed, Order, InSession, envVars
        <4>6. CASE Windows(TRUE) /\ recordable
          <5>1. PICK n \in Nat, total \in Nat :
                  Written' = Append(Append(Written, LoopLag(n, total, TRUE)), Detach)
            BY <4>6 DEF Windows
          <5>. DEFINE lag == LoopLag(n, total, TRUE)
          <5>2. /\ lag \in Event /\ lag.type = "loop.lag"
                /\ Detach \in Event /\ Detach.type = "probe.detach"
            BY EventsOfTheHook, EventTypes
          <5>. HIDE DEF lag
          <5>. DEFINE w == Append(Written, lag)
          <5>3. w \in Seq(Event) /\ w # <<>> /\ Order(w) /\ NoDetach(w)
            BY <1>0, <4>2, <4>4, <4>6, <5>2, OrderAppend, AppendElements
          <5>. HIDE DEF w
          <5>4. Order(Append(w, Detach)) /\ Append(w, Detach) # <<>>
            BY <5>2, <5>3, OrderAppend, AppendElements
          <5>5. Order(Written') /\ Written' # <<>>
            BY <5>1, <5>4 DEF w, lag
          <5>. QED  BY <2>1, <2>3, <4>1, <5>5 DEF LifecycleInv, Bracketed, Order, InSession, envVars
        <4>. QED  BY <3>7, <4>3, <4>5, <4>6
      <3>. QED  BY <2>3, <3>2, <3>3, <3>4, <3>5, <3>6, <3>7 DEF Work
    <2>. QED  BY <1>3, <2>2, <2>3, StepWrites
  <1>. QED  BY <1>1, <1>2, <1>3

LEMMA WrittenPrefix ==
  ASSUME TypeOK
  PROVE  /\ lines \in Seq(Event) /\ Written \in Seq(Event) /\ Len(lines) <= Len(Written)
         /\ \A i \in 1 .. Len(lines) : lines[i] = Written[i]
         /\ DOMAIN lines = 1 .. Len(lines) /\ DOMAIN Written = 1 .. Len(Written)
         /\ Len(lines) \in Nat /\ Len(Written) \in Nat
  <1>1. lines \in Seq(Event) /\ toWrite \in Seq(Event) /\ Written \in Seq(Event)
    BY WrittenType DEF TypeOK
  <1>2. /\ Len(Written) = Len(lines) + Len(toWrite) /\ Len(lines) \in Nat /\ Len(toWrite) \in Nat
        /\ \A i \in 1 .. Len(lines) + Len(toWrite) :
             Written[i] = IF i <= Len(lines) THEN lines[i] ELSE toWrite[i - Len(lines)]
    BY <1>1, ConcatProperties, LenProperties DEF Written
  <1>. QED  BY <1>1, <1>2, LenProperties

(* The lines of every process start with its attach, it detaches at most    *)
(* once and only on exit, and only calls of its exit listeners follow.      *)
THEOREM Lifecycle == Spec => []LifecycleOrder
  <1>1. Spec => []LifecycleInv
    BY LifecycleInit, LifecycleNext, Types, Stages, PTL DEF Spec
  <1>2. TypeOK /\ LifecycleInv => LifecycleOrder
    <2>. SUFFICES ASSUME TypeOK, LifecycleInv PROVE LifecycleOrder
      OBVIOUS
    <2>1. Order(Written) /\ (phase # "exiting" => NoDetach(Written))
      BY BracketedParts DEF LifecycleInv
    <2>2. Order(lines) /\ (NoDetach(Written) => NoDetach(lines))
      BY <2>1, WrittenPrefix, OrderPrefix
    <2>. QED  BY <2>1, <2>2, BracketedParts DEF LifecycleOrder
  <1>. QED  BY <1>1, <1>2, Types, PTL

-----------------------------------------------------------------------------
(* Every request's line counts its own queries.  The parts of QueryInv:     *)
(* what a line says, what an open store counts, and what is known of a      *)
(* query.                                                                   *)
Fits(e) ==
  /\ e.type = "http.request" => /\ req[e.request] = "finished"
                                /\ e.dbQueries = Cardinality(Counted(e.request))
  /\ e.type = "db.query" =>
       /\ query[e.query].state = "done"
       /\ Works("http") => (e.attributed <=> query[e.query].by # NoRequest)
LinesFit == \A i \in DOMAIN Written : Fits(Written[i])
StoresCount ==
  \A r \in Requests : req[r] = "open" /\ store[r] # NoStore => store[r] = Cardinality(Counted(r))
QueryKnown(q) ==
  /\ query[q].inTime => query[q].by \in Requests /\ req[query[q].by] # "new"
  /\ query[q].state = "idle" => ~query[q].inTime
  /\ Works("http") /\ query[q].state # "idle" => (query[q].scoped <=> query[q].by # NoRequest)
StoresExist ==
  \A r \in Requests : /\ req[r] = "new" => store[r] = NoStore
                      /\ Works("http") /\ req[r] # "new" => store[r] # NoStore

LEMMA QueryParts ==
  QueryInv <=> /\ StoresCount /\ StoresExist /\ LinesFit
               /\ \A q \in Queries : QueryKnown(q)
  BY DEF QueryInv, StoresCount, StoresExist, LinesFit, QueryKnown, Fits, QueriesStay

(* What a line says of finished requests and ended queries stays true.      *)
LEMMA FitsLater ==
  ASSUME NEW e \in Event, Fits(e), Works("http")' => Works("http"),
         \A r \in Requests : req[r] = "finished" =>
           req'[r] = "finished" /\ Counted(r)' = Counted(r),
         \A q \in Queries : query[q].state = "done" => query'[q] = query[q]
  PROVE  Fits(e)'
  <1>1. CASE e.type = "http.request"
    <2>1. e.request \in Requests
      BY <1>1 DEF Event
    <2>2. Counted(e.request)' = Counted(e.request) /\ req'[e.request] = "finished"
      BY <1>1, <2>1 DEF Fits
    <2>. QED  BY <1>1, <2>2 DEF Fits
  <1>2. CASE e.type = "db.query"
    <2>1. e.query \in Queries
      BY <1>2 DEF Event
    <2>. QED  BY <1>2, <2>1 DEF Fits
  <1>. QED  BY <1>1, <1>2 DEF Fits

LEMMA WrittenElements ==
  ASSUME TypeOK
  PROVE  /\ DOMAIN Written = 1 .. Len(Written) /\ Len(Written) \in Nat
         /\ \A i \in DOMAIN Written : Written[i] \in Event
  <1>1. Written \in Seq(Event)
    BY WrittenType
  <1>2. DOMAIN Written = 1 .. Len(Written) /\ Len(Written) \in Nat
    BY <1>1, LenProperties
  <1>3. ASSUME NEW i \in DOMAIN Written
        PROVE  Written[i] \in Event
    BY <1>1, <1>2, <1>3, ElementOfSeq
  <1>. QED  BY <1>2, <1>3

LEMMA LinesFitLater ==
  ASSUME TypeOK, LinesFit, Works("http")' => Works("http"),
         \A r \in Requests : req[r] = "finished" =>
           req'[r] = "finished" /\ Counted(r)' = Counted(r),
         \A q \in Queries : query[q].state = "done" => query'[q] = query[q],
         \/ Keeps \/ Loses
         \/ \E e \in Event : Records(e) /\ Fits(e)'
         \/ \E e \in Event, f \in Event :
              Written' = Append(Append(Written, e), f) /\ Fits(e)' /\ Fits(f)'
  PROVE  LinesFit'
  <1>1. /\ Written \in Seq(Event) /\ DOMAIN Written = 1 .. Len(Written) /\ Len(Written) \in Nat
        /\ \A i \in 1 .. Len(Written) : Written[i] \in Event /\ Fits(Written[i])
    BY WrittenType, WrittenElements DEF LinesFit
  <1>2. ASSUME NEW e \in Event, Fits(e)
        PROVE  Fits(e)'
    BY <1>2, FitsLater
  <1>3. \A i \in 1 .. Len(Written) : \E e \in Event : Written[i] = e /\ Fits(e)'
    BY <1>1, <1>2
  <1>4. SUFFICES ASSUME NEW i \in DOMAIN Written'
                 PROVE  \E e \in Event : Written'[i] = e /\ Fits(e)'
    BY DEF LinesFit
  <1>5. CASE Keeps
    BY <1>1, <1>3, <1>5 DEF Keeps
  <1>6. CASE Loses
    <2>1. /\ DOMAIN Written' = 1 .. Len(Written') /\ Len(Written') \in Nat
          /\ Len(Written') <= Len(Written)
          /\ \A k \in 1 .. Len(Written') : Written'[k] = Written[k]
      BY <1>6, LenProperties DEF Loses
    <2>2. i \in 1 .. Len(Written') /\ Written'[i] = Written[i]
      BY <2>1
    <2>3. \A m \in Nat, n \in Nat : m <= n => 1 .. m \subseteq 1 .. n
      OBVIOUS
    <2>4. i \in 1 .. Len(Written)
      BY <1>1, <2>1, <2>2, <2>3
    <2>. QED  BY <1>3, <2>2, <2>4
  <1>7. ASSUME NEW e \in Event, Written' = Append(Written, e), Fits(e)'
        PROVE  \E g \in Event : Written'[i] = g /\ Fits(g)'
    <2>1. /\ DOMAIN Written' = 1 .. Len(Written) + 1 /\ Written'[Len(Written) + 1] = e
          /\ \A k \in 1 .. Len(Written) : Written'[k] = Written[k]
      BY <1>1, <1>7, AppendElements
    <2>2. i \in 1 .. Len(Written) \/ i = Len(Written) + 1
      BY <1>1, <2>1
    <2>. QED  BY <1>3, <1>7, <2>1, <2>2
  <1>8. ASSUME NEW e \in Event, NEW f \in Event,
               Written' = Append(Append(Written, e), f), Fits(e)', Fits(f)'
        PROVE  \E g \in Event : Written'[i] = g /\ Fits(g)'
    <2>. DEFINE w == Append(Written, e)
    <2>1. /\ w \in Seq(Event) /\ Len(w) = Len(Written) + 1 /\ w[Len(Written) + 1] = e
          /\ \A k \in 1 .. Len(Written) : w[k] = Written[k]
      BY <1>1, AppendElements
    <2>2. Written' = Append(w, f)
      BY <1>8
    <2>. HIDE DEF w
    <2>3. /\ DOMAIN Written' = 1 .. Len(w) + 1 /\ Written'[Len(w) + 1] = f
          /\ \A k \in 1 .. Len(w) : Written'[k] = w[k]
      BY <2>1, <2>2, AppendElements
    <2>4. \/ i \in 1 .. Len(Written) /\ Written'[i] = Written[i]
          \/ i = Len(Written) + 1 /\ Written'[i] = e
          \/ i = Len(w) + 1 /\ Written'[i] = f
      BY <1>1, <2>1, <2>3
    <2>. QED  BY <1>3, <1>8, <2>4
  <1>9. CASE \E e \in Event : Records(e) /\ Fits(e)'
    BY <1>5, <1>7, <1>9 DEF Records, Keeps
  <1>. QED  BY <1>5, <1>6, <1>8, <1>9

LEMMA QueryInit == Init => QueryInv
  <1>. SUFFICES ASSUME Init PROVE QueryInv
    OBVIOUS
  <1>1. Written = <<>> /\ phase = "preload"
    <2>1. toWrite = <<>> /\ lines = <<>> /\ phase = "preload"
      BY Zenon DEF Init
    <2>. QED  BY <2>1 DEF Written
  <1>2. /\ \A r \in Requests : req[r] = "new"
        /\ \A q \in Queries : query[q].state = "idle" /\ ~query[q].inTime
    BY DEF Init
  <1>3. \A r \in Requests : store[r] = NoStore
    BY DEF Init
  <1>4. LinesFit
    BY <1>1 DEF LinesFit
  <1>. QED  BY <1>1, <1>2, <1>3, <1>4, QueryParts DEF StoresCount, StoresExist, QueryKnown, Works

(* Steps that do not touch requests, their stores or queries.               *)
LEMMA QueryKept ==
  ASSUME TypeOK, QueryInv, Works("http")' => Works("http"), UNCHANGED httpVars, query' = query,
         \/ Keeps \/ Loses
         \/ \E e \in Event : Records(e) /\ e.type \notin {"http.request", "db.query"}
         \/ \E e \in Event, f \in Event :
              /\ Written' = Append(Append(Written, e), f)
              /\ {e.type, f.type} \cap {"http.request", "db.query"} = {}
  PROVE  QueryInv'
  <1>1. StoresCount /\ StoresExist /\ LinesFit /\ \A q \in Queries : QueryKnown(q)
    BY QueryParts
  <1>2. req' = req /\ store' = store /\ \A r : Counted(r)' = Counted(r)
    BY DEF httpVars, Counted
  <1>3. StoresCount' /\ StoresExist'
    BY <1>1, <1>2 DEF StoresCount, StoresExist
  <1>4. ASSUME NEW q \in Queries
        PROVE  QueryKnown(q)'
    BY <1>1, <1>2 DEF QueryKnown
  <1>5. \A e : e.type \notin {"http.request", "db.query"} => Fits(e)'
    BY DEF Fits
  <1>6. LinesFit'
    BY <1>1, <1>2, <1>5, LinesFitLater
  <1>. QED  BY <1>3, <1>4, <1>6, QueryParts DEF QueryInv, StoresCount, StoresExist, LinesFit,
             QueryKnown, Fits, QueriesStay

LEMMA HttpWorks ==
  ASSUME StageInv, Works("http")
  PROVE  "http" \in installed /\ "http" \notin disabled
  <1>1. "http" \in Collectors
    BY Zenon DEF Collectors
  <1>. QED  BY <1>1 DEF StageInv, Works, InSession, Installed

(* A request begins, ends or breaks off.                                    *)
LEMMA NothingCounted ==
  ASSUME NEW r \in Requests, req[r] = "new", QueryInv
  PROVE  Counted(r) = {} /\ Cardinality(Counted(r)) = 0
  <1>1. \A q \in Queries : query[q].by = r => ~query[q].inTime
    BY QueryParts DEF QueryKnown
  <1>2. Counted(r) = {}
    BY <1>1 DEF Counted
  <1>. QED  BY <1>2, FS_EmptySet

LEMMA QueryDispatch ==
  ASSUME TypeOK, StageInv, QueryInv, NEW r \in Requests, Dispatch(r),
         Works("http")' => Works("http")
  PROVE  QueryInv'
  <1>1. StoresCount /\ StoresExist /\ LinesFit /\ \A q \in Queries : QueryKnown(q)
    BY QueryParts
  <1>2. /\ req[r] = "new" /\ req' = [req EXCEPT ![r] = "open"] /\ UNCHANGED query
        /\ store' = IF "http" \in installed /\ "http" \notin disabled
                      THEN [store EXCEPT ![r] = 0] ELSE store
        /\ UNCHANGED <<fileVars, toWrite>>
    BY DEF Dispatch, FreshStore, dbVars
  <1>3. /\ req'[r] = "open" /\ \A s \in Requests \ {r} : req'[s] = req[s] /\ store'[s] = store[s]
        /\ \A s : Counted(s)' = Counted(s)
        /\ store[r] = NoStore
        /\ store'[r] \in {0, NoStore}
        /\ "http" \in installed /\ "http" \notin disabled => store'[r] = 0
    BY <1>1, <1>2 DEF TypeOK, Counted, StoresExist
  <1>4. StoresCount'
    <2>1. ASSUME NEW s \in Requests, req'[s] = "open", store'[s] # NoStore
          PROVE  store'[s] = Cardinality(Counted(s)')
      <3>1. CASE s # r
        BY <1>1, <1>3, <2>1, <3>1 DEF StoresCount
      <3>2. CASE s = r
        BY <1>2, <1>3, <2>1, <3>2, NothingCounted
      <3>. QED  BY <3>1, <3>2
    <2>. QED  BY <2>1 DEF StoresCount
  <1>5. StoresExist'
    <2>1. Works("http")' => store'[r] = 0 /\ Works("http")
      BY <1>3, HttpWorks
    <2>. QED  BY <1>1, <1>3, <2>1 DEF StoresExist, NoStore
  <1>6. ASSUME NEW q \in Queries
        PROVE  QueryKnown(q)'
    BY <1>1, <1>2, <1>3 DEF QueryKnown
  <1>7. LinesFit'
    BY <1>1, <1>2, <1>3, LinesFitLater, Silent
  <1>. QED  BY <1>4, <1>5, <1>6, <1>7, QueryParts DEF QueryInv, StoresCount, StoresExist, LinesFit,
             QueryKnown, Fits, QueriesStay

LEMMA QueryRequestEnds ==
  ASSUME TypeOK, StageInv, QueryInv, NEW r \in Requests, Finish(r) \/ Abort(r),
         Works("http")' => Works("http"),
         Keeps \/ (Finish(r) /\ Records(HttpRequest(r)))
  PROVE  QueryInv'
  <1>1. StoresCount /\ StoresExist /\ LinesFit /\ \A q \in Queries : QueryKnown(q)
    BY QueryParts
  <1>2. /\ req[r] = "open" /\ UNCHANGED <<query, store>>
        /\ \/ req' = [req EXCEPT ![r] = "finished"]
           \/ req' = [req EXCEPT ![r] = "aborted"] /\ ~Finish(r)
    BY DEF Finish, Abort, dbVars, httpVars
  <1>3. /\ req'[r] \in {"finished", "aborted"} /\ \A s \in Requests \ {r} : req'[s] = req[s]
        /\ \A s : Counted(s)' = Counted(s)
        /\ Finish(r) => req'[r] = "finished"
    BY <1>2 DEF TypeOK, Counted
  <1>4. StoresCount' /\ StoresExist'
    BY <1>1, <1>2, <1>3 DEF StoresCount, StoresExist
  <1>5. ASSUME NEW q \in Queries
        PROVE  QueryKnown(q)'
    BY <1>1, <1>2, <1>3 DEF QueryKnown
  <1>6. ASSUME Finish(r), Records(HttpRequest(r)), ~Keeps
        PROVE  \E e \in Event : Records(e) /\ Fits(e)'
    <2>1. store[r] # NoStore
      BY <1>6, Silent DEF Finish
    <2>2. store[r] = Cardinality(Counted(r))
      BY <1>1, <1>2, <2>1 DEF StoresCount
    <2>3. PICK e \in Event : e = HttpRequest(r)
      BY EventsOfWork
    <2>4. e.type = "http.request" /\ e.request = r /\ e.dbQueries = store[r]
      BY <2>3 DEF HttpRequest
    <2>5. Fits(e)'
      BY <1>3, <1>6, <2>2, <2>4 DEF Fits
    <2>. QED  BY <1>6, <2>3, <2>5
  <1>7. LinesFit'
    <2>1. CASE Keeps
      BY <1>1, <1>2, <1>3, <2>1, LinesFitLater
    <2>2. CASE ~Keeps
      <3>1. \E e \in Event : Records(e) /\ Fits(e)'
        BY <1>6, <2>2
      <3>. QED  BY <1>1, <1>2, <1>3, <3>1, LinesFitLater
    <2>. QED  BY <2>1, <2>2
  <1>. QED  BY <1>4, <1>5, <1>7, QueryParts DEF QueryInv, StoresCount, StoresExist, LinesFit,
             QueryKnown, Fits, QueriesStay

LEMMA CountedFinite ==
  \A r : IsFiniteSet(Counted(r)) /\ Cardinality(Counted(r)) \in Nat
  <1>. TAKE r
  <1>1. Counted(r) \in SUBSET Queries
    BY DEF Counted
  <1>2. IsFiniteSet(Counted(r))
    BY <1>1, HookAssumption, FS_Subset
  <1>. QED  BY <1>2, FS_CardinalityType

(* A query begins: it counts for its request, and only while that is open.  *)
LEMMA QueryStarts ==
  ASSUME TypeOK, StageInv, QueryInv, NEW q \in Queries, StartQuery(q),
         Works("http")' => Works("http")
  PROVE  QueryInv'
  <1>1. StoresCount /\ StoresExist /\ LinesFit /\ \A p \in Queries : QueryKnown(p)
    BY QueryParts
  <1>. PICK r \in {s \in Requests : req[s] # "new"} \cup {NoRequest},
            x \in {y \in Exports : wraps[y] # -1} :
         \E observers :
          /\ observers = IF "db-query" \in disabled THEN 0 ELSE wraps[x]
          /\ query' = [query EXCEPT ![q] =
               [state |-> "running", by |-> r, observers |-> observers,
                scoped |-> getStore(r), inTime |-> r # NoRequest /\ req[r] = "open"]]
          /\ Observe(r, observers)
    BY DEF StartQuery
  <1>2. PICK observers :
          /\ observers = IF "db-query" \in disabled THEN 0 ELSE wraps[x]
          /\ query' = [query EXCEPT ![q] =
               [state |-> "running", by |-> r, observers |-> observers,
                scoped |-> getStore(r), inTime |-> r # NoRequest /\ req[r] = "open"]]
          /\ Observe(r, observers)
    OBVIOUS
  <1>3. observers \in {0, 1}
    <2>1. wraps[x] \in {0, 1}
      BY <1>2 DEF TypeOK
    <2>. QED  BY <1>2, <2>1
  <1>4. /\ query[q].state = "idle" /\ ~query[q].inTime /\ UNCHANGED req
        /\ UNCHANGED <<fileVars, toWrite>>
    BY <1>1 DEF StartQuery, QueryKnown
  <1>5. /\ query'[q].state = "running" /\ query'[q].by = r /\ query'[q].observers = observers
        /\ query'[q].scoped = getStore(r)
        /\ (query'[q].inTime <=> r # NoRequest /\ req[r] = "open")
        /\ \A p \in Queries \ {q} : query'[p] = query[p]
    BY <1>2 DEF TypeOK
  <1>6. ASSUME NEW s \in Requests, s # r \/ req[s] # "open" \/ observers = 0
        PROVE  Counted(s)' = Counted(s)
    <2>1. q \notin Counted(s) /\ q \notin Counted(s)'
      <3>1. q \notin Counted(s)
        BY <1>4 DEF Counted
      <3>2. ~(query'[q].by = s /\ query'[q].inTime /\ query'[q].observers > 0)
        BY <1>3, <1>5, <1>6
      <3>. QED  BY <3>1, <3>2 DEF Counted
    <2>2. \A p \in Queries \ {q} : p \in Counted(s)' <=> p \in Counted(s)
      BY <1>5 DEF Counted
    <2>3. Counted(s) \subseteq Queries /\ Counted(s)' \subseteq Queries
      BY DEF Counted
    <2>. QED  BY <2>1, <2>2, <2>3
  <1>7. ASSUME r \in Requests, req[r] = "open", observers = 1
        PROVE  Cardinality(Counted(r)') = Cardinality(Counted(r)) + 1
    <2>1. q \notin Counted(r) /\ q \in Counted(r)'
      <3>1. q \notin Counted(r)
        BY <1>4 DEF Counted
      <3>2. query'[q].by = r /\ query'[q].inTime /\ query'[q].observers > 0
        BY <1>5, <1>7, HookAssumption
      <3>. QED  BY <3>1, <3>2 DEF Counted
    <2>2. \A p \in Queries \ {q} : p \in Counted(r)' <=> p \in Counted(r)
      BY <1>5 DEF Counted
    <2>3. Counted(r) \subseteq Queries /\ Counted(r)' \subseteq Queries
      BY DEF Counted
    <2>4. Counted(r)' = Counted(r) \cup {q}
      BY <2>1, <2>2, <2>3
    <2>. QED  BY <2>1, <2>4, CountedFinite, FS_AddElement
  <1>8. /\ \A s \in Requests \ {r} : store'[s] = store[s]
        /\ \A s \in Requests : store'[s] = NoStore <=> store[s] = NoStore
        /\ r \in Requests /\ store[r] # NoStore => store'[r] = store[r] + observers
    BY <1>2, <1>3, HookAssumption DEF TypeOK, Observe, NoStore
  <1>9. StoresCount'
    <2>1. ASSUME NEW s \in Requests, req[s] = "open", store'[s] # NoStore
          PROVE  store'[s] = Cardinality(Counted(s)')
      <3>1. store[s] = Cardinality(Counted(s)) /\ store[s] # NoStore
        BY <1>1, <1>8, <2>1 DEF StoresCount
      <3>2. CASE s # r
        BY <1>6, <1>8, <3>1, <3>2
      <3>3. CASE s = r /\ observers = 0
        <4>1. store'[s] = store[s] + 0
          BY <1>8, <3>1, <3>3
        <4>. QED  BY <1>6, <3>1, <3>3, <4>1, CountedFinite
      <3>4. CASE s = r /\ observers = 1
        <4>1. store'[s] = store[s] + 1
          BY <1>8, <3>1, <3>4
        <4>. QED  BY <1>7, <2>1, <3>1, <3>4, <4>1
      <3>. QED  BY <1>3, <3>2, <3>3, <3>4
    <2>. QED  BY <1>4, <2>1 DEF StoresCount
  <1>10. StoresExist'
    BY <1>1, <1>4, <1>8 DEF StoresExist
  <1>11. ASSUME NEW p \in Queries
         PROVE  QueryKnown(p)'
    <2>1. CASE p # q
      BY <1>1, <1>4, <1>5, <2>1 DEF QueryKnown
    <2>2. CASE p = q
      <3>1. r # NoRequest => r \in Requests /\ req[r] # "new"
        BY <1>2
      <3>2. Works("http") => (getStore(r) <=> r # NoRequest)
        BY <1>1, <3>1 DEF getStore, StoresExist
      <3>. QED  BY <1>4, <1>5, <2>2, <3>1, <3>2 DEF QueryKnown
    <2>. QED  BY <2>1, <2>2
  <1>12. LinesFit'
    <2>1. \A s \in Requests : req[s] = "finished" => req'[s] = "finished" /\ Counted(s)' = Counted(s)
      BY <1>4, <1>6
    <2>2. \A p \in Queries : query[p].state = "done" => query'[p] = query[p]
      BY <1>4, <1>5
    <2>. QED  BY <1>1, <1>4, <2>1, <2>2, LinesFitLater, Silent
  <1>. QED  BY <1>9, <1>10, <1>11, <1>12, QueryParts DEF QueryInv, StoresCount, StoresExist,
             LinesFit, QueryKnown, Fits, QueriesStay

LEMMA QueryEnds ==
  ASSUME TypeOK, StageInv, QueryInv, NEW q \in Queries, EndQuery(q),
         Works("http")' => Works("http"), Keeps \/ Records(DbQuery(q))
  PROVE  QueryInv'
  <1>1. StoresCount /\ StoresExist /\ LinesFit /\ \A p \in Queries : QueryKnown(p)
    BY QueryParts
  <1>2. /\ query[q].state = "running" /\ query' = [query EXCEPT ![q].state = "done"]
        /\ UNCHANGED <<req, store>>
    BY DEF EndQuery, httpVars
  <1>3. /\ query'[q].state = "done"
        /\ \A p \in Queries \ {q} : query'[p] = query[p]
        /\ \A p \in Queries : /\ query'[p].by = query[p].by /\ query'[p].inTime = query[p].inTime
                              /\ query'[p].observers = query[p].observers
                              /\ query'[p].scoped = query[p].scoped
                              /\ (query'[p].state = "idle" <=> query[p].state = "idle")
    BY <1>2 DEF TypeOK, QueryRecord
  <1>4. \A s : Counted(s)' = Counted(s)
    BY <1>3 DEF Counted
  <1>5. StoresCount' /\ StoresExist'
    BY <1>1, <1>2, <1>4 DEF StoresCount, StoresExist
  <1>6. ASSUME NEW p \in Queries
        PROVE  QueryKnown(p)'
    BY <1>1, <1>2, <1>3 DEF QueryKnown
  <1>7. PICK e \in Event : e = DbQuery(q)
    BY EventsOfWork
  <1>8. Fits(e)'
    <2>1. e.type = "db.query" /\ e.query = q /\ e.attributed = query[q].scoped
      BY <1>7 DEF DbQuery
    <2>2. Works("http") => (query[q].scoped <=> query[q].by # NoRequest)
      BY <1>1, <1>2 DEF QueryKnown
    <2>. QED  BY <1>3, <2>1, <2>2 DEF Fits
  <1>9. LinesFit'
    <2>1. \A s \in Requests : req[s] = "finished" => req'[s] = "finished" /\ Counted(s)' = Counted(s)
      BY <1>2, <1>4
    <2>2. \A p \in Queries : query[p].state = "done" => query'[p] = query[p]
      BY <1>2, <1>3
    <2>3. Keeps \/ \E f \in Event : Records(f) /\ Fits(f)'
      BY <1>7, <1>8
    <2>. QED  BY <1>1, <2>1, <2>2, <2>3, LinesFitLater
  <1>. QED  BY <1>5, <1>6, <1>9, QueryParts DEF QueryInv, StoresCount, StoresExist, LinesFit,
             QueryKnown, Fits, QueriesStay

LEMMA QueryPreload == TypeOK /\ StageInv /\ QueryInv /\ Preload => QueryInv'
  <1>. SUFFICES ASSUME TypeOK, StageInv, QueryInv, Preload PROVE QueryInv'
    OBVIOUS
  <1>1. StoresCount /\ StoresExist /\ LinesFit /\ \A q \in Queries : QueryKnown(q)
    BY QueryParts
  <1>2. /\ Written = <<>> /\ UNCHANGED <<req, store, query>>
        /\ \A r \in Requests : req[r] = "new"
        /\ \A q \in Queries : query[q].state = "idle"
    BY DEF StageInv, Preload, LoadHook, httpVars, dbVars
  <1>3. StoresCount' /\ StoresExist'
    BY <1>1, <1>2 DEF StoresCount, StoresExist
  <1>4. ASSUME NEW q \in Queries
        PROVE  QueryKnown(q)'
    BY <1>1, <1>2 DEF QueryKnown
  <1>5. LinesFit'
    <2>1. CASE Written' = <<>>
      BY <2>1 DEF LinesFit
    <2>2. CASE Written' = Append(<<>>, Attach)
      <3>1. DOMAIN Written' = 1 .. 1 /\ Written'[1].type = "probe.attach"
        BY <2>2, EventTypes
      <3>. QED  BY <3>1 DEF LinesFit, Fits
    <2>. QED  BY <1>2, <2>1, <2>2, PreloadWrites DEF Keeps, Records
  <1>. QED  BY <1>3, <1>4, <1>5, QueryParts DEF QueryInv, StoresCount, StoresExist, LinesFit,
             QueryKnown, Fits, QueriesStay

LEMMA QueryNext == TypeOK /\ StageInv /\ QueryInv /\ [Next]_vars => QueryInv'
  <1>. SUFFICES ASSUME TypeOK, StageInv, QueryInv, [Next]_vars PROVE QueryInv'
    OBVIOUS
  <1>1. CASE UNCHANGED vars
    <2>1. UNCHANGED <<httpVars, query, fileVars, toWrite>> /\ Works("http")' = Works("http")
      BY <1>1 DEF vars, httpVars, dbVars, Works, envVars
    <2>. QED  BY <2>1, Silent, QueryKept
  <1>2. CASE Preload
    BY <1>2, QueryPreload
  <1>3. ASSUME Next, ~Preload
        PROVE  QueryInv'
    <2>1. Works("http")' => Works("http")
      BY <1>3, Later
    <2>2. ASSUME NEW r \in Requests, Dispatch(r) \/ Finish(r) \/ Abort(r)
          PROVE  QueryInv'
      <3>1. CASE Dispatch(r)
        BY <2>1, <3>1, QueryDispatch
      <3>2. CASE Finish(r)
        <4>1. Finish(r) \/ Abort(r)
          BY <3>2
        <4>2. Keeps \/ (Finish(r) /\ Records(HttpRequest(r)))
          BY <3>2, FinishWrites
        <4>. QED  BY <2>1, <4>1, <4>2, QueryRequestEnds, Zenon
      <3>3. CASE Abort(r)
        <4>1. Keeps
          BY <3>3, Silent DEF Abort
        <4>2. Finish(r) \/ Abort(r)
          BY <3>3
        <4>3. Keeps \/ (Finish(r) /\ Records(HttpRequest(r)))
          BY <4>1
        <4>. QED  BY <2>1, <4>2, <4>3, QueryRequestEnds, Zenon
      <3>. QED  BY <2>2, <3>1, <3>2, <3>3
    <2>3. ASSUME NEW q \in Queries, StartQuery(q) \/ EndQuery(q)
          PROVE  QueryInv'
      <3>1. CASE StartQuery(q)
        BY <2>1, <3>1, QueryStarts
      <3>2. CASE EndQuery(q)
        BY <2>1, <3>2, EndQueryWrites, QueryEnds
      <3>. QED  BY <2>3, <3>1, <3>2
    <2>4. ASSUME \A r \in Requests : ~(Dispatch(r) \/ Finish(r) \/ Abort(r)),
                 \A q \in Queries : ~(StartQuery(q) \/ EndQuery(q))
          PROVE  QueryInv'
      <3>1. UNCHANGED <<httpVars, query>>
        <4>1. CASE LagTimer \/ MemoryCollector \/ Exit
          BY <4>1, Zenon DEF LagTimer, MemoryCollector, Exit, dbVars
        <4>2. CASE RequireAgain \/ AppendEvent \/ LoseEvent
          BY <4>2 DEF RequireAgain, LoadHook, AppendEvent, LoseEvent, dbVars
        <4>3. CASE Enter \/ Blocked \/ Leave \/ UnsupportedClient \/ \E x \in Exports : LoadClient(x)
          BY <4>3 DEF Enter, Blocked, Leave, UnsupportedClient, LoadClient, dbVars
        <4>. QED  BY <1>3, <2>4, <4>1, <4>2, <4>3 DEF Next
      <3>2. CASE Keeps \/ Loses
        BY <2>1, <3>1, <3>2, QueryKept
      <3>3. ASSUME NEW e \in Event, Records(e), e.type \notin {"http.request", "db.query"}
            PROVE  QueryInv'
        BY <2>1, <3>1, <3>3, QueryKept
      <3>4. CASE Work
        <4>1. CASE LagTimer /\ Windows(FALSE)
          BY <3>3, <4>1, EventsOfTheHook, EventTypes DEF Windows
        <4>2. CASE \E e \in {MemSample, GcPause, BlockCall, Detach} : Records(e)
          BY <3>3, <4>2, EventsOfTheHook, EventTypes
        <4>3. CASE Windows(TRUE)
          <5>1. PICK n \in Nat, total \in Nat :
                  Written' = Append(Append(Written, LoopLag(n, total, TRUE)), Detach)
            BY <4>3 DEF Windows
          <5>2. PICK e \in Event, f \in Event :
                  /\ e = LoopLag(n, total, TRUE) /\ e.type = "loop.lag"
                  /\ f = Detach /\ f.type = "probe.detach"
            BY EventsOfTheHook, EventTypes
          <5>3. \E d \in Event, g \in Event :
                  /\ Written' = Append(Append(Written, d), g)
                  /\ {d.type, g.type} \cap {"http.request", "db.query"} = {}
            BY <5>1, <5>2
          <5>. QED  BY <2>1, <3>1, <5>3, QueryKept
        <4>. QED  BY <2>4, <3>4, <4>1, <4>2, <4>3 DEF Work
      <3>. QED  BY <1>3, <3>2, <3>4, StepWrites
    <2>. QED  BY <2>2, <2>3, <2>4
  <1>. QED  BY <1>1, <1>2, <1>3

(* A request's line counts exactly the observed queries that its handler    *)
(* began before the response ended, and a query is attributed exactly when  *)
(* a request began it.                                                      *)
THEOREM Attribution == Spec => []QueriesStayWithTheirRequest
  <1>1. Spec => []QueryInv
    BY QueryInit, QueryNext, Types, Stages, PTL DEF Spec
  <1>2. TypeOK /\ QueryInv => QueriesStayWithTheirRequest
    <2>. SUFFICES ASSUME TypeOK, QueryInv PROVE QueriesStay(lines)
      BY DEF QueriesStayWithTheirRequest
    <2>1. /\ \A i \in DOMAIN Written : Fits(Written[i])
          /\ \A i \in DOMAIN lines : i \in DOMAIN Written /\ Written[i] = lines[i]
      <3>1. DOMAIN lines \subseteq DOMAIN Written
        BY WrittenPrefix
      <3>. QED  BY <3>1, WrittenPrefix, QueryParts DEF LinesFit
    <2>2. \A i \in DOMAIN lines : Fits(lines[i])
      BY <2>1
    <2>. QED  BY <2>2 DEF QueriesStay, Fits
  <1>. QED  BY <1>1, <1>2, Types, PTL

-----------------------------------------------------------------------------
(* The lag windows add up.  The parts of LagInv.                            *)
LagInstalled == "event-loop lag" \in installed
SumFits(s) == \A i \in DOMAIN s : s[i].type = "loop.lag" => AddsUp(s, i)
FlushFits(s) ==
  \A i \in DOMAIN s : s[i].type = "probe.detach" =>
    /\ i > 1 /\ s[i - 1].type = "loop.lag" /\ s[i - 1].final
    /\ s[i - 1].total = SamplesOf(totalHist)
SumOf(s)   == Samples(s)[Len(s)]
Flushes(s) == Cardinality(LagLines(s, Len(s)))
SumNow == recordable => Balanced(SumOf(Written), Flushes(Written), totalHist)

(* The lag lines among the first lines of a sequence.                       *)
LEMMA LagLinesType ==
  ASSUME NEW s, NEW n \in Nat
  PROVE  IsFiniteSet(LagLines(s, n)) /\ Cardinality(LagLines(s, n)) \in Nat
  <1>1. LagLines(s, n) \subseteq 1 .. n /\ IsFiniteSet(1 .. n)
    BY FS_Interval DEF LagLines
  <1>. QED  BY <1>1, FS_Subset, FS_CardinalityType

LEMMA LagLinesOfPrefix ==
  ASSUME NEW s, NEW t, NEW m \in Nat, \A i \in 1 .. m : t[i] = s[i]
  PROVE  \A n \in 0 .. m : LagLines(t, n) = LagLines(s, n)
  BY DEF LagLines

LEMMA LagLinesOfAppend ==
  ASSUME NEW s \in Seq(Event), NEW e \in Event
  PROVE  /\ \A n \in 0 .. Len(s) : LagLines(Append(s, e), n) = LagLines(s, n)
         /\ Flushes(Append(s, e)) = IF e.type = "loop.lag" THEN Flushes(s) + 1 ELSE Flushes(s)
         /\ Flushes(s) \in Nat
  <1>. DEFINE t == Append(s, e)
  <1>1. /\ Len(s) \in Nat /\ Len(t) = Len(s) + 1 /\ t[Len(s) + 1] = e
        /\ \A i \in 1 .. Len(s) : t[i] = s[i]
    BY AppendElements
  <1>. HIDE DEF t
  <1>2. \A n \in 0 .. Len(s) : LagLines(t, n) = LagLines(s, n)
    BY <1>1, LagLinesOfPrefix
  <1>3. IsFiniteSet(LagLines(s, Len(s))) /\ Flushes(s) \in Nat
    BY <1>1, LagLinesType DEF Flushes
  <1>4. LagLines(t, Len(t)) = IF e.type = "loop.lag" THEN LagLines(s, Len(s)) \cup {Len(t)}
                                                   ELSE LagLines(s, Len(s))
    BY <1>1 DEF LagLines
  <1>5. Len(t) \notin LagLines(s, Len(s))
    BY <1>1 DEF LagLines
  <1>6. Flushes(t) = IF e.type = "loop.lag" THEN Flushes(s) + 1 ELSE Flushes(s)
    BY <1>3, <1>4, <1>5, FS_AddElement DEF Flushes
  <1>. QED  BY <1>2, <1>3, <1>6 DEF t

LEMMA LagParts ==
  LagInv <=> SumFits(Written) /\ (LagInstalled => FlushFits(Written)) /\ SumNow
  <1>1. ASSUME LagInv
        PROVE  SumFits(Written) /\ (LagInstalled => FlushFits(Written)) /\ SumNow
    BY <1>1, Zenon DEF LagInv, LagInstalled, SumFits, FlushFits, SumNow, SumOf, Flushes
  <1>2. ASSUME SumFits(Written), LagInstalled => FlushFits(Written), SumNow
        PROVE  LagInv
    BY <1>2, Zenon DEF LagInv, LagInstalled, SumFits, FlushFits, SumNow, SumOf, Flushes
  <1>. QED  BY <1>1, <1>2

LEMMA SumPrefix ==
  ASSUME NEW s \in Seq(Event), NEW t \in Seq(Event), Len(t) <= Len(s),
         \A i \in 1 .. Len(t) : t[i] = s[i], SumFits(s)
  PROVE  SumFits(t) /\ (FlushFits(s) => FlushFits(t))
  <1>1. /\ DOMAIN s = 1 .. Len(s) /\ DOMAIN t = 1 .. Len(t) /\ Len(s) \in Nat /\ Len(t) \in Nat
        /\ Len(t) \in 0 .. Len(t)
    BY LenProperties
  <1>2. \A n \in 0 .. Len(t) : Samples(t)[n] = Samples(s)[n]
    BY <1>1, SamplesOfPrefix
  <1>3. \A n \in 0 .. Len(t) : LagLines(t, n) = LagLines(s, n)
    BY <1>1, LagLinesOfPrefix
  <1>4. ASSUME NEW i \in DOMAIN t
        PROVE  /\ i \in DOMAIN s /\ t[i] = s[i] /\ Samples(t)[i] = Samples(s)[i]
               /\ LagLines(t, i) = LagLines(s, i) /\ (i > 1 => t[i - 1] = s[i - 1])
    BY <1>1, <1>2, <1>3
  <1>5. SumFits(t)
    BY <1>4 DEF SumFits, AddsUp
  <1>6. FlushFits(s) => FlushFits(t)
    BY <1>4 DEF FlushFits
  <1>. QED  BY <1>5, <1>6

(* An event more: a lag window has to meet its total, a detach the flush    *)
(* before it.                                                               *)
LEMMA SumAppend ==
  ASSUME NEW s \in Seq(Event), NEW e \in Event, SumFits(s),
         e.type = "loop.lag" =>
           LET sum == SumOf(s) + WindowOf(e) IN
           sum - 1 <= e.total /\ e.total <= sum + (Flushes(s) + 1)
  PROVE  /\ SumFits(Append(s, e))
         /\ SumOf(Append(s, e)) = SumOf(s) + WindowOf(e)
  <1>. DEFINE t == Append(s, e)
  <1>1. /\ DOMAIN s = 1 .. Len(s) /\ Len(s) \in Nat /\ Len(t) = Len(s) + 1
        /\ DOMAIN t = 1 .. Len(s) + 1 /\ t[Len(s) + 1] = e
        /\ \A i \in 1 .. Len(s) : t[i] = s[i]
    BY AppendElements
  <1>2. /\ \A n \in 0 .. Len(s) : Samples(t)[n] = Samples(s)[n]
        /\ SumOf(t) = SumOf(s) + WindowOf(e)
    BY <1>1, SamplesOfAppend DEF SumOf
  <1>3. /\ \A n \in 0 .. Len(s) : LagLines(t, n) = LagLines(s, n)
        /\ e.type = "loop.lag" => Flushes(t) = Flushes(s) + 1
    BY LagLinesOfAppend
  <1>. HIDE DEF t
  <1>4. ASSUME NEW i \in DOMAIN t, t[i].type = "loop.lag"
        PROVE  AddsUp(t, i)
    <2>1. i \in 1 .. Len(s) \/ i = Len(s) + 1
      BY <1>1
    <2>2. CASE i \in 1 .. Len(s)
      <3>1. /\ t[i] = s[i] /\ Samples(t)[i] = Samples(s)[i] /\ i \in DOMAIN s
            /\ LagLines(t, i) = LagLines(s, i)
        BY <1>1, <1>2, <1>3, <2>2
      <3>. QED  BY <1>4, <3>1 DEF SumFits, AddsUp
    <2>3. CASE i = Len(s) + 1
      <3>1. /\ t[i] = e /\ Samples(t)[i] = SumOf(s) + WindowOf(e)
            /\ Cardinality(LagLines(t, i)) = Flushes(s) + 1
        BY <1>1, <1>2, <1>3, <1>4, <2>3 DEF SumOf, Flushes
      <3>. QED  BY <1>4, <3>1 DEF AddsUp
    <2>. QED  BY <2>1, <2>2, <2>3
  <1>5. SumFits(t)
    BY <1>4 DEF SumFits
  <1>. QED  BY <1>2, <1>5 DEF t

LEMMA FlushAppend ==
  ASSUME NEW s \in Seq(Event), NEW e \in Event, FlushFits(s), e.type # "probe.detach"
  PROVE  FlushFits(Append(s, e))
  <1>1. /\ DOMAIN s = 1 .. Len(s) /\ Len(s) \in Nat
        /\ DOMAIN Append(s, e) = 1 .. Len(s) + 1 /\ Append(s, e)[Len(s) + 1] = e
        /\ \A i \in 1 .. Len(s) : Append(s, e)[i] = s[i]
    BY AppendElements
  <1>. DEFINE t == Append(s, e)
  <1>. HIDE DEF t
  <1>2. ASSUME NEW i \in 1 .. Len(s) + 1, t[i].type = "probe.detach"
        PROVE  /\ i > 1 /\ t[i - 1].type = "loop.lag" /\ t[i - 1].final
               /\ t[i - 1].total = SamplesOf(totalHist)
    <2>1. i \in 1 .. Len(s) /\ t[i] = s[i]
      BY <1>1, <1>2 DEF t
    <2>2. /\ i > 1 /\ s[i - 1].type = "loop.lag" /\ s[i - 1].final
          /\ s[i - 1].total = SamplesOf(totalHist)
      BY <1>1, <1>2, <2>1 DEF FlushFits
    <2>3. t[i - 1] = s[i - 1]
      BY <1>1, <2>1, <2>2 DEF t
    <2>. QED  BY <2>2, <2>3
  <1>. QED  BY <1>1, <1>2 DEF FlushFits, t

LEMMA LagInit == Init => LagInv
  <1>. SUFFICES ASSUME Init PROVE LagInv
    OBVIOUS
  <1>1. toWrite = <<>> /\ lines = <<>> /\ totalHist = 0 /\ ahead = 0
    BY Zenon DEF Init
  <1>2. Written = <<>> /\ <<>> \in Seq(Event) /\ Len(<<>>) = 0
    BY <1>1 DEF Written
  <1>3. SumOf(Written) = 0 /\ Flushes(Written) \in Nat
    BY <1>2, SamplesEquation, LagLinesType DEF SumOf, Flushes
  <1>4. SumNow
    <2>1. (totalHist + ahead) - SumOf(Written) = 0
      BY <1>1, <1>3
    <2>. QED  BY <1>3, <2>1 DEF SumNow, Balanced
  <1>5. SumFits(Written) /\ FlushFits(Written)
    BY <1>2 DEF SumFits, FlushFits
  <1>. QED  BY <1>4, <1>5, LagParts

LEMMA LagPrime ==
  ASSUME SumFits(Written'), LagInstalled' => FlushFits(Written)',
         recordable' => Balanced(SumOf(Written), Flushes(Written), totalHist)'
  PROVE  LagInv'
  BY Zenon DEF LagInv, LagInstalled, SumFits, FlushFits, SumOf, Flushes

LEMMA BalancePrime ==
  ASSUME LET lost == (totalHist' + ahead') - SumOf(Written') IN
         0 <= lost /\ lost <= Flushes(Written') /\ (lost = 0 => SumOf(Written') = 0)
  PROVE  Balanced(SumOf(Written), Flushes(Written), totalHist)'
  BY DEF Balanced, SumOf, Flushes

LEMMA BalanceStays ==
  ASSUME UNCHANGED <<totalHist, ahead>>, SumOf(Written') = SumOf(Written),
         Flushes(Written') = Flushes(Written), Balanced(SumOf(Written), Flushes(Written), totalHist)
  PROVE  Balanced(SumOf(Written), Flushes(Written), totalHist)'
  BY DEF Balanced, SumOf, Flushes

(* Steps that take no samples.                                              *)
LEMMA LagKept ==
  ASSUME TypeOK, LagInv, UNCHANGED lagVars, LagInstalled' => LagInstalled \/ Written = <<>>,
         \/ Keeps \/ Loses
         \/ \E e \in Event : Records(e) /\ e.type \notin {"loop.lag", "probe.detach"}
  PROVE  LagInv'
  <1>1. /\ Written \in Seq(Event) /\ SumFits(Written) /\ SumNow
        /\ LagInstalled => FlushFits(Written)
        /\ totalHist' = totalHist /\ ahead' = ahead
    BY WrittenType, LagParts DEF lagVars
  <1>2. LagInstalled' => FlushFits(Written)
    BY <1>1 DEF FlushFits
  <1>3. CASE Keeps
    <2>1. FlushFits(Written) => FlushFits(Written)'
      BY <1>1, <1>3 DEF FlushFits, Keeps
    <2>2. recordable' => Balanced(SumOf(Written), Flushes(Written), totalHist)'
      BY <1>1, <1>3 DEF Keeps, SumNow, Balanced, SumOf, Flushes
    <2>. QED  BY <1>1, <1>2, <1>3, <2>1, <2>2, LagPrime DEF Keeps
  <1>4. CASE Loses
    <2>1. Written' \in Seq(Event) /\ SumFits(Written') /\ (FlushFits(Written) => FlushFits(Written'))
      BY <1>1, <1>4, SumPrefix DEF Loses
    <2>2. FlushFits(Written') => FlushFits(Written)'
      BY <1>1 DEF FlushFits
    <2>. QED  BY <1>2, <1>4, <2>1, <2>2, LagPrime DEF Loses
  <1>5. ASSUME NEW e \in Event, Written' = Append(Written, e), recordable,
               e.type \notin {"loop.lag", "probe.detach"}
        PROVE  LagInv'
    <2>1. WindowOf(e) = 0
      BY <1>5 DEF WindowOf
    <2>2. SumFits(Written') /\ SumOf(Written') = SumOf(Written) + 0
      BY <1>1, <1>5, <2>1, SumAppend
    <2>3. FlushFits(Written) => FlushFits(Written')
      BY <1>1, <1>5, FlushAppend
    <2>4. FlushFits(Written') => FlushFits(Written)'
      BY <1>1 DEF FlushFits
    <2>5. SumOf(Written) \in Nat /\ SumOf(Written') = SumOf(Written)
      BY <1>1, <2>2, SamplesType, LenProperties DEF SumOf
    <2>6. Flushes(Written') = Flushes(Written)
      BY <1>1, <1>5, LagLinesOfAppend
    <2>7. Balanced(SumOf(Written), Flushes(Written), totalHist)'
      BY <1>1, <1>5, <2>5, <2>6, BalanceStays DEF SumNow
    <2>. QED  BY <1>2, <2>2, <2>3, <2>4, <2>7, LagPrime
  <1>. QED  BY <1>3, <1>4, <1>5 DEF Records, Keeps

(* A flush: the window joins the sum, the total grows with it, and a window *)
(* that had a tick lost one sample.  First in numbers: S the sum, K the      *)
(* flushes and T the ticks before, a and then the leads, n and m the ticks.  *)
LEMMA FlushBalance ==
  ASSUME NEW S \in Nat, NEW K \in Nat, NEW T \in Nat, NEW a \in Int, NEW n \in Nat,
         NEW later \in Nat, NEW then \in -1 .. 1, then - a = n - (later - T),
         LET lost == (T + a) - S IN 0 <= lost /\ lost <= K /\ (lost = 0 => S = 0)
  PROVE  LET sum  == S + SamplesOf(n)
             lost == (later + then) - sum
         IN /\ 0 <= lost /\ lost <= K + 1 /\ (lost = 0 => sum = 0)
            /\ sum - 1 <= SamplesOf(later) /\ SamplesOf(later) <= sum + (K + 1)
  <1>1. later + then = (T + a) + n
    OBVIOUS
  <1>2. CASE n = 0
    BY <1>1, <1>2 DEF SamplesOf
  <1>3. CASE n # 0
    BY <1>1, <1>3 DEF SamplesOf
  <1>. QED  BY <1>2, <1>3

LEMMA LagFlush ==
  ASSUME TypeOK, LagInv, NEW n \in Nat, NEW final \in BOOLEAN, recordable,
         totalHist' \in Nat, ahead' - ahead = n - (totalHist' - totalHist), ahead' \in -1 .. 1
  PROVE  LET w == Append(Written, LoopLag(SamplesOf(n), SamplesOf(totalHist'), final)) IN
         /\ w \in Seq(Event) /\ SumFits(w)
         /\ LET lost == (totalHist' + ahead') - SumOf(w) IN
            0 <= lost /\ lost <= Flushes(w) /\ (lost = 0 => SumOf(w) = 0)
         /\ SumOf(w) \in Nat
  <1>1. Written \in Seq(Event) /\ SumFits(Written) /\ SumNow
    BY WrittenType, LagParts
  <1>2. /\ SumOf(Written) \in Nat /\ Flushes(Written) \in Nat
        /\ totalHist \in Nat /\ ahead \in Int
    BY <1>1, SamplesType, LagLinesType, LenProperties, HookAssumption DEF TypeOK, SumOf, Flushes
  <1>3. LET lost == (totalHist + ahead) - SumOf(Written) IN
        0 <= lost /\ lost <= Flushes(Written) /\ (lost = 0 => SumOf(Written) = 0)
    BY <1>1 DEF SumNow, Balanced
  <1>4. PICK e \in Event : e = LoopLag(SamplesOf(n), SamplesOf(totalHist'), final)
    BY SamplesOfTicks, EventsOfTheHook
  <1>5. e.type = "loop.lag" /\ WindowOf(e) = SamplesOf(n) /\ e.total = SamplesOf(totalHist')
    BY <1>4 DEF LoopLag, WindowOf
  <1>6. LET sum  == SumOf(Written) + SamplesOf(n)
            lost == (totalHist' + ahead') - sum
        IN /\ 0 <= lost /\ lost <= Flushes(Written) + 1 /\ (lost = 0 => sum = 0)
           /\ sum - 1 <= SamplesOf(totalHist')
           /\ SamplesOf(totalHist') <= sum + (Flushes(Written) + 1)
    BY <1>2, <1>3, FlushBalance
  <1>. DEFINE w == Append(Written, e)
  <1>7. w \in Seq(Event) /\ SumFits(w) /\ SumOf(w) = SumOf(Written) + SamplesOf(n)
    BY <1>1, <1>5, <1>6, SumAppend, AppendElements
  <1>8. Flushes(w) = Flushes(Written) + 1
    BY <1>1, <1>5, LagLinesOfAppend
  <1>9. SumOf(Written) + SamplesOf(n) \in Nat
    BY <1>2, SamplesOfTicks
  <1>. HIDE DEF w
  <1>10. /\ w \in Seq(Event) /\ SumFits(w) /\ SumOf(w) \in Nat
         /\ LET lost == (totalHist' + ahead') - SumOf(w) IN
            0 <= lost /\ lost <= Flushes(w) /\ (lost = 0 => SumOf(w) = 0)
    BY <1>6, <1>7, <1>8, <1>9
  <1>. QED  BY <1>4, <1>10 DEF w

LEMMA NoDetachRunning ==
  ASSUME LifecycleInv, phase # "exiting"
  PROVE  NoDetach(Written)
  BY BracketedParts DEF LifecycleInv

LEMMA LagNext == TypeOK /\ TypeOK' /\ StageInv /\ LifecycleInv /\ LagInv /\ [Next]_vars => LagInv'
  <1>. SUFFICES ASSUME TypeOK, TypeOK', StageInv, LifecycleInv, LagInv, [Next]_vars PROVE LagInv'
    OBVIOUS
  <1>0. /\ Written \in Seq(Event) /\ SumFits(Written) /\ SumNow
        /\ LagInstalled => FlushFits(Written)
        /\ totalHist' \in Nat
    BY WrittenType, LagParts, HookAssumption DEF TypeOK
  <1>1. LagInstalled' => LagInstalled \/ Written = <<>>
    <2>1. CASE UNCHANGED vars
      BY <2>1 DEF vars, hookVars, LagInstalled
    <2>2. CASE Preload
      BY <2>2 DEF StageInv, Preload
    <2>3. CASE Next /\ ~Preload
      BY <2>3, Later DEF hookVars, LagInstalled
    <2>. QED  BY <2>1, <2>2, <2>3
  <1>2. ASSUME UNCHANGED lagVars,
               \/ Keeps \/ Loses
               \/ \E e \in Event : Records(e) /\ e.type \notin {"loop.lag", "probe.detach"}
        PROVE  LagInv'
    BY <1>1, <1>2, LagKept
  <1>3. CASE LagTimer
    <2>1. PICK n \in Nat, count \in Nat, total \in Nat :
            /\ count = SamplesOf(n) /\ total = SamplesOf(totalHist')
            /\ ahead' - ahead = n - (totalHist' - totalHist)
            /\ ahead' \in -1 .. 1 /\ Records(LoopLag(count, total, FALSE))
      BY <1>3, LagTimerWrites DEF Windows
    <2>2. phase # "exiting" /\ recordable
      BY <1>3, Zenon DEF LagTimer, Idle
    <2>. DEFINE w == Append(Written, LoopLag(SamplesOf(n), SamplesOf(totalHist'), FALSE))
    <2>3. Written' = w /\ recordable'
      BY <2>1, <2>2 DEF Records
    <2>4. /\ SumFits(w) /\ w \in Seq(Event)
          /\ LET lost == (totalHist' + ahead') - SumOf(w) IN
            0 <= lost /\ lost <= Flushes(w) /\ (lost = 0 => SumOf(w) = 0)
      BY <1>0, <2>1, <2>2, LagFlush
    <2>5. NoDetach(Written)'
      <3>1. PICK e \in Event : e = LoopLag(SamplesOf(n), SamplesOf(totalHist'), FALSE)
        BY <1>0, <2>1, EventsOfTheHook
      <3>2. e.type # "probe.detach" /\ Written' = Append(Written, e) /\ NoDetach(Written)
        BY <2>2, <2>3, <3>1, NoDetachRunning DEF LoopLag
      <3>3. /\ DOMAIN Written' = 1 .. Len(Written) + 1 /\ Written'[Len(Written) + 1] = e
            /\ \A i \in 1 .. Len(Written) : Written'[i] = Written[i]
            /\ DOMAIN Written = 1 .. Len(Written) /\ Len(Written) \in Nat
        BY <1>0, <3>2, AppendElements
      <3>4. \A i \in 1 .. Len(Written) + 1 : i \in 1 .. Len(Written) \/ i = Len(Written) + 1
        BY <3>3
      <3>. QED  BY <3>2, <3>3, <3>4 DEF NoDetach
    <2>6. FlushFits(Written)'
      BY <2>5 DEF FlushFits, NoDetach
    <2>. HIDE DEF w
    <2>7. SumFits(Written') /\ Balanced(SumOf(Written), Flushes(Written), totalHist)'
      BY <2>3, <2>4, BalancePrime
    <2>. QED  BY <2>6, <2>7, LagPrime
  <1>4. CASE Exit /\ ~(inSession /\ FlushesOnExit)
    <2>1. UNCHANGED lagVars /\ (Keeps \/ Records(Detach))
      BY <1>4, ExitWrites
    <2>2. CASE Keeps
      BY <1>2, <2>1, <2>2
    <2>3. CASE Records(Detach) /\ ~Keeps
      <3>1. recordable /\ Written' = Append(Written, Detach) /\ Detach \in Event /\ inSession
        BY <1>4, <2>3, EventsOfTheHook, ExitWrites DEF Records, Keeps
      <3>2. ~LagInstalled
        BY <1>4, <3>1, Zenon DEF FlushesOnExit, LagInstalled
      <3>3. LagInstalled' => LagInstalled
        <4>1. ~Preload /\ Next
          BY <1>4, Zenon DEF Exit, Idle, Preload, Next
        <4>. QED  BY <4>1, Later DEF hookVars, LagInstalled
      <3>4. WindowOf(Detach) = 0 /\ Detach.type # "loop.lag"
        BY DEF WindowOf, Detach
      <3>5. SumFits(Written') /\ SumOf(Written') = SumOf(Written) + 0
        BY <1>0, <3>1, <3>4, SumAppend
      <3>6. SumOf(Written) \in Nat /\ SumOf(Written') = SumOf(Written)
        BY <1>0, <3>5, SamplesType, LenProperties DEF SumOf
      <3>7. Flushes(Written') = Flushes(Written)
        BY <1>0, <3>1, <3>4, LagLinesOfAppend
      <3>8. Balanced(SumOf(Written), Flushes(Written), totalHist)'
        BY <1>0, <2>1, <3>1, <3>6, <3>7, BalanceStays DEF SumNow, lagVars
      <3>. QED  BY <3>2, <3>3, <3>5, <3>8, LagPrime
    <2>. QED  BY <2>1, <2>2, <2>3
  <1>5. CASE Exit /\ inSession /\ FlushesOnExit
    <2>1. recordable /\ Windows(TRUE)
      BY <1>5, ExitWrites
    <2>2. PICK n \in Nat, count \in Nat, total \in Nat :
            /\ count = SamplesOf(n) /\ total = SamplesOf(totalHist')
            /\ ahead' - ahead = n - (totalHist' - totalHist)
            /\ ahead' \in -1 .. 1
            /\ Written' = Append(Append(Written, LoopLag(count, total, TRUE)), Detach)
      BY <2>1 DEF Windows
    <2>3. phase # "exiting"
      BY <1>5, Zenon DEF Exit, Idle
    <2>4. PICK e \in Event : e = LoopLag(SamplesOf(n), SamplesOf(totalHist'), TRUE)
      BY <2>2, EventsOfTheHook
    <2>5. e.type = "loop.lag" /\ e.final /\ e.total = SamplesOf(totalHist')
      BY <2>4 DEF LoopLag
    <2>. DEFINE w == Append(Written, e)
    <2>6. /\ w \in Seq(Event) /\ SumFits(w) /\ SumOf(w) \in Nat
          /\ LET lost == (totalHist' + ahead') - SumOf(w) IN
            0 <= lost /\ lost <= Flushes(w) /\ (lost = 0 => SumOf(w) = 0)
      BY <1>0, <2>1, <2>2, <2>4, LagFlush
    <2>7. /\ Len(w) = Len(Written) + 1 /\ w[Len(Written) + 1] = e
          /\ \A i \in 1 .. Len(Written) : w[i] = Written[i]
          /\ DOMAIN Written = 1 .. Len(Written) /\ Len(Written) \in Nat
      BY <1>0, AppendElements
    <2>8. Written' = Append(w, Detach)
      BY <2>2, <2>4
    <2>. HIDE DEF w
    <2>9. Detach \in Event /\ Detach.type = "probe.detach" /\ WindowOf(Detach) = 0
      BY EventsOfTheHook DEF WindowOf, Detach
    <2>10. /\ SumFits(Written') /\ SumOf(Written') = SumOf(w) + 0
           /\ Flushes(Written') = Flushes(w)
      BY <2>6, <2>8, <2>9, SumAppend, LagLinesOfAppend
    <2>11. Balanced(SumOf(Written), Flushes(Written), totalHist)'
      <3>1. SumOf(Written') = SumOf(w)
        BY <2>6, <2>10
      <3>. QED  BY <2>6, <2>10, <3>1, BalancePrime
    <2>12. /\ DOMAIN Written' = 1 .. Len(w) + 1 /\ Written'[Len(w) + 1] = Detach
           /\ \A i \in 1 .. Len(w) : Written'[i] = w[i]
      BY <2>6, <2>8, <2>9, AppendElements
    <2>13. ASSUME NEW i \in DOMAIN Written', Written'[i].type = "probe.detach"
           PROVE  /\ i > 1 /\ Written'[i - 1].type = "loop.lag"
                  /\ Written'[i - 1].final /\ Written'[i - 1].total = SamplesOf(totalHist')
      <3>1. NoDetach(Written)
        BY <2>3, NoDetachRunning
      <3>2. i \in 1 .. Len(Written) \/ i = Len(Written) + 1 \/ i = Len(w) + 1
        BY <2>7, <2>12
      <3>3. CASE i \in 1 .. Len(Written)
        <4>1. Written'[i] = Written[i] /\ i \in DOMAIN Written
          BY <2>7, <2>12, <3>3
        <4>. QED  BY <2>13, <3>1, <4>1 DEF NoDetach
      <3>4. CASE i = Len(Written) + 1
        <4>1. Written'[i] = e
          BY <2>7, <2>12, <3>4
        <4>. QED  BY <2>5, <2>13, <4>1
      <3>5. CASE i = Len(w) + 1
        <4>1. i - 1 = Len(Written) + 1 /\ i > 1 /\ Written'[i - 1] = e
          BY <2>7, <2>12, <3>5
        <4>. QED  BY <2>5, <4>1
      <3>. QED  BY <3>2, <3>3, <3>4, <3>5
    <2>14. FlushFits(Written)'
      BY <2>13 DEF FlushFits
    <2>. QED  BY <2>10, <2>11, <2>14, LagPrime
  <1>6. ASSUME ~LagTimer, ~Exit
        PROVE  LagInv'
    <2>1. UNCHANGED lagVars
      <3>1. CASE UNCHANGED vars
        BY <3>1 DEF vars
      <3>2. CASE MemoryCollector
        BY <3>2, Zenon DEF MemoryCollector
      <3>3. CASE Preload \/ RequireAgain \/ AppendEvent \/ LoseEvent
        BY <3>3 DEF Preload, RequireAgain, LoadHook, AppendEvent, LoseEvent
      <3>4. CASE Enter \/ Blocked \/ Leave \/ UnsupportedClient \/ \E x \in Exports : LoadClient(x)
        BY <3>4 DEF Enter, Blocked, Leave, UnsupportedClient, LoadClient
      <3>5. CASE \/ \E r \in Requests : Dispatch(r) \/ Finish(r) \/ Abort(r)
                 \/ \E q \in Queries : StartQuery(q) \/ EndQuery(q)
        BY <3>5 DEF Dispatch, Finish, Abort, StartQuery, EndQuery
      <3>. QED  BY <1>6, <3>1, <3>2, <3>3, <3>4, <3>5 DEF Next
    <2>2. \/ Keeps \/ Loses
          \/ \E e \in Event : Records(e) /\ e.type \notin {"loop.lag", "probe.detach"}
      <3>1. \A e \in {Attach, MemSample, GcPause, BlockCall} :
              e \in Event /\ e.type \notin {"loop.lag", "probe.detach"}
        BY EventsOfTheHook, EventTypes
      <3>2. \A r \in Requests : HttpRequest(r) \in Event /\ HttpRequest(r).type = "http.request"
        BY EventsOfWork, EventTypes
      <3>3. \A q \in Queries : DbQuery(q) \in Event /\ DbQuery(q).type = "db.query"
        BY EventsOfWork, EventTypes
      <3>4. \/ Keeps \/ Loses
            \/ \E e \in {Attach, MemSample, GcPause, BlockCall} : Records(e)
            \/ \E r \in Requests : Records(HttpRequest(r))
            \/ \E q \in Queries : Records(DbQuery(q))
        BY <1>6, StepWrites DEF Work
      <3>5. \A r \in Requests : HttpRequest(r).type \notin {"loop.lag", "probe.detach"}
        BY <3>2
      <3>6. \A q \in Queries : DbQuery(q).type \notin {"loop.lag", "probe.detach"}
        BY <3>3
      <3>. QED  BY <3>1, <3>2, <3>3, <3>4, <3>5, <3>6
    <2>. QED  BY <1>2, <2>1, <2>2
  <1>. QED  BY <1>3, <1>4, <1>5, <1>6

(* On every lag line the total is the sum of the windows so far, up to one  *)
(* tick and the sample each reset costs, and the last lag line before a     *)
(* detach accounts for every sample.                                        *)
THEOREM LagWindows == Spec => []WindowsAddUp
  <1>1. Spec => []LagInv
    BY LagInit, LagNext, LifecycleInit, LifecycleNext, Types, Stages, PTL DEF Spec
  <1>2. TypeOK /\ LagInv => WindowsAddUp
    <2>. SUFFICES ASSUME TypeOK, LagInv PROVE WindowsAddUp
      OBVIOUS
    <2>1. SumFits(Written) /\ (LagInstalled => FlushFits(Written))
      BY LagParts
    <2>2. SumFits(lines) /\ (LagInstalled => FlushFits(lines))
      BY <2>1, WrittenPrefix, SumPrefix
    <2>3. ASSUME NEW i \in DOMAIN lines, lines[i].type = "probe.detach", LagInstalled
          PROVE  /\ LagLines(lines, i) # {}
                 /\ lines[Max(LagLines(lines, i))].final
                 /\ lines[Max(LagLines(lines, i))].total = SamplesOf(totalHist)
      <3>1. /\ i > 1 /\ lines[i - 1].type = "loop.lag" /\ lines[i - 1].final
            /\ lines[i - 1].total = SamplesOf(totalHist)
        BY <2>2, <2>3 DEF FlushFits
      <3>2. i \in Nat /\ i - 1 \in 1 .. i
        BY <2>3, <3>1, WrittenPrefix
      <3>3. i - 1 \in LagLines(lines, i) /\ \A j \in LagLines(lines, i) : j \in 1 .. i - 1
        BY <2>3, <3>1, <3>2 DEF LagLines
      <3>4. Max(LagLines(lines, i)) = i - 1
        <4>. DEFINE P(x) == x \in LagLines(lines, i) /\ \A y \in LagLines(lines, i) : x >= y
        <4>1. P(i - 1)
          BY <3>2, <3>3
        <4>2. P(CHOOSE x : P(x))
          BY <4>1, Zenon
        <4>3. Max(LagLines(lines, i)) = CHOOSE x : P(x)
          BY DEF Max
        <4>4. Max(LagLines(lines, i)) \in 1 .. i - 1 /\ Max(LagLines(lines, i)) >= i - 1
          BY <3>3, <4>2, <4>3
        <4>. QED  BY <3>2, <4>4
      <3>. QED  BY <3>1, <3>3, <3>4
    <2>4. ASSUME NEW i \in DOMAIN lines, lines[i].type = "probe.detach", "event-loop lag" \in installed
          PROVE  /\ LagLines(lines, i) # {}
                 /\ LET last == lines[Max(LagLines(lines, i))] IN last.final /\ last.total = SamplesOf(totalHist)
      <3>1. LagInstalled
        BY <2>4, Zenon DEF LagInstalled
      <3>. QED  BY <2>3, <2>4, <3>1
    <2>5. \A i \in DOMAIN lines : lines[i].type = "loop.lag" => AddsUp(lines, i)
      BY <2>2 DEF SumFits
    <2>. QED  BY <2>4, <2>5, Zenon DEF WindowsAddUp
  <1>. QED  BY <1>1, <1>2, Types, PTL

-----------------------------------------------------------------------------
(* The totals of a process grow, and its final lag line is its last: what  *)
(* LagsGrow says of the counts in a file of several processes.             *)
IsLag(e) == e.type = "loop.lag"
LagsInOrder(s) ==
  \A i, j \in DOMAIN s :
    i < j /\ IsLag(s[i]) /\ IsLag(s[j]) => ~s[i].final /\ s[i].total <= s[j].total
NoneAbove(s, total) == \A i \in DOMAIN s : IsLag(s[i]) => s[i].total <= total
NoFinal(s) == \A i \in DOMAIN s : IsLag(s[i]) => ~s[i].final

TotalsInv ==
  /\ LagsInOrder(Written) /\ NoneAbove(Written, SamplesOf(totalHist))
  /\ phase # "exiting" => NoFinal(Written)

LEMMA LagTotalType == \A e \in Event : IsLag(e) => e.total \in Nat /\ e.final \in BOOLEAN
  BY DEF Event, IsLag

LEMMA TotalsPrefix ==
  ASSUME NEW s \in Seq(Event), NEW t \in Seq(Event), Len(t) <= Len(s),
         \A i \in 1 .. Len(t) : t[i] = s[i], NEW total, LagsInOrder(s), NoneAbove(s, total)
  PROVE  LagsInOrder(t) /\ NoneAbove(t, total) /\ (NoFinal(s) => NoFinal(t))
  <1>1. \A i \in DOMAIN t : i \in DOMAIN s /\ t[i] = s[i]
    <2>1. /\ DOMAIN s = 1 .. Len(s) /\ DOMAIN t = 1 .. Len(t)
          /\ Len(s) \in Nat /\ Len(t) \in Nat
      BY LenProperties
    <2>. QED  BY <2>1
  <1>. QED  BY <1>1 DEF LagsInOrder, NoneAbove, NoFinal

LEMMA TotalsAppend ==
  ASSUME NEW s \in Seq(Event), NEW e \in Event, NEW total \in Nat,
         LagsInOrder(s), NoneAbove(s, total),
         IsLag(e) => NoFinal(s) /\ total <= e.total,
         NEW later \in Nat, total <= later, IsLag(e) => e.total <= later
  PROVE  /\ LagsInOrder(Append(s, e)) /\ NoneAbove(Append(s, e), later)
         /\ NoFinal(s) /\ (IsLag(e) => ~e.final) => NoFinal(Append(s, e))
  <1>. DEFINE t == Append(s, e)
  <1>1. /\ DOMAIN s = 1 .. Len(s) /\ Len(s) \in Nat /\ DOMAIN t = 1 .. Len(s) + 1
        /\ \A i \in 1 .. Len(s) : t[i] = s[i]
        /\ t[Len(s) + 1] = e
    BY AppendElements
  <1>2. \A i \in DOMAIN s : s[i] \in Event
    BY ElementOfSeq, LenProperties
  <1>. HIDE DEF t
  <1>3. ASSUME NEW i \in DOMAIN t, NEW j \in DOMAIN t, i < j, IsLag(t[i]), IsLag(t[j])
        PROVE  ~t[i].final /\ t[i].total <= t[j].total
    <2>1. i \in DOMAIN s /\ t[i] = s[i] /\ ((j \in DOMAIN s /\ t[j] = s[j]) \/ j = Len(s) + 1)
      BY <1>1, <1>3
    <2>2. CASE j \in DOMAIN s /\ t[j] = s[j]
      BY <1>3, <2>1, <2>2 DEF LagsInOrder
    <2>3. CASE j = Len(s) + 1
      <3>1. t[j] = e /\ IsLag(e) /\ IsLag(s[i])
        BY <1>1, <1>3, <2>1, <2>3
      <3>2. s[i].total <= total /\ ~s[i].final /\ s[i].total \in Nat /\ e.total \in Nat
        BY <1>2, <2>1, <3>1, LagTotalType DEF NoneAbove, NoFinal
      <3>. QED  BY <2>1, <3>1, <3>2
    <2>. QED  BY <2>1, <2>2, <2>3
  <1>4. ASSUME NEW i \in DOMAIN t, IsLag(t[i])
        PROVE  t[i].total <= later /\ (NoFinal(s) /\ (IsLag(e) => ~e.final) => ~t[i].final)
    <2>1. (i \in DOMAIN s /\ t[i] = s[i]) \/ t[i] = e
      BY <1>1
    <2>2. CASE i \in DOMAIN s /\ t[i] = s[i]
      <3>1. s[i].total <= total /\ s[i].total \in Nat
        BY <1>2, <1>4, <2>2, LagTotalType DEF NoneAbove
      <3>. QED  BY <1>4, <2>2, <3>1 DEF NoFinal
    <2>3. CASE t[i] = e
      BY <1>4, <2>3
    <2>. QED  BY <2>1, <2>2, <2>3
  <1>5. LagsInOrder(t)
    BY <1>3 DEF LagsInOrder
  <1>6. NoneAbove(t, later)
    BY <1>4 DEF NoneAbove
  <1>7. NoFinal(s) /\ (IsLag(e) => ~e.final) => NoFinal(t)
    BY <1>4 DEF NoFinal
  <1>. QED  BY <1>5, <1>6, <1>7 DEF t

LEMMA TotalsInit == Init => TotalsInv
  <1>. SUFFICES ASSUME Init PROVE TotalsInv
    OBVIOUS
  <1>1. Written = <<>>
    <2>1. toWrite = <<>> /\ lines = <<>>
      BY Zenon DEF Init
    <2>. QED  BY <2>1 DEF Written
  <1>. QED  BY <1>1 DEF TotalsInv, LagsInOrder, NoneAbove, NoFinal

(* A flush never takes samples away.                                        *)
LEMMA FlushGrows ==
  ASSUME TypeOK, LagTimer \/ (Exit /\ inSession /\ FlushesOnExit)
  PROVE  SamplesOf(totalHist) <= SamplesOf(totalHist')
  <1>1. PICK final, after : flushLag(final, after)
    BY Zenon DEF LagTimer, Exit
  <1>2. PICK m \in 0 .. MaxTicks - totalHist : totalHist' = totalHist + m
    BY <1>1, FlushParts
  <1>3. totalHist \in Nat /\ totalHist' \in Nat /\ totalHist <= totalHist'
    BY <1>2, HookAssumption DEF TypeOK
  <1>. QED  BY <1>3, SamplesOfTicks

LEMMA TotalsNext ==
  TypeOK /\ TypeOK' /\ StageInv /\ TotalsInv /\ [Next]_vars => TotalsInv'
  <1>. SUFFICES ASSUME TypeOK, TypeOK', StageInv, TotalsInv, [Next]_vars PROVE TotalsInv'
    OBVIOUS
  <1>0. /\ Written \in Seq(Event) /\ LagsInOrder(Written) /\ NoneAbove(Written, SamplesOf(totalHist))
        /\ phase # "exiting" => NoFinal(Written)
        /\ SamplesOf(totalHist) \in Nat /\ SamplesOf(totalHist') \in Nat
    <2>1. totalHist \in Nat /\ totalHist' \in Nat
      BY HookAssumption DEF TypeOK
    <2>. QED  BY <2>1, WrittenType, SamplesOfTicks DEF TotalsInv
  <1>1. SUFFICES /\ LagsInOrder(Written') /\ NoneAbove(Written', SamplesOf(totalHist'))
                 /\ phase' # "exiting" => NoFinal(Written')
    BY Zenon DEF TotalsInv, LagsInOrder, NoneAbove, NoFinal, SamplesOf
  <1>2. ~Exit => (phase' # "exiting" => phase # "exiting")
    <2>1. CASE UNCHANGED vars
      BY <2>1 DEF vars
    <2>2. CASE Preload
      BY <2>2 DEF Preload
    <2>3. CASE Next /\ ~Preload
      BY <2>3, Later
    <2>. QED  BY <2>1, <2>2, <2>3
  <1>3. CASE LagTimer
    <2>1. PICK count \in Nat, total \in Nat :
            total = SamplesOf(totalHist') /\ Records(LoopLag(count, total, FALSE))
      BY <1>3, LagTimerWrites DEF Windows
    <2>2. recordable /\ phase # "exiting" /\ phase' = phase
      BY <1>3, Zenon DEF LagTimer, Idle
    <2>3. PICK e \in Event : e = LoopLag(count, total, FALSE)
      BY EventsOfTheHook
    <2>4. IsLag(e) /\ ~e.final /\ e.total = SamplesOf(totalHist')
      BY <2>1, <2>3 DEF LoopLag, IsLag
    <2>5. Written' = Append(Written, e)
      BY <2>1, <2>2, <2>3 DEF Records
    <2>6. /\ SamplesOf(totalHist) <= SamplesOf(totalHist')
          /\ SamplesOf(totalHist') <= SamplesOf(totalHist')
      BY <1>0, <1>3, FlushGrows
    <2>7. NoFinal(Written)
      BY <1>0, <2>2
    <2>. QED  BY <1>0, <2>4, <2>5, <2>6, <2>7, TotalsAppend
  <1>4. CASE Exit /\ inSession /\ FlushesOnExit
    <2>1. recordable /\ Windows(TRUE)
      BY <1>4, ExitWrites
    <2>2. PICK count \in Nat, total \in Nat :
            /\ total = SamplesOf(totalHist')
            /\ Written' = Append(Append(Written, LoopLag(count, total, TRUE)), Detach)
      BY <2>1 DEF Windows
    <2>3. phase # "exiting" /\ phase' = "exiting"
      BY <1>4, Zenon DEF Exit, Idle
    <2>4. PICK e \in Event : e = LoopLag(count, total, TRUE)
      BY EventsOfTheHook
    <2>5. IsLag(e) /\ e.total = SamplesOf(totalHist')
      BY <2>2, <2>4 DEF LoopLag, IsLag
    <2>6. /\ SamplesOf(totalHist) <= SamplesOf(totalHist')
          /\ SamplesOf(totalHist') <= SamplesOf(totalHist')
      BY <1>0, <1>4, FlushGrows
    <2>7. NoFinal(Written)
      BY <1>0, <2>3
    <2>. DEFINE w == Append(Written, e)
    <2>8. LagsInOrder(w) /\ NoneAbove(w, SamplesOf(totalHist')) /\ w \in Seq(Event)
      BY <1>0, <2>5, <2>6, <2>7, TotalsAppend, AppendElements
    <2>9. Detach \in Event /\ ~IsLag(Detach)
      BY EventsOfTheHook DEF IsLag, Detach
    <2>10. Written' = Append(w, Detach)
      BY <2>2, <2>4
    <2>. HIDE DEF w
    <2>. QED  BY <1>0, <2>3, <2>6, <2>8, <2>9, <2>10, TotalsAppend
  <1>5. ASSUME ~LagTimer, ~(Exit /\ inSession /\ FlushesOnExit)
        PROVE  /\ LagsInOrder(Written') /\ NoneAbove(Written', SamplesOf(totalHist'))
               /\ phase' # "exiting" => NoFinal(Written')
    <2>1. totalHist' = totalHist
      <3>1. CASE UNCHANGED vars
        BY <3>1 DEF vars, lagVars
      <3>2. CASE MemoryCollector
        BY <3>2, Zenon DEF MemoryCollector, lagVars
      <3>3. CASE Preload \/ RequireAgain \/ AppendEvent \/ LoseEvent
        BY <3>3 DEF Preload, RequireAgain, LoadHook, AppendEvent, LoseEvent, lagVars
      <3>4. CASE Enter \/ Blocked \/ Leave \/ UnsupportedClient \/ \E x \in Exports : LoadClient(x)
        BY <3>4 DEF Enter, Blocked, Leave, UnsupportedClient, LoadClient, lagVars
      <3>5. CASE \/ \E r \in Requests : Dispatch(r) \/ Finish(r) \/ Abort(r)
                 \/ \E q \in Queries : StartQuery(q) \/ EndQuery(q)
        BY <3>5 DEF Dispatch, Finish, Abort, StartQuery, EndQuery, lagVars
      <3>6. CASE Exit
        BY <1>5, <3>6, ExitWrites DEF lagVars
      <3>. QED  BY <1>5, <3>1, <3>2, <3>3, <3>4, <3>5, <3>6 DEF Next
    <2>2. phase' # "exiting" => phase # "exiting"
      <3>1. CASE Exit
        BY <3>1, Zenon DEF Exit
      <3>. QED  BY <1>2, <3>1
    <2>3. CASE Keeps
      BY <1>0, <2>1, <2>2, <2>3 DEF Keeps
    <2>4. CASE Loses
      BY <1>0, <2>1, <2>2, <2>4, TotalsPrefix DEF Loses
    <2>5. ASSUME NEW e \in Event, Records(e), ~IsLag(e), ~Keeps
          PROVE  /\ LagsInOrder(Written') /\ NoneAbove(Written', SamplesOf(totalHist'))
                 /\ phase' # "exiting" => NoFinal(Written')
      <3>1. Written' = Append(Written, e)
        BY <2>5 DEF Records, Keeps
      <3>2. SamplesOf(totalHist) <= SamplesOf(totalHist)
        BY <1>0
      <3>. QED  BY <1>0, <2>1, <2>2, <2>5, <3>1, <3>2, TotalsAppend
    <2>6. \/ Keeps \/ Loses \/ \E e \in Event : Records(e) /\ ~IsLag(e)
      <3>1. \A e \in {Attach, MemSample, GcPause, BlockCall, Detach} : e \in Event /\ ~IsLag(e)
        BY EventsOfTheHook, EventTypes DEF IsLag
      <3>2. \A r \in Requests : HttpRequest(r) \in Event /\ ~IsLag(HttpRequest(r))
        BY EventsOfWork DEF IsLag, HttpRequest
      <3>3. \A q \in Queries : DbQuery(q) \in Event /\ ~IsLag(DbQuery(q))
        BY EventsOfWork DEF IsLag, DbQuery
      <3>4. Exit => Keeps \/ Records(Detach)
        BY <1>5, ExitWrites
      <3>5. \/ Keeps \/ Loses
            \/ \E e \in {Attach, MemSample, GcPause, BlockCall, Detach} : Records(e)
            \/ \E r \in Requests : Records(HttpRequest(r))
            \/ \E q \in Queries : Records(DbQuery(q))
        BY <1>5, <3>4, StepWrites DEF Work
      <3>. QED  BY <3>1, <3>2, <3>3, <3>5
    <2>. QED  BY <2>3, <2>4, <2>5, <2>6
  <1>. QED  BY <1>3, <1>4, <1>5

(* The cumulative totals a process writes never shrink, and after its final *)
(* flush it writes no lag line, whatever fails: the analysis may take the   *)
(* last lag line of a process for all its samples.                          *)
THEOREM LagTotals == Spec => []LagsInOrder(lines)
  <1>1. Spec => []TotalsInv
    BY TotalsInit, TotalsNext, Types, Stages, PTL DEF Spec
  <1>2. TypeOK /\ TotalsInv => LagsInOrder(lines)
    BY WrittenPrefix, TotalsPrefix DEF TotalsInv
  <1>. QED  BY <1>1, <1>2, Types, PTL

-----------------------------------------------------------------------------
(* The records are complete.  The parts of CompleteInv.                     *)
Watched == Works("blocking-call") => \A i \in DOMAIN frames : frames[i].watched
Observed ==
  Works("db-query") => /\ \A x \in Exports : wraps[x] # -1 => wraps[x] = 1
                       /\ \A q \in Queries : query[q].state # "idle" => query[q].observers = 1
StartCounted ==
  recordable => Count(OfType("probe.attach"), Written) = IF InSession(FALSE) THEN 1 ELSE 0
SlowCounted ==
  recordable /\ Works("blocking-call") => Count(OfType("block.call"), Written) = slow
ResponseCounted(r) ==
  recordable /\ Works("http") =>
    Count(ForRequest(r), Written) = IF req[r] = "finished" THEN 1 ELSE 0
QueryCounted(q) ==
  recordable /\ Works("db-query") =>
    Count(ForQuery(q), Written) = IF query[q].state = "done" THEN 1 ELSE 0

LEMMA CompleteParts ==
  CompleteInv <=> /\ Watched /\ Observed /\ StartCounted /\ SlowCounted
                  /\ \A r \in Requests : ResponseCounted(r)
                  /\ \A q \in Queries : QueryCounted(q)
  BY DEF CompleteInv, Watched, Observed, StartCounted, SlowCounted, ResponseCounted, QueryCounted

LEMMA CompletePrime ==
  ASSUME Watched', Observed', StartCounted', SlowCounted',
         \A r \in Requests : ResponseCounted(r)', \A q \in Queries : QueryCounted(q)'
  PROVE  CompleteInv'
  BY DEF CompleteInv, Watched, Observed, StartCounted, SlowCounted, ResponseCounted, QueryCounted

LEMMA CountAppend ==
  ASSUME NEW kind, NEW s \in Seq(Event), NEW e \in Event
  PROVE  /\ Count(kind, s) \in Nat
         /\ Count(kind, Append(s, e)) = IF e \in kind THEN Count(kind, s) + 1 ELSE Count(kind, s)
  <1>. DEFINE t == Append(s, e)
              S == {i \in DOMAIN s : s[i] \in kind}
              T == {i \in DOMAIN t : t[i] \in kind}
              n == Len(s) + 1
  <1>1. /\ DOMAIN s = 1 .. Len(s) /\ Len(s) \in Nat /\ DOMAIN t = 1 .. Len(s) + 1
        /\ t[Len(s) + 1] = e /\ \A i \in 1 .. Len(s) : t[i] = s[i]
    BY AppendElements
  <1>2. IsFiniteSet(S) /\ Cardinality(S) \in Nat
    <2>1. IsFiniteSet(1 .. Len(s)) /\ S \in SUBSET (1 .. Len(s))
      BY <1>1, FS_Interval
    <2>2. IsFiniteSet(S)
      BY <2>1, FS_Subset
    <2>. QED  BY <2>2, FS_CardinalityType
  <1>. HIDE DEF t
  <1>3. n \notin S
    BY <1>1
  <1>4. T = IF e \in kind THEN S \cup {n} ELSE S
    <2>1. \A i : i \in 1 .. Len(s) + 1 <=> i \in 1 .. Len(s) \/ i = n
      BY <1>1
    <2>2. \A i : i \in T <=> i \in S \/ (i = n /\ e \in kind)
      BY <1>1, <2>1
    <2>. HIDE DEF S, T
    <2>. QED  BY <2>2
  <1>. HIDE DEF S, T
  <1>5. Cardinality(T) = IF e \in kind THEN Cardinality(S) + 1 ELSE Cardinality(S)
    BY <1>2, <1>3, <1>4, FS_AddElement
  <1>. QED  BY <1>2, <1>5 DEF Count, S, T, t

LEMMA CountNothing == \A kind : Count(kind, <<>>) = 0
  <1>. TAKE kind
  <1>1. {i \in DOMAIN <<>> : <<>>[i] \in kind} = {}
    OBVIOUS
  <1>. QED  BY <1>1, FS_EmptySet DEF Count

(* Events of a kind are written only by the steps that write that kind.     *)
LEMMA CountStep ==
  ASSUME TypeOK, StageInv, [Next]_vars, recordable', NEW kind,
         {MemSample, GcPause, Detach} \cap kind = {},
         \A n \in Nat, total \in Nat, final \in BOOLEAN : LoopLag(n, total, final) \notin kind
  PROVE  /\ recordable
         /\ \/ Count(kind, Written') = Count(kind, Written)
            \/ Preload /\ Attach \in kind
            \/ Leave /\ BlockCall \in kind
            \/ \E r \in Requests : Finish(r) /\ HttpRequest(r) \in kind
            \/ \E q \in Queries : EndQuery(q) /\ DbQuery(q) \in kind
  <1>0. Written \in Seq(Event)
    BY WrittenType
  <1>1. recordable
    BY StepWrites, Zenon DEF Keeps, Loses, Records, Work, Windows
  <1>2. ASSUME NEW e \in Event, e \notin kind, Records(e)
        PROVE  Count(kind, Written') = Count(kind, Written)
    BY <1>0, <1>1, <1>2, CountAppend DEF Records
  <1>3. CASE Keeps
    BY <1>1, <1>3 DEF Keeps
  <1>4. CASE Preload /\ Records(Attach)
    BY <1>1, <1>2, <1>4, EventsOfTheHook
  <1>5. CASE Work
    <2>1. CASE Windows(FALSE)
      BY <1>1, <1>2, <2>1, EventsOfTheHook DEF Windows
    <2>2. CASE Windows(TRUE)
      <3>1. PICK n \in Nat, total \in Nat :
              Written' = Append(Append(Written, LoopLag(n, total, TRUE)), Detach)
        BY <2>2 DEF Windows
      <3>2. PICK e \in Event : e = LoopLag(n, total, TRUE) /\ e \notin kind
        BY EventsOfTheHook
      <3>3. Append(Written, e) \in Seq(Event) /\ Detach \in Event /\ Detach \notin kind
        BY <1>0, AppendElements, EventsOfTheHook
      <3>4. Count(kind, Append(Append(Written, e), Detach)) = Count(kind, Append(Written, e))
        <4>1. PICK w \in Seq(Event), d \in Event : w = Append(Written, e) /\ d = Detach /\ d \notin kind
          BY <3>3
        <4>2. Count(kind, Append(w, d)) = IF d \in kind THEN Count(kind, w) + 1 ELSE Count(kind, w)
          BY CountAppend
        <4>. QED  BY <4>1, <4>2
      <3>5. Count(kind, Append(Written, e)) = Count(kind, Written)
        BY <1>0, <3>2, CountAppend
      <3>. QED  BY <1>1, <3>1, <3>2, <3>4, <3>5
    <2>3. CASE \E e \in {MemSample, GcPause, Detach} : Records(e)
      BY <1>1, <1>2, <2>3, EventsOfTheHook
    <2>4. CASE Leave /\ Records(BlockCall)
      BY <1>1, <1>2, <2>4, EventsOfTheHook
    <2>5. CASE \E r \in Requests : Finish(r) /\ Records(HttpRequest(r))
      BY <1>1, <1>2, <2>5, EventsOfWork
    <2>6. CASE \E q \in Queries : EndQuery(q) /\ Records(DbQuery(q))
      BY <1>1, <1>2, <2>6, EventsOfWork
    <2>. QED  BY <1>5, <2>1, <2>2, <2>3, <2>4, <2>5, <2>6 DEF Work
  <1>. QED  BY <1>3, <1>4, <1>5, StepWrites DEF Loses

LEMMA KindsApart ==
  /\ \A type \in {"probe.attach", "block.call", "http.request", "db.query"} :
       /\ {MemSample, GcPause, Detach} \cap OfType(type) = {}
       /\ \A n \in Nat, total \in Nat, final \in BOOLEAN : LoopLag(n, total, final) \notin OfType(type)
  /\ \A r \in Requests : ForRequest(r) \subseteq OfType("http.request")
  /\ \A q \in Queries : ForQuery(q) \subseteq OfType("db.query")
  /\ \A type : Attach \in OfType(type) => type = "probe.attach"
  /\ \A type : BlockCall \in OfType(type) => type = "block.call"
  /\ \A type, r : HttpRequest(r) \in OfType(type) => type = "http.request"
  /\ \A type, q : DbQuery(q) \in OfType(type) => type = "db.query"
  /\ \A r, s : HttpRequest(s) \in ForRequest(r) => s = r
  /\ \A q, p : DbQuery(p) \in ForQuery(q) => p = q
  <1>1. \A r, s : HttpRequest(s) \in ForRequest(r) => s = r
    BY DEF ForRequest, HttpRequest
  <1>2. \A q, p : DbQuery(p) \in ForQuery(q) => p = q
    BY DEF ForQuery, DbQuery
  <1>. QED  BY <1>1, <1>2, EventTypes DEF OfType, ForRequest, ForQuery

LEMMA WorksLater ==
  ASSUME TypeOK, StageInv, [Next]_vars, ~Preload
  PROVE  /\ \A c : Works(c)' => Works(c)
         /\ InSession(FALSE)' <=> InSession(FALSE)
  <1>1. CASE UNCHANGED vars
    BY <1>1 DEF vars, envVars, Works, InSession
  <1>. QED  BY <1>1, Later

LEMMA CompleteInit == Init => CompleteInv
  <1>. SUFFICES ASSUME Init PROVE CompleteInv
    OBVIOUS
  <1>1. toWrite = <<>> /\ lines = <<>> /\ phase = "preload"
    BY Zenon DEF Init
  <1>2. Written = <<>>
    BY <1>1 DEF Written
  <1>3. ~InSession(FALSE) /\ \A c : ~Works(c)
    BY <1>1 DEF InSession, Works
  <1>. QED  BY <1>2, <1>3, CountNothing DEF CompleteInv

LEMMA CompletePreload == TypeOK /\ StageInv /\ Preload => CompleteInv'
  <1>. SUFFICES ASSUME TypeOK, StageInv, Preload PROVE CompleteInv'
    OBVIOUS
  <1>1. /\ Written = <<>> /\ slow' = 0 /\ frames' = <<>>
        /\ \A r \in Requests : req'[r] = "new"
        /\ \A q \in Queries : query'[q].state = "idle"
        /\ \A x \in Exports : wraps'[x] = -1
        /\ inSession' = inSession /\ phase' # "preload"
    BY DEF StageInv, Preload, LoadHook, callVars, httpVars, dbVars, envVars
  <1>2. IF inSession THEN Records(Attach) ELSE Keeps
    BY PreloadWrites
  <1>3. <<>> \in Seq(Event) /\ Attach \in Event
    BY EventsOfTheHook
  <1>4. ASSUME NEW kind, recordable'
        PROVE  Count(kind, Written') = IF inSession /\ Attach \in kind THEN 1 ELSE 0
    <2>1. CASE inSession
      <3>1. Written' = Append(<<>>, Attach)
        BY <1>1, <1>2, <1>4, <2>1 DEF Records
      <3>2. PICK s \in Seq(Event), e \in Event : s = <<>> /\ e = Attach
        BY <1>3
      <3>3. Count(kind, Append(s, e)) = IF e \in kind THEN Count(kind, s) + 1 ELSE Count(kind, s)
        BY CountAppend
      <3>. QED  BY <2>1, <3>1, <3>2, <3>3, CountNothing
    <2>2. CASE ~inSession
      BY <1>1, <1>2, <2>2, CountNothing DEF Keeps
    <2>. QED  BY <2>1, <2>2
  <1>5. Attach \in OfType("probe.attach") /\ Attach \notin OfType("block.call")
    BY <1>3, EventTypes DEF OfType
  <1>6. /\ \A r \in Requests : Attach \notin ForRequest(r)
        /\ \A q \in Queries : Attach \notin ForQuery(q)
    BY EventTypes DEF ForRequest, ForQuery, OfType
  <1>7. StartCounted'
    BY <1>1, <1>4, <1>5 DEF StartCounted, InSession
  <1>8. SlowCounted'
    BY <1>1, <1>4, <1>5 DEF SlowCounted
  <1>9. ASSUME NEW r \in Requests
        PROVE  ResponseCounted(r)'
    <2>1. recordable' => Count(ForRequest(r), Written') = 0
      BY <1>4, <1>6
    <2>. QED  BY <1>1, <2>1 DEF ResponseCounted, ForRequest, OfType
  <1>10. ASSUME NEW q \in Queries
         PROVE  QueryCounted(q)'
    <2>1. recordable' => Count(ForQuery(q), Written') = 0
      BY <1>4, <1>6
    <2>. QED  BY <1>1, <2>1 DEF QueryCounted, ForQuery, OfType
  <1>11. Watched' /\ Observed'
    BY <1>1 DEF Watched, Observed
  <1>. QED  BY <1>7, <1>8, <1>9, <1>10, <1>11, CompletePrime

(* The wrappers watch every call, and observe every query once.             *)
LEMMA WatchedNext ==
  ASSUME TypeOK, StageInv, CompleteInv, Next, ~Preload
  PROVE  Watched'
  <1>1. SUFFICES ASSUME Works("blocking-call")' PROVE \A i \in DOMAIN frames' : frames'[i].watched
    BY DEF Watched
  <1>2. /\ \A i \in DOMAIN frames : frames[i].watched
        /\ Works("blocking-call")
    BY <1>1, WorksLater, CompleteParts DEF Watched
  <1>3. wrappedApis = ToSet(Apis) /\ "blocking-call" \notin disabled
    <2>1. "blocking-call" \in Collectors
      BY Zenon DEF Collectors
    <2>2. "blocking-call" \in installed /\ "blocking-call" \notin disabled
      BY <1>2, <2>1 DEF StageInv, Works, InSession, Installed
    <2>. QED  BY <2>2 DEF StageInv
  <1>4. CASE Enter
    <2>1. PICK a \in DOMAIN Apis :
            frames' = Append(frames, [ms |-> 0, watched |-> ~Bypassed(Apis[a])])
      BY <1>4 DEF Enter
    <2>2. ~Bypassed(Apis[a])
      BY <1>3, <1>4, <2>1 DEF Bypassed, InHookWrite, Enter, ToSet
    <2>. DEFINE f == [ms |-> 0, watched |-> TRUE]
    <2>3. frames' = Append(frames, f) /\ f \in [ms : Nat, watched : BOOLEAN]
      BY <2>1, <2>2
    <2>4. frames \in Seq([ms : Nat, watched : BOOLEAN]) /\ DOMAIN frames = 1 .. Len(frames)
          /\ Len(frames) \in Nat
      BY LenProperties DEF TypeOK
    <2>5. /\ DOMAIN frames' = 1 .. Len(frames) + 1
          /\ \A k \in 1 .. Len(frames) : frames'[k] = frames[k]
          /\ frames'[Len(frames) + 1] = f
      BY <2>3, <2>4, AppendProperties, LenProperties
    <2>6. f.watched /\ \A i \in 1 .. Len(frames) + 1 : i \in 1 .. Len(frames) \/ i = Len(frames) + 1
      BY <2>4
    <2>. QED  BY <1>2, <2>4, <2>5, <2>6
  <1>5. CASE Blocked
    <2>1. \A i \in DOMAIN frames : frames[i] \in [ms : Nat, watched : BOOLEAN]
      <3>1. frames \in Seq([ms : Nat, watched : BOOLEAN]) /\ DOMAIN frames = 1 .. Len(frames)
        BY LenProperties DEF TypeOK
      <3>. TAKE i \in DOMAIN frames
      <3>. QED  BY <3>1, ElementOfSeq
    <2>. QED  BY <1>2, <1>5, <2>1 DEF Blocked
  <1>6. CASE Leave
    <2>1. frames # <<>> /\ frames' = Front(frames)
      BY <1>6 DEF Leave
    <2>. QED  BY <1>2, <2>1, FramesShrink
  <1>7. ASSUME ~Enter, ~Blocked, ~Leave
        PROVE  frames' = frames
    <2>1. CASE LagTimer \/ MemoryCollector \/ Exit
      BY <2>1, Zenon DEF LagTimer, MemoryCollector, Exit, callVars
    <2>2. CASE RequireAgain \/ AppendEvent \/ LoseEvent
      BY <2>2 DEF RequireAgain, LoadHook, AppendEvent, LoseEvent, callVars
    <2>3. CASE UnsupportedClient \/ (\E x \in Exports : LoadClient(x))
      BY <2>3 DEF UnsupportedClient, LoadClient, callVars
    <2>4. CASE \/ \E r \in Requests : Dispatch(r) \/ Finish(r) \/ Abort(r)
               \/ \E q \in Queries : StartQuery(q) \/ EndQuery(q)
      BY <2>4 DEF Dispatch, Finish, Abort, StartQuery, EndQuery, callVars
    <2>. QED  BY <1>7, <2>1, <2>2, <2>3, <2>4 DEF Next
  <1>. QED  BY <1>2, <1>4, <1>5, <1>6, <1>7

LEMMA ObservedNext ==
  ASSUME TypeOK, StageInv, CompleteInv, Next, ~Preload
  PROVE  Observed'
  <1>1. SUFFICES ASSUME Works("db-query")'
                 PROVE  /\ \A x \in Exports : wraps'[x] # -1 => wraps'[x] = 1
                        /\ \A q \in Queries : query'[q].state # "idle" => query'[q].observers = 1
    BY DEF Observed
  <1>2. /\ \A x \in Exports : wraps[x] # -1 => wraps[x] = 1
        /\ \A q \in Queries : query[q].state # "idle" => query[q].observers = 1
        /\ Works("db-query")
    BY <1>1, WorksLater, CompleteParts DEF Observed
  <1>3. "db-query" \in installed /\ "db-query" \notin disabled
    <2>1. "db-query" \in Collectors
      BY Zenon DEF Collectors
    <2>. QED  BY <1>2, <2>1 DEF StageInv, Works, InSession, Installed
  <1>4. ASSUME NEW x \in Exports, LoadClient(x)
        PROVE  /\ \A y \in Exports : wraps'[y] # -1 => wraps'[y] = 1
               /\ query' = query
    <2>1. PICK class \in IF wraps[x] = -1 THEN {0} \cup ({wraps[y] : y \in Exports} \ {-1})
                                          ELSE {wraps[x]} :
            wraps' = [wraps EXCEPT ![x] = Wrapped(class)]
      BY <1>3, <1>4 DEF LoadClient
    <2>2. class \in {0, 1}
      BY <1>2, <2>1
    <2>3. Wrapped(class) = 1
      BY <2>2 DEF Wrapped
    <2>4. query' = query
      BY <1>4 DEF LoadClient
    <2>. QED  BY <1>2, <2>1, <2>3, <2>4 DEF TypeOK
  <1>5. ASSUME NEW q \in Queries, StartQuery(q)
        PROVE  /\ \A p \in Queries : query'[p].state # "idle" => query'[p].observers = 1
               /\ wraps' = wraps
    <2>1. PICK r \in Requests \cup {NoRequest}, x \in {y \in Exports : wraps[y] # -1} :
            LET observers == IF "db-query" \in disabled THEN 0 ELSE wraps[x] IN
            query' = [query EXCEPT ![q] =
              [state |-> "running", by |-> r, observers |-> observers,
               scoped |-> getStore(r), inTime |-> r # NoRequest /\ req[r] = "open"]]
      BY <1>5 DEF StartQuery
    <2>2. wraps[x] = 1
      BY <1>2
    <2>3. query'[q].observers = 1 /\ \A p \in Queries \ {q} : query'[p] = query[p]
      BY <1>3, <2>1, <2>2 DEF TypeOK
    <2>4. \A p \in Queries : p = q \/ p \in Queries \ {q}
      OBVIOUS
    <2>5. wraps' = wraps
      BY <1>5 DEF StartQuery
    <2>. QED  BY <1>2, <2>3, <2>4, <2>5
  <1>6. ASSUME NEW q \in Queries, EndQuery(q)
        PROVE  /\ \A p \in Queries : query'[p].state # "idle" => query'[p].observers = 1
               /\ wraps' = wraps
    <2>1. /\ query[q].state = "running" /\ query' = [query EXCEPT ![q].state = "done"]
          /\ wraps' = wraps
      BY <1>6 DEF EndQuery
    <2>2. /\ query'[q].observers = query[q].observers
          /\ \A p \in Queries \ {q} : query'[p] = query[p]
      BY <2>1 DEF TypeOK, QueryRecord
    <2>3. \A p \in Queries : p = q \/ p \in Queries \ {q}
      OBVIOUS
    <2>. QED  BY <1>2, <2>1, <2>2, <2>3
  <1>7. ASSUME \A x \in Exports : ~LoadClient(x), \A q \in Queries : ~(StartQuery(q) \/ EndQuery(q))
        PROVE  UNCHANGED <<query, wraps>>
    <2>1. CASE LagTimer \/ MemoryCollector \/ Exit
      BY <2>1, Zenon DEF LagTimer, MemoryCollector, Exit, dbVars
    <2>2. CASE RequireAgain \/ AppendEvent \/ LoseEvent \/ UnsupportedClient
      BY <2>2 DEF RequireAgain, LoadHook, AppendEvent, LoseEvent, UnsupportedClient, dbVars
    <2>3. CASE Enter \/ Blocked \/ Leave
      BY <2>3 DEF Enter, Blocked, Leave, dbVars
    <2>4. CASE \E r \in Requests : Dispatch(r) \/ Finish(r) \/ Abort(r)
      BY <2>4 DEF Dispatch, Finish, Abort, dbVars
    <2>. QED  BY <1>7, <2>1, <2>2, <2>3, <2>4 DEF Next
  <1>. QED  BY <1>2, <1>4, <1>5, <1>6, <1>7

(* One line for the start and for each slow call.                           *)
LEMMA StartCountedNext ==
  ASSUME TypeOK, StageInv, CompleteInv, [Next]_vars, ~Preload
  PROVE  StartCounted'
  <1>1. SUFFICES ASSUME recordable'
                 PROVE  Count(OfType("probe.attach"), Written') = IF InSession(FALSE)' THEN 1 ELSE 0
    BY DEF StartCounted
  <1>2. recordable /\ Count(OfType("probe.attach"), Written') = Count(OfType("probe.attach"), Written)
    BY <1>1, CountStep, KindsApart
  <1>. QED  BY <1>2, WorksLater, CompleteParts DEF StartCounted

LEMMA SlowCountedNext ==
  ASSUME TypeOK, StageInv, CompleteInv, [Next]_vars, ~Preload
  PROVE  SlowCounted'
  <1>. DEFINE kind == OfType("block.call")
  <1>1. SUFFICES ASSUME recordable', Works("blocking-call")'
                 PROVE  Count(kind, Written') = slow'
    BY DEF SlowCounted
  <1>2. Works("blocking-call")
    BY <1>1, WorksLater
  <1>3. recordable /\ (Leave \/ Count(kind, Written') = Count(kind, Written))
    BY <1>1, CountStep, KindsApart
  <1>4. Count(kind, Written) = slow /\ \A i \in DOMAIN frames : frames[i].watched
    BY <1>2, <1>3, CompleteParts DEF SlowCounted, Watched
  <1>5. CASE Leave
    <2>1. Last(frames).watched
      BY <1>4, <1>5, FramesShrink DEF Leave, Last
    <2>2. "blocking-call" \notin disabled'
      BY <1>1 DEF Works
    <2>3. PICK site \in Sites :
            /\ slow' = IF Slow(Last(frames), site) THEN slow + 1 ELSE slow
            /\ IF Slow(Last(frames), site) THEN Records(BlockCall) ELSE Keeps
      BY <1>5, <2>1, <2>2, LeaveWrites
    <2>4. CASE Slow(Last(frames), site)
      <3>1. Written' = Append(Written, BlockCall) /\ BlockCall \in kind /\ slow' = slow + 1
        BY <1>3, <2>3, <2>4, EventsOfTheHook, EventTypes DEF Records, OfType
      <3>. QED  BY <1>4, <3>1, CountAppend, WrittenType, EventsOfTheHook
    <2>5. CASE ~Slow(Last(frames), site)
      BY <1>4, <2>3, <2>5 DEF Keeps
    <2>. QED  BY <2>4, <2>5
  <1>6. CASE ~Leave
    <2>1. slow' = slow
      <3>1. CASE LagTimer \/ MemoryCollector \/ Exit
        BY <3>1, Zenon DEF LagTimer, MemoryCollector, Exit, callVars
      <3>2. CASE RequireAgain \/ AppendEvent \/ LoseEvent \/ UnsupportedClient
        BY <3>2 DEF RequireAgain, LoadHook, AppendEvent, LoseEvent, UnsupportedClient, callVars
      <3>3. CASE Enter \/ Blocked \/ (\E x \in Exports : LoadClient(x))
        BY <3>3 DEF Enter, Blocked, LoadClient, callVars
      <3>4. CASE \/ \E r \in Requests : Dispatch(r) \/ Finish(r) \/ Abort(r)
                 \/ \E q \in Queries : StartQuery(q) \/ EndQuery(q)
        BY <3>4 DEF Dispatch, Finish, Abort, StartQuery, EndQuery, callVars
      <3>5. CASE UNCHANGED vars
        BY <3>5 DEF vars, callVars
      <3>. QED  BY <1>6, <3>1, <3>2, <3>3, <3>4, <3>5 DEF Next
    <2>. QED  BY <1>3, <1>4, <1>6, <2>1
  <1>. QED  BY <1>5, <1>6

(* One line for each response that finished.                                *)
LEMMA OnlyFinishFinishes ==
  ASSUME TypeOK, [Next]_vars, ~Preload, NEW r \in Requests, ~Finish(r)
  PROVE  req'[r] = "finished" <=> req[r] = "finished"
  <1>1. CASE UNCHANGED vars
    BY <1>1 DEF vars, httpVars
  <1>2. ASSUME NEW s \in Requests, Dispatch(s)
        PROVE  req'[r] = "finished" <=> req[r] = "finished"
    BY <1>2 DEF Dispatch, TypeOK
  <1>3. ASSUME NEW s \in Requests, Finish(s), s # r
        PROVE  req'[r] = "finished" <=> req[r] = "finished"
    BY <1>3 DEF Finish, TypeOK
  <1>4. ASSUME NEW s \in Requests, Abort(s)
        PROVE  req'[r] = "finished" <=> req[r] = "finished"
    BY <1>4 DEF Abort, TypeOK
  <1>5. ASSUME Next, \A s \in Requests : ~(Dispatch(s) \/ Finish(s) \/ Abort(s))
        PROVE  req' = req
    <2>1. CASE LagTimer \/ MemoryCollector \/ Exit
      BY <2>1, Zenon DEF LagTimer, MemoryCollector, Exit, httpVars
    <2>2. CASE RequireAgain \/ AppendEvent \/ LoseEvent \/ UnsupportedClient
      BY <2>2 DEF RequireAgain, LoadHook, AppendEvent, LoseEvent, UnsupportedClient, httpVars
    <2>3. CASE Enter \/ Blocked \/ Leave \/ (\E x \in Exports : LoadClient(x))
      BY <2>3 DEF Enter, Blocked, Leave, LoadClient, httpVars
    <2>4. CASE \E q \in Queries : StartQuery(q) \/ EndQuery(q)
      BY <2>4 DEF StartQuery, EndQuery, httpVars
    <2>. QED  BY <1>5, <2>1, <2>2, <2>3, <2>4 DEF Next
  <1>. QED  BY <1>1, <1>2, <1>3, <1>4, <1>5

LEMMA ResponseCountedNext ==
  ASSUME TypeOK, StageInv, QueryInv, CompleteInv, [Next]_vars, ~Preload, NEW r \in Requests
  PROVE  ResponseCounted(r)'
  <1>. DEFINE kind == ForRequest(r)
  <1>1. SUFFICES ASSUME recordable', Works("http")'
                 PROVE  Count(kind, Written') = IF req'[r] = "finished" THEN 1 ELSE 0
    BY DEF ResponseCounted, ForRequest, OfType
  <1>2. Works("http")
    BY <1>1, WorksLater
  <1>3. /\ {MemSample, GcPause, Detach} \cap kind = {}
        /\ \A n \in Nat, total \in Nat, final \in BOOLEAN : LoopLag(n, total, final) \notin kind
        /\ Attach \notin kind /\ BlockCall \notin kind
        /\ \A s \in Requests : HttpRequest(s) \in kind => s = r
        /\ \A q \in Queries : DbQuery(q) \notin kind
    BY KindsApart
  <1>4. recordable /\ (Finish(r) \/ Count(kind, Written') = Count(kind, Written))
    <2>. HIDE DEF kind
    <2>. QED  BY <1>1, <1>3, CountStep
  <1>5. Count(kind, Written) = IF req[r] = "finished" THEN 1 ELSE 0
    BY <1>2, <1>4, CompleteParts DEF ResponseCounted
  <1>6. CASE Finish(r)
    <2>1. req[r] = "open" /\ req'[r] = "finished"
      BY <1>6 DEF Finish, TypeOK
    <2>2. store[r] # NoStore /\ "http" \notin disabled'
      BY <1>1, <1>2, <2>1 DEF QueryInv, Works
    <2>3. Records(HttpRequest(r))
      BY <1>6, <2>2, FinishWrites
    <2>4. PICK e \in Event : e = HttpRequest(r)
      BY EventsOfWork
    <2>5. e \in kind
      BY <2>4 DEF ForRequest, OfType, HttpRequest
    <2>6. Count(kind, Append(Written, e)) = Count(kind, Written) + 1
      BY <2>5, CountAppend, WrittenType
    <2>. QED  BY <1>4, <1>5, <2>1, <2>3, <2>4, <2>6 DEF Records
  <1>7. CASE ~Finish(r)
    BY <1>4, <1>5, <1>7, OnlyFinishFinishes
  <1>. QED  BY <1>6, <1>7

(* One line for each query that ended.                                      *)
LEMMA OnlyEndQueryEnds ==
  ASSUME TypeOK, [Next]_vars, ~Preload, NEW q \in Queries, ~EndQuery(q)
  PROVE  query'[q].state = "done" <=> query[q].state = "done"
  <1>1. CASE UNCHANGED vars
    BY <1>1 DEF vars, dbVars
  <1>2. ASSUME NEW p \in Queries, StartQuery(p)
        PROVE  query'[q].state = "done" <=> query[q].state = "done"
    <2>1. PICK r \in Requests \cup {NoRequest}, x \in {y \in Exports : wraps[y] # -1} :
            LET observers == IF "db-query" \in disabled THEN 0 ELSE wraps[x] IN
            query' = [query EXCEPT ![p] =
              [state |-> "running", by |-> r, observers |-> observers,
               scoped |-> getStore(r), inTime |-> r # NoRequest /\ req[r] = "open"]]
      BY <1>2 DEF StartQuery
    <2>2. query[p].state = "idle" /\ query'[p].state = "running"
          /\ \A o \in Queries \ {p} : query'[o] = query[o]
      BY <1>2, <2>1 DEF TypeOK, StartQuery
    <2>. QED  BY <2>2
  <1>3. ASSUME NEW p \in Queries, EndQuery(p), p # q
        PROVE  query'[q].state = "done" <=> query[q].state = "done"
    BY <1>3 DEF EndQuery, TypeOK
  <1>4. ASSUME Next, \A p \in Queries : ~(StartQuery(p) \/ EndQuery(p))
        PROVE  query' = query
    <2>1. CASE LagTimer \/ MemoryCollector \/ Exit
      BY <2>1, Zenon DEF LagTimer, MemoryCollector, Exit, dbVars
    <2>2. CASE RequireAgain \/ AppendEvent \/ LoseEvent \/ UnsupportedClient
      BY <2>2 DEF RequireAgain, LoadHook, AppendEvent, LoseEvent, UnsupportedClient, dbVars
    <2>3. CASE Enter \/ Blocked \/ Leave \/ (\E x \in Exports : LoadClient(x))
      BY <2>3 DEF Enter, Blocked, Leave, LoadClient, dbVars
    <2>4. CASE \E r \in Requests : Dispatch(r) \/ Finish(r) \/ Abort(r)
      BY <2>4 DEF Dispatch, Finish, Abort, dbVars
    <2>. QED  BY <1>4, <2>1, <2>2, <2>3, <2>4 DEF Next
  <1>. QED  BY <1>1, <1>2, <1>3, <1>4

LEMMA QueryCountedNext ==
  ASSUME TypeOK, StageInv, CompleteInv, [Next]_vars, ~Preload, NEW q \in Queries
  PROVE  QueryCounted(q)'
  <1>. DEFINE kind == ForQuery(q)
  <1>1. SUFFICES ASSUME recordable', Works("db-query")'
                 PROVE  Count(kind, Written') = IF query'[q].state = "done" THEN 1 ELSE 0
    BY DEF QueryCounted, ForQuery, OfType
  <1>2. Works("db-query")
    BY <1>1, WorksLater
  <1>3. /\ {MemSample, GcPause, Detach} \cap kind = {}
        /\ \A n \in Nat, total \in Nat, final \in BOOLEAN : LoopLag(n, total, final) \notin kind
        /\ Attach \notin kind /\ BlockCall \notin kind
        /\ \A r \in Requests : HttpRequest(r) \notin kind
        /\ \A p \in Queries : DbQuery(p) \in kind => p = q
    BY KindsApart
  <1>4. recordable /\ (EndQuery(q) \/ Count(kind, Written') = Count(kind, Written))
    <2>. HIDE DEF kind
    <2>. QED  BY <1>1, <1>3, CountStep
  <1>5. Count(kind, Written) = IF query[q].state = "done" THEN 1 ELSE 0
    BY <1>2, <1>4, CompleteParts DEF QueryCounted
  <1>6. CASE EndQuery(q)
    <2>1. query[q].state = "running" /\ query'[q].state = "done"
      BY <1>6 DEF EndQuery, TypeOK, QueryRecord
    <2>2. query[q].observers = 1
      BY <1>2, <2>1, CompleteParts DEF Observed
    <2>3. Records(DbQuery(q))
      BY <1>6, <2>2, EndQueryWrites
    <2>4. PICK e \in Event : e = DbQuery(q)
      BY EventsOfWork
    <2>5. e \in kind
      BY <2>4 DEF ForQuery, OfType, DbQuery
    <2>6. Count(kind, Append(Written, e)) = Count(kind, Written) + 1
      BY <2>5, CountAppend, WrittenType
    <2>. QED  BY <1>4, <1>5, <2>1, <2>3, <2>4, <2>6 DEF Records
  <1>7. CASE ~EndQuery(q)
    BY <1>4, <1>5, <1>7, OnlyEndQueryEnds
  <1>. QED  BY <1>6, <1>7

LEMMA CompleteNext ==
  TypeOK /\ StageInv /\ QueryInv /\ CompleteInv /\ [Next]_vars => CompleteInv'
  <1>. SUFFICES ASSUME TypeOK, StageInv, QueryInv, CompleteInv, [Next]_vars
                PROVE  CompleteInv'
    OBVIOUS
  <1>1. CASE Preload
    BY <1>1, CompletePreload
  <1>2. CASE ~Preload
    <2>1. Watched' /\ Observed'
      <3>1. CASE Next
        BY <1>2, <3>1, WatchedNext, ObservedNext
      <3>2. CASE UNCHANGED vars
        <4>1. Watched /\ Observed
          BY CompleteParts
        <4>2. /\ frames' = frames /\ wraps' = wraps /\ query' = query
              /\ \A c : Works(c)' => Works(c)
          BY <1>2, <3>2, WorksLater DEF vars, callVars, dbVars
        <4>. QED  BY <4>1, <4>2 DEF Watched, Observed
      <3>. QED  BY <3>1, <3>2
    <2>2. StartCounted' /\ SlowCounted'
      BY <1>2, StartCountedNext, SlowCountedNext
    <2>3. /\ \A r \in Requests : ResponseCounted(r)'
          /\ \A q \in Queries : QueryCounted(q)'
      BY <1>2, ResponseCountedNext, QueryCountedNext
    <2>. QED  BY <2>1, <2>2, <2>3, CompletePrime
  <1>. QED  BY <1>1, <1>2

(* A process that can still record holds one line for its start and for     *)
(* each response that finished, each query that ended and each slow call.   *)
THEOREM Complete == Spec => []RecordsAreComplete
  <1>1. Spec => []CompleteInv
    BY CompleteInit, CompleteNext, QueryInit, QueryNext, Types, Stages, PTL DEF Spec
  <1>2. TypeOK /\ CompleteInv => RecordsAreComplete
    <2>. SUFFICES ASSUME TypeOK, CompleteInv, toWrite = <<>>, recordable
                  PROVE  RecordsAreComplete!2
      BY DEF RecordsAreComplete
    <2>1. Written = lines /\ lines \in Seq(Event)
      BY ConcatEmptySeq DEF Written, TypeOK
    <2>2. \A i \in DOMAIN lines : lines[i] \in Event
      <3>. TAKE i \in DOMAIN lines
      <3>. QED  BY <2>1, ElementOfSeq
    <2>3. \A type : {i \in DOMAIN lines : lines[i].type = type}
                      = {i \in DOMAIN lines : lines[i] \in OfType(type)}
      BY <2>2 DEF OfType
    <2>4. \A r : {i \in DOMAIN lines : lines[i].type = "http.request" /\ lines[i].request = r}
                   = {i \in DOMAIN lines : lines[i] \in ForRequest(r)}
      BY <2>2 DEF OfType, ForRequest
    <2>5. \A q : {i \in DOMAIN lines : lines[i].type = "db.query" /\ lines[i].query = q}
                   = {i \in DOMAIN lines : lines[i] \in ForQuery(q)}
      BY <2>2 DEF OfType, ForQuery
    <2>6. /\ \A type : Number(LAMBDA e : e.type = type) = Count(OfType(type), lines)
          /\ \A r : Number(LAMBDA e : e.type = "http.request" /\ e.request = r)
                      = Count(ForRequest(r), lines)
          /\ \A q : Number(LAMBDA e : e.type = "db.query" /\ e.query = q)
                      = Count(ForQuery(q), lines)
      BY <2>3, <2>4, <2>5 DEF Number, Count
    <2>7. /\ Count(OfType("probe.attach"), lines) = IF InSession(FALSE) THEN 1 ELSE 0
          /\ Works("blocking-call") => Count(OfType("block.call"), lines) = slow
          /\ Works("http") => \A r \in Requests :
               Count(ForRequest(r), lines) = IF req[r] = "finished" THEN 1 ELSE 0
          /\ Works("db-query") => \A q \in Queries :
               Count(ForQuery(q), lines) = IF query[q].state = "done" THEN 1 ELSE 0
      BY <2>1, Zenon DEF CompleteInv
    <2>. QED  BY <2>6, <2>7 DEF InSession
  <1>. QED  BY <1>1, <1>2, Types, PTL

-----------------------------------------------------------------------------
AnyOf(s) == CHOOSE x \in s : TRUE

(* What SumFunction computes, set by set. *)
Adds(g, f) ==
  g = [s \in SUBSET DOMAIN f |-> IF s = {} THEN 0 ELSE f[AnyOf(s)] + g[s \ {AnyOf(s)}]]

LEMMA SumIsChosen ==
  ASSUME NEW f
  PROVE  SumFunction(f) = (CHOOSE g : Adds(g, f))[DOMAIN f]
BY DEF SumFunction, SumFunctionOnSet, FoldFunctionOnSet, MapThenFoldSet, Adds, AnyOf

LEMMA AnyIsIn == \A s : s # {} => AnyOf(s) \in s
BY DEF AnyOf

AddsUpTo(g, f, n) ==
  /\ DOMAIN g = {s \in SUBSET DOMAIN f : Cardinality(s) <= n}
  /\ \A s \in DOMAIN g : g[s] = IF s = {} THEN 0 ELSE f[AnyOf(s)] + g[s \ {AnyOf(s)}]
  /\ g = [s \in DOMAIN g |-> g[s]]

LEMMA AddsExist ==
  ASSUME NEW f, IsFiniteSet(DOMAIN f), NEW n \in Nat
  PROVE  \E g : AddsUpTo(g, f, n)
  <1>. DEFINE Bad == {m \in Nat : ~ \E g : AddsUpTo(g, f, m)}
              Parts(m) == {s \in SUBSET DOMAIN f : Cardinality(s) <= m}
  <1>1. SUFFICES ASSUME Bad # {} PROVE FALSE
    OBVIOUS
  <1>2. PICK m \in Bad : \A k \in Bad : m <= k
    BY <1>1, LeastNumber
  <1>3. \A s \in SUBSET DOMAIN f :
          /\ Cardinality(s) \in Nat /\ (Cardinality(s) = 0 <=> s = {})
          /\ s # {} => Cardinality(s \ {AnyOf(s)}) = Cardinality(s) - 1
    BY FS_Subset, FS_CardinalityType, FS_EmptySet, FS_RemoveElement, AnyIsIn
  <1>4. m # 0
    <2>1. AddsUpTo([s \in Parts(0) |-> 0], f, 0)
      BY <1>3 DEF AddsUpTo
    <2>. QED  BY <1>2, <2>1
  <1>5. PICK g : AddsUpTo(g, f, m - 1)
    BY <1>2, <1>4
  <1>. DEFINE h == [s \in Parts(m) |->
                      IF s = {} THEN 0 ELSE f[AnyOf(s)] + g[s \ {AnyOf(s)}]]
  <1>6. ASSUME NEW s \in Parts(m)
        PROVE  h[s] = IF s = {} THEN 0 ELSE f[AnyOf(s)] + h[s \ {AnyOf(s)}]
    <2>1. CASE s = {}
      BY <2>1
    <2>2. CASE s # {}
      <3>. DEFINE r == s \ {AnyOf(s)}
      <3>1. /\ r \in SUBSET DOMAIN f /\ Cardinality(r) = Cardinality(s) - 1
            /\ Cardinality(r) <= m - 1
        BY <1>2, <1>3, <2>2
      <3>2. r \in DOMAIN g /\ r \in Parts(m)
        BY <1>2, <1>3, <1>5, <3>1 DEF AddsUpTo
      <3>3. h[r] = g[r]
        BY <1>5, <3>2 DEF AddsUpTo
      <3>. QED  BY <2>2, <3>2, <3>3
    <2>. QED  BY <2>1, <2>2
  <1>7. AddsUpTo(h, f, m)
    BY <1>6 DEF AddsUpTo
  <1>. QED  BY <1>2, <1>7

LEMMA SumAdds ==
  ASSUME NEW f, IsFiniteSet(DOMAIN f)
  PROVE  \E g : Adds(g, f) /\ SumFunction(f) = g[DOMAIN f]
  <1>. DEFINE n == Cardinality(DOMAIN f)
  <1>1. n \in Nat /\ \A s \in SUBSET DOMAIN f : Cardinality(s) <= n
    BY FS_CardinalityType, FS_Subset
  <1>2. PICK g : AddsUpTo(g, f, n)
    BY <1>1, AddsExist
  <1>3. DOMAIN g = SUBSET DOMAIN f
    BY <1>1, <1>2 DEF AddsUpTo
  <1>4. Adds(g, f)
    BY <1>2, <1>3 DEF AddsUpTo, Adds
  <1>. QED  BY <1>4, SumIsChosen

(* Induction over the parts of a finite set: a smallest counterexample. *)
LEMMA SmallestPart ==
  ASSUME NEW D, IsFiniteSet(D), NEW Bad \in SUBSET SUBSET D, Bad # {}
  PROVE  \E T \in Bad : /\ IsFiniteSet(T)
                        /\ \A x \in T : T \ {x} \notin Bad
  <1>. DEFINE Sizes == {n \in Nat : \E T \in Bad : Cardinality(T) = n}
  <1>1. \A T \in Bad : IsFiniteSet(T) /\ Cardinality(T) \in Nat
    BY FS_Subset, FS_CardinalityType
  <1>2. Sizes # {}
    BY <1>1
  <1>3. PICK n \in Sizes : \A m \in Sizes : n <= m
    BY <1>2, LeastNumber
  <1>4. PICK T \in Bad : Cardinality(T) = n
    BY <1>3
  <1>5. ASSUME NEW x \in T PROVE T \ {x} \notin Bad
    <2>1. Cardinality(T \ {x}) = n - 1
      BY <1>1, <1>4, FS_RemoveElement
    <2>2. n - 1 \notin Sizes
      BY <1>3
    <2>. QED  BY <1>1, <2>1, <2>2
  <1>. QED  BY <1>1, <1>4, <1>5

SumOver(f, T) == SumFunction([i \in T |-> f[i]])

LEMMA SumOfPart ==
  ASSUME NEW f, IsFiniteSet(DOMAIN f), NEW g, Adds(g, f), NEW T \in SUBSET DOMAIN f
  PROVE  SumOver(f, T) = g[T]
  <1>. DEFINE p == [i \in T |-> f[i]]
  <1>1. IsFiniteSet(T) /\ DOMAIN p = T
    BY FS_Subset
  <1>2. PICK h : Adds(h, p) /\ SumFunction(p) = h[T]
    BY <1>1, SumAdds
  <1>. DEFINE Bad == {s \in SUBSET T : h[s] # g[s]}
  <1>3. ASSUME Bad # {} PROVE FALSE
    <2>1. PICK s \in Bad : \A x \in s : s \ {x} \notin Bad
      BY <1>1, <1>3, SmallestPart
    <2>2. h[s] = IF s = {} THEN 0 ELSE p[AnyOf(s)] + h[s \ {AnyOf(s)}]
      BY <1>2, <2>1 DEF Adds
    <2>3. g[s] = IF s = {} THEN 0 ELSE f[AnyOf(s)] + g[s \ {AnyOf(s)}]
      BY <2>1 DEF Adds
    <2>4. s # {} => AnyOf(s) \in s /\ h[s \ {AnyOf(s)}] = g[s \ {AnyOf(s)}]
      BY <2>1, AnyIsIn
    <2>. QED  BY <2>1, <2>2, <2>3, <2>4
  <1>. QED  BY <1>2, <1>3 DEF SumOver

LEMMA SumStep ==
  ASSUME NEW D, IsFiniteSet(D), NEW f \in [D -> Nat], NEW T \in SUBSET D
  PROVE  SumOver(f, T) = IF T = {} THEN 0
                         ELSE f[AnyOf(T)] + SumOver(f, T \ {AnyOf(T)})
  <1>1. PICK g : Adds(g, f)
    BY SumAdds
  <1>2. SumOver(f, T) = g[T] /\ SumOver(f, T \ {AnyOf(T)}) = g[T \ {AnyOf(T)}]
    BY <1>1, SumOfPart
  <1>. QED  BY <1>1, <1>2 DEF Adds

LEMMA SumType ==
  ASSUME NEW D, IsFiniteSet(D), NEW f \in [D -> Nat], NEW T \in SUBSET D
  PROVE  SumOver(f, T) \in Nat
  <1>. DEFINE Bad == {s \in SUBSET D : SumOver(f, s) \notin Nat}
  <1>1. ASSUME Bad # {} PROVE FALSE
    <2>1. PICK s \in Bad : \A x \in s : s \ {x} \notin Bad
      BY <1>1, SmallestPart
    <2>2. s # {} => AnyOf(s) \in s /\ SumOver(f, s \ {AnyOf(s)}) \in Nat /\ f[AnyOf(s)] \in Nat
      BY <2>1, AnyIsIn
    <2>3. SumOver(f, s) = IF s = {} THEN 0 ELSE f[AnyOf(s)] + SumOver(f, s \ {AnyOf(s)})
      BY <2>1, SumStep
    <2>4. SumOver(f, s) \in Nat
      BY <2>2, <2>3
    <2>. QED  BY <2>1, <2>4
  <1>. QED  BY <1>1

LEMMA SumTake ==
  ASSUME NEW D, IsFiniteSet(D), NEW f \in [D -> Nat], NEW T \in SUBSET D, NEW x \in T
  PROVE  SumOver(f, T) = f[x] + SumOver(f, T \ {x})
  <1>. DEFINE Bad == {s \in SUBSET D : \E y \in s : SumOver(f, s) # f[y] + SumOver(f, s \ {y})}
  <1>1. ASSUME Bad # {} PROVE FALSE
    <2>1. PICK s \in Bad : \A y \in s : s \ {y} \notin Bad
      BY <1>1, SmallestPart
    <2>2. PICK y \in s : SumOver(f, s) # f[y] + SumOver(f, s \ {y})
      BY <2>1
    <2>. DEFINE c == AnyOf(s)
    <2>3. c \in s /\ SumOver(f, s) = f[c] + SumOver(f, s \ {c})
      BY <2>2, AnyIsIn, SumStep
    <2>4. c # y
      BY <2>2, <2>3
    <2>5. SumOver(f, s \ {c}) = f[y] + SumOver(f, (s \ {c}) \ {y})
      BY <2>1, <2>2, <2>3, <2>4
    <2>6. SumOver(f, s \ {y}) = f[c] + SumOver(f, (s \ {y}) \ {c})
      BY <2>1, <2>2, <2>3, <2>4
    <2>7. (s \ {c}) \ {y} = (s \ {y}) \ {c}
      OBVIOUS
    <2>8. SumOver(f, (s \ {c}) \ {y}) \in Nat /\ f[c] \in Nat /\ f[y] \in Nat
      BY <2>1, <2>2, <2>3, SumType
    <2>. QED  BY <2>2, <2>3, <2>5, <2>6, <2>7, <2>8
  <1>. QED  BY <1>1

(* A sum over two parts that have nothing in common. *)
LEMMA SumUnion ==
  ASSUME NEW D, IsFiniteSet(D), NEW f \in [D -> Nat],
         NEW T \in SUBSET D, NEW U \in SUBSET D, T \cap U = {}
  PROVE  SumOver(f, T \cup U) = SumOver(f, T) + SumOver(f, U)
  <1>. DEFINE Bad == {s \in SUBSET D : s \cap U = {}
                        /\ SumOver(f, s \cup U) # SumOver(f, s) + SumOver(f, U)}
  <1>1. ASSUME Bad # {} PROVE FALSE
    <2>1. PICK s \in Bad : \A x \in s : s \ {x} \notin Bad
      BY <1>1, SmallestPart
    <2>2. SumOver(f, U) \in Nat /\ SumOver(f, {}) = 0
      BY SumType, SumStep
    <2>3. s # {}
      <3>1. s = {} => s \cup U = U
        OBVIOUS
      <3>. QED  BY <2>1, <2>2, <3>1
    <2>4. PICK x \in s : TRUE
      BY <2>3
    <2>5. SumOver(f, s) = f[x] + SumOver(f, s \ {x})
      BY <2>1, <2>4, SumTake
    <2>6. SumOver(f, s \cup U) = f[x] + SumOver(f, (s \cup U) \ {x})
      BY <2>1, <2>4, SumTake
    <2>7. (s \cup U) \ {x} = (s \ {x}) \cup U /\ (s \ {x}) \cap U = {}
      BY <2>1, <2>4
    <2>8. SumOver(f, (s \ {x}) \cup U) = SumOver(f, s \ {x}) + SumOver(f, U)
      BY <2>1, <2>4, <2>7
    <2>9. SumOver(f, s \ {x}) \in Nat /\ f[x] \in Nat
      BY <2>1, <2>4, SumType
    <2>. QED  BY <2>1, <2>2, <2>5, <2>6, <2>7, <2>8, <2>9
  <1>. QED  BY <1>1

(* Renaming the indices of a sum. *)
LEMMA SumRenamed ==
  ASSUME NEW D, IsFiniteSet(D), NEW f \in [D -> Nat], NEW E, IsFiniteSet(E),
         NEW h \in [E -> Nat], NEW b \in [D -> E],
         \A x, y \in D : b[x] = b[y] => x = y,
         \A x \in D : h[b[x]] = f[x],
         NEW T \in SUBSET D
  PROVE  SumOver(h, {b[x] : x \in T}) = SumOver(f, T)
  <1>. DEFINE Image(s) == {b[x] : x \in s}
              Bad == {s \in SUBSET D : SumOver(h, Image(s)) # SumOver(f, s)}
  <1>1. ASSUME Bad # {} PROVE FALSE
    <2>1. PICK s \in Bad : \A x \in s : s \ {x} \notin Bad
      BY <1>1, SmallestPart
    <2>2. s # {}
      <3>1. SumOver(f, {}) = 0 /\ SumOver(h, {}) = 0 /\ Image({}) = {}
        BY SumStep
      <3>. QED  BY <2>1, <3>1
    <2>3. PICK x \in s : TRUE
      BY <2>2
    <2>4. Image(s) \in SUBSET E /\ b[x] \in Image(s)
          /\ Image(s) \ {b[x]} = Image(s \ {x})
      BY <2>1, <2>3
    <2>5. SumOver(h, Image(s)) = h[b[x]] + SumOver(h, Image(s) \ {b[x]})
      BY <2>4, SumTake
    <2>6. SumOver(f, s) = f[x] + SumOver(f, s \ {x})
      BY <2>1, <2>3, SumTake
    <2>7. SumOver(h, Image(s \ {x})) = SumOver(f, s \ {x})
      BY <2>1, <2>3
    <2>8. x \in D /\ h[b[x]] = f[x]
      BY <2>1, <2>3
    <2>9. SumOver(h, Image(s)) = SumOver(f, s)
      BY <2>4, <2>5, <2>6, <2>7, <2>8
    <2>. QED  BY <2>1, <2>9
  <1>. QED  BY <1>1

LEMMA SumMapped ==
  ASSUME NEW D, IsFiniteSet(D), NEW f \in [D -> Nat], NEW E, IsFiniteSet(E),
         NEW h \in [E -> Nat], NEW b \in [D -> E],
         \A x, y \in D : b[x] = b[y] => x = y,
         \A y \in E : \E x \in D : b[x] = y,
         \A x \in D : h[b[x]] = f[x]
  PROVE  SumFunction(h) = SumFunction(f)
  <1>1. {b[x] : x \in D} = E
    OBVIOUS
  <1>2. D \in SUBSET D
    OBVIOUS
  <1>3. SumOver(h, {b[x] : x \in D}) = SumOver(f, D)
    BY <1>2, SumRenamed
  <1>4. SumOver(h, E) = SumFunction(h) /\ SumOver(f, D) = SumFunction(f)
    <2>1. h = [y \in E |-> h[y]] /\ f = [x \in D |-> f[x]]
      OBVIOUS
    <2>. QED  BY <2>1 DEF SumOver
  <1>. QED  BY <1>1, <1>3, <1>4

(* The sums of the groups add up to the sum of all. *)
LEMMA SumOfGroups ==
  ASSUME NEW D, IsFiniteSet(D), NEW f \in [D -> Nat], NEW key \in [D -> Nat],
         NEW V, IsFiniteSet(V), NEW K \in SUBSET V,
         NEW g \in [V -> Nat], \A v \in V : g[v] = SumOver(f, {i \in D : key[i] = v})
  PROVE  SumOver(g, K) = SumOver(f, {i \in D : key[i] \in K})
  <1>. DEFINE With(s) == {i \in D : key[i] \in s}
              Bad == {s \in SUBSET V : SumOver(g, s) # SumOver(f, With(s))}
  <1>1. ASSUME Bad # {} PROVE FALSE
    <2>1. PICK s \in Bad : \A x \in s : s \ {x} \notin Bad
      BY <1>1, SmallestPart
    <2>2. s # {}
      <3>1. SumOver(g, {}) = 0 /\ SumOver(f, {}) = 0 /\ With({}) = {}
        BY SumStep
      <3>. QED  BY <2>1, <3>1
    <2>3. PICK v \in s : TRUE
      BY <2>2
    <2>. DEFINE One  == {i \in D : key[i] = v}
                Rest == With(s \ {v})
    <2>4. /\ With(s) = One \cup Rest /\ One \cap Rest = {}
          /\ One \in SUBSET D /\ Rest \in SUBSET D
      BY <2>3
    <2>5. SumOver(f, With(s)) = SumOver(f, One) + SumOver(f, With(s \ {v}))
      <3>. HIDE DEF One, Rest
      <3>1. SumOver(f, One \cup Rest) = SumOver(f, One) + SumOver(f, Rest)
        BY <2>4, SumUnion
      <3>. QED  BY <2>4, <3>1 DEF Rest
    <2>6. SumOver(g, s) = g[v] + SumOver(g, s \ {v})
      BY <2>1, <2>3, SumTake
    <2>7. SumOver(g, s \ {v}) = SumOver(f, With(s \ {v}))
      BY <2>1, <2>3
    <2>8. g[v] = SumOver(f, One)
      BY <2>1, <2>3
    <2>9. SumOver(g, s) = SumOver(f, With(s))
      BY <2>5, <2>6, <2>7, <2>8
    <2>. QED  BY <2>1, <2>9
  <1>. QED  BY <1>1

LEMMA ImageSize ==
  ASSUME NEW D, IsFiniteSet(D), NEW b, DOMAIN b = D
  PROVE  /\ IsFiniteSet({b[x] : x \in D})
         /\ (\A x, y \in D : b[x] = b[y] => x = y) =>
              Cardinality({b[x] : x \in D}) = Cardinality(D)
  <1>. DEFINE E == {b[x] : x \in D}
              c == [x \in D |-> b[x]]
  <1>1. c \in Surjection(D, E)
    BY DEF Surjection
  <1>2. (\A x, y \in D : b[x] = b[y] => x = y) => c \in Injection(D, E)
    BY DEF Injection, IsInjective
  <1>3. IsFiniteSet(E) /\ (Cardinality(E) = Cardinality(D) <=> c \in Injection(D, E))
    <2>. HIDE DEF E, c
    <2>. QED  BY <1>1, FS_Surjection
  <1>. QED  BY <1>2, <1>3

(* A strict total order: how many elements come before one is its place.   *)
Ranks(rank, S, R) ==
  /\ \A x \in S : <<x, x>> \notin R
  /\ \A x, y, z \in S : <<x, y>> \in R /\ <<y, z>> \in R => <<x, z>> \in R
  /\ \A x, y \in S : x # y => <<x, y>> \in R \/ <<y, x>> \in R
  /\ rank = [x \in S |-> Cardinality({y \in S : <<y, x>> \in R})]

LEMMA RankIsPlace ==
  ASSUME NEW S, IsFiniteSet(S), NEW R, NEW rank, Ranks(rank, S, R)
  PROVE  /\ \A x \in S : rank[x] \in 0 .. Cardinality(S) - 1
         /\ \A x, y \in S : <<x, y>> \in R <=> rank[x] < rank[y]
         /\ \A x, y \in S : rank[x] = rank[y] => x = y
         /\ \A k \in 0 .. Cardinality(S) - 1 : \E x \in S : rank[x] = k
  <1>. DEFINE Before(x) == {y \in S : <<y, x>> \in R}
  <1>1. \A x \in S : rank[x] = Cardinality(Before(x))
    BY DEF Ranks
  <1>2. Cardinality(S) \in Nat
    BY FS_CardinalityType
  <1>3. ASSUME NEW x \in S PROVE rank[x] \in 0 .. Cardinality(S) - 1
    <2>1. Before(x) \in SUBSET S /\ x \notin Before(x)
      BY DEF Ranks
    <2>2. /\ IsFiniteSet(Before(x)) /\ Cardinality(Before(x)) <= Cardinality(S)
          /\ Cardinality(S) # Cardinality(Before(x))
      BY <2>1, FS_Subset
    <2>3. Cardinality(Before(x)) \in Nat
      BY <2>2, FS_CardinalityType
    <2>4. rank[x] = Cardinality(Before(x))
      BY <1>1
    <2>. HIDE DEF Before
    <2>. QED  BY <1>2, <2>2, <2>3, <2>4
  <1>4. ASSUME NEW x \in S, NEW y \in S, <<x, y>> \in R PROVE rank[x] < rank[y]
    <2>1. Before(x) \in SUBSET Before(y) /\ x \in Before(y) /\ x \notin Before(x)
      BY <1>4 DEF Ranks
    <2>2. IsFiniteSet(Before(y))
      BY FS_Subset
    <2>3. /\ Cardinality(Before(x)) <= Cardinality(Before(y))
          /\ Cardinality(Before(y)) # Cardinality(Before(x))
      <3>. HIDE DEF Before
      <3>. QED  BY <2>1, <2>2, FS_Subset
    <2>. QED  BY <1>1, <1>3, <2>3
  <1>5. ASSUME NEW x \in S, NEW y \in S PROVE <<x, y>> \in R <=> rank[x] < rank[y]
    <2>1. CASE <<x, y>> \in R
      BY <2>1, <1>4
    <2>2. CASE x = y
      BY <2>2, <1>3 DEF Ranks
    <2>3. CASE <<y, x>> \in R
      <3>1. rank[y] < rank[x] /\ ~(rank[x] < rank[y])
        BY <1>3, <1>4, <2>3
      <3>. QED  BY <3>1, <1>4
    <2>. QED  BY <2>1, <2>2, <2>3 DEF Ranks
  <1>6. ASSUME NEW x \in S, NEW y \in S, rank[x] = rank[y] PROVE x = y
    <2>1. ~(rank[x] < rank[y]) /\ ~(rank[y] < rank[x])
      BY <1>3, <1>6
    <2>2. x # y => <<x, y>> \in R \/ <<y, x>> \in R
      BY DEF Ranks
    <2>. QED  BY <1>4, <2>1, <2>2
  <1>7. rank \in Injection(S, 0 .. Cardinality(S) - 1)
    BY <1>3, <1>6 DEF Ranks, Injection, IsInjective
  <1>8. rank \in Surjection(S, 0 .. Cardinality(S) - 1)
    <2>1. /\ IsFiniteSet(0 .. Cardinality(S) - 1)
          /\ Cardinality(0 .. Cardinality(S) - 1) = Cardinality(S)
      BY <1>2, FS_Interval
    <2>. QED  BY <1>7, <2>1, FS_Injection
  <1>9. \A k \in 0 .. Cardinality(S) - 1 : \E x \in S : rank[x] = k
    BY <1>8 DEF Surjection
  <1>. QED  BY <1>3, <1>5, <1>6, <1>9

(* s lists the elements of S along R, each once.                           *)
Lists(s, S, R) ==
  /\ s = [k \in 1 .. Cardinality(S) |-> s[k]]
  /\ \A k \in 1 .. Cardinality(S) : s[k] \in S
  /\ \A x \in S : \E k \in 1 .. Cardinality(S) : s[k] = x
  /\ \A j, k \in 1 .. Cardinality(S) : s[j] = s[k] => j = k
  /\ \A j, k \in 1 .. Cardinality(S) : <<s[j], s[k]>> \in R <=> j < k

LEMMA RankLists ==
  ASSUME NEW S, IsFiniteSet(S), NEW R, NEW rank, Ranks(rank, S, R), NEW s,
         s = [k \in 1 .. Cardinality(S) |-> s[k]],
         \A k \in 1 .. Cardinality(S) :
           (\E x \in S : rank[x] = k - 1) => s[k] \in S /\ rank[s[k]] = k - 1
  PROVE  Lists(s, S, R)
  <1>1. Cardinality(S) \in Nat
    BY FS_CardinalityType
  <1>2. ASSUME NEW k \in 1 .. Cardinality(S) PROVE s[k] \in S /\ rank[s[k]] = k - 1
    <2>1. k - 1 \in 0 .. Cardinality(S) - 1
      BY <1>1
    <2>. QED  BY <2>1, RankIsPlace
  <1>3. ASSUME NEW x \in S PROVE \E k \in 1 .. Cardinality(S) : s[k] = x
    <2>1. rank[x] + 1 \in 1 .. Cardinality(S) /\ (rank[x] + 1) - 1 = rank[x]
      BY <1>1, RankIsPlace
    <2>2. rank[s[rank[x] + 1]] = rank[x] /\ s[rank[x] + 1] \in S
      BY <1>2, <2>1
    <2>. QED  BY <2>1, <2>2, RankIsPlace
  <1>4. ASSUME NEW j \in 1 .. Cardinality(S), NEW k \in 1 .. Cardinality(S)
        PROVE  /\ s[j] = s[k] => j = k
               /\ <<s[j], s[k]>> \in R <=> j < k
    <2>1. <<s[j], s[k]>> \in R <=> rank[s[j]] < rank[s[k]]
      BY <1>2, RankIsPlace
    <2>. QED  BY <1>2, <2>1
  <1>. QED  BY <1>2, <1>3, <1>4 DEF Lists

LEMMA ListsAll ==
  ASSUME NEW S, IsFiniteSet(S), NEW R, NEW s, Lists(s, S, R)
  PROVE  /\ DOMAIN s = 1 .. Cardinality(S) /\ Cardinality(S) \in Nat
         /\ Len(s) = Cardinality(S) /\ s \in Seq(S) /\ ToSet(s) = S
  <1>1. DOMAIN s = 1 .. Cardinality(S) /\ s \in [1 .. Cardinality(S) -> S]
    BY DEF Lists
  <1>2. Cardinality(S) \in Nat
    BY FS_CardinalityType
  <1>3. s \in Seq(S) /\ Len(s) = Cardinality(S)
    BY <1>1, <1>2
  <1>4. ToSet(s) = S
    BY <1>1 DEF ToSet, Lists
  <1>. QED  BY <1>1, <1>2, <1>3, <1>4

Earlier(ms) ==
  {p \in (DOMAIN ms) \X (DOMAIN ms) :
     ms[p[1]] < ms[p[2]] \/ (ms[p[1]] = ms[p[2]] /\ p[1] < p[2])}

LEMMA AscendingLists ==
  ASSUME NEW D \in SUBSET Nat, IsFiniteSet(D), NEW ms \in [D -> Nat]
  PROVE  \E order : /\ Lists(order, D, Earlier(ms))
                    /\ Ascending(ms) = [k \in 1 .. Cardinality(D) |-> ms[order[k]]]
  <1>. DEFINE R == Earlier(ms)
              rank == [i \in D |-> Cardinality({j \in D : <<j, i>> \in R})]
              order == [k \in 1 .. Cardinality(D) |->
                          CHOOSE i \in D : Cardinality({j \in D : ms[j] < ms[i] \/ (ms[j] = ms[i] /\ j < i)}) = k - 1]
  <1>1. Ascending(ms) = [k \in 1 .. Cardinality(D) |-> ms[order[k]]]
    BY DEF Ascending, Sorted
  <1>2. \A i, j \in D : <<j, i>> \in R <=> ms[j] < ms[i] \/ (ms[j] = ms[i] /\ j < i)
    BY DEF Earlier
  <1>3. Ranks(rank, D, R)
    <2>1. \A i \in D : <<i, i>> \notin R
      BY <1>2
    <2>2. \A i, j, k \in D : <<i, j>> \in R /\ <<j, k>> \in R => <<i, k>> \in R
      BY <1>2
    <2>3. \A i, j \in D : i # j => <<i, j>> \in R \/ <<j, i>> \in R
      BY <1>2
    <2>. QED  BY <2>1, <2>2, <2>3 DEF Ranks
  <1>4. ASSUME NEW k \in 1 .. Cardinality(D), \E i \in D : rank[i] = k - 1
        PROVE  order[k] \in D /\ rank[order[k]] = k - 1
    <2>1. \A i \in D : {j \in D : <<j, i>> \in R}
                         = {j \in D : ms[j] < ms[i] \/ (ms[j] = ms[i] /\ j < i)}
      BY <1>2
    <2>2. \A i \in D : rank[i] = Cardinality({j \in D : ms[j] < ms[i] \/ (ms[j] = ms[i] /\ j < i)})
      BY <2>1
    <2>. HIDE DEF rank, R
    <2>. QED  BY <1>4, <2>2
  <1>5. Lists(order, D, R)
    <2>1. order = [k \in 1 .. Cardinality(D) |-> order[k]]
      OBVIOUS
    <2>. HIDE DEF rank, R, order
    <2>. QED  BY <1>3, <1>4, <2>1, RankLists
  <1>. QED  BY <1>1, <1>5

(* What makes v the k-th of the numbers ms in ascending order.             *)
IsKth(v, ms, k) ==
  /\ v \in {ms[i] : i \in DOMAIN ms}
  /\ k <= Cardinality({i \in DOMAIN ms : ms[i] <= v})
  /\ Cardinality({i \in DOMAIN ms : ms[i] < v}) < k

LEMMA AscendingKth ==
  ASSUME NEW D \in SUBSET Nat, IsFiniteSet(D), NEW ms \in [D -> Nat],
         NEW k \in 1 .. Cardinality(D)
  PROVE  IsKth(Ascending(ms)[k], ms, k)
  <1>1. PICK order : /\ Lists(order, D, Earlier(ms))
                     /\ Ascending(ms) = [j \in 1 .. Cardinality(D) |-> ms[order[j]]]
    BY AscendingLists
  <1>. DEFINE n == Cardinality(D)
              v == ms[order[k]]
              First(m) == {order[j] : j \in 1 .. m}
  <1>2. n \in Nat /\ order[k] \in D /\ v \in Nat /\ Ascending(ms)[k] = v
    BY <1>1, FS_CardinalityType DEF Lists
  <1>3. \A j \in 1 .. n : order[j] \in D
    BY <1>1 DEF Lists
  <1>4. ASSUME NEW m \in 0 .. n PROVE Cardinality(First(m)) = m /\ IsFiniteSet(First(m))
    <2>. DEFINE b == [j \in 1 .. m |-> order[j]]
    <2>1. IsFiniteSet(1 .. m) /\ Cardinality(1 .. m) = m
      BY FS_Interval
    <2>2. \A x, y \in 1 .. m : b[x] = b[y] => x = y
      BY <1>1, <1>2 DEF Lists
    <2>3. First(m) = {b[x] : x \in 1 .. m}
      OBVIOUS
    <2>. QED
      <3>1. DOMAIN b = 1 .. m
        OBVIOUS
      <3>. HIDE DEF b, First
      <3>. QED  BY <2>1, <2>2, <2>3, <3>1, ImageSize
  <1>5. \A j \in 1 .. n : order[j] \in D /\ (j <= k => ms[order[j]] <= v)
                          /\ (ms[order[j]] < v => j < k)
    <2>1. ASSUME NEW j \in 1 .. n
          PROVE  (j <= k => ms[order[j]] <= v) /\ (ms[order[j]] < v => j < k)
      <3>1. <<order[j], order[k]>> \in Earlier(ms) <=> j < k
        BY <1>1 DEF Lists
      <3>2. j = k \/ (j < k <=> ms[order[j]] < v \/ (ms[order[j]] = v /\ order[j] < order[k]))
        BY <1>2, <1>3, <3>1 DEF Earlier
      <3>3. j \in Nat /\ k \in Nat
        BY <1>2
      <3>4. ms[order[j]] \in Nat /\ ms[order[k]] \in Nat
        BY <1>2, <1>3
      <3>. QED  BY <3>2, <3>3, <3>4
    <2>. QED  BY <1>3, <2>1
  <1>6. k <= Cardinality({i \in D : ms[i] <= v})
    <2>. DEFINE T == {i \in D : ms[i] <= v}
    <2>1. First(k) \in SUBSET T
      BY <1>2, <1>5
    <2>2. Cardinality(First(k)) = k
      BY <1>2, <1>4
    <2>3. IsFiniteSet(T) /\ T \in SUBSET D
      BY FS_Subset
    <2>4. Cardinality(First(k)) <= Cardinality(T)
      <3>. HIDE DEF T, First
      <3>. QED  BY <2>1, <2>3, FS_Subset
    <2>. QED  BY <2>2, <2>4
  <1>7. Cardinality({i \in D : ms[i] < v}) < k
    <2>. DEFINE T == {i \in D : ms[i] < v}
    <2>1. T \in SUBSET First(k - 1)
      <3>1. ASSUME NEW i \in T PROVE i \in First(k - 1)
        <4>1. PICK j \in 1 .. n : order[j] = i
          BY <1>1 DEF Lists
        <4>2. j < k
          BY <1>5, <4>1
        <4>3. j \in 1 .. k - 1
          BY <1>2, <4>1, <4>2
        <4>. QED  BY <4>1, <4>3
      <3>. QED  BY <3>1
    <2>2. Cardinality(First(k - 1)) = k - 1 /\ IsFiniteSet(First(k - 1))
      <3>1. k - 1 \in 0 .. n
        BY <1>2
      <3>. HIDE DEF First
      <3>. QED  BY <1>4, <3>1
    <2>3. Cardinality(T) <= Cardinality(First(k - 1)) /\ IsFiniteSet(T)
      <3>. HIDE DEF T, First
      <3>. QED  BY <2>1, <2>2, FS_Subset
    <2>4. Cardinality(T) \in Nat
      BY <2>3, FS_CardinalityType
    <2>. HIDE DEF T, First
    <2>5. Cardinality(T) < k
      BY <1>2, <2>2, <2>3, <2>4
    <2>. QED  BY <2>5 DEF T
  <1>. QED  BY <1>2, <1>6, <1>7 DEF IsKth

LEMMA OnlyOneKth ==
  ASSUME NEW D, IsFiniteSet(D), NEW ms \in [D -> Nat], NEW k \in Nat,
         NEW v, NEW w, IsKth(v, ms, k), IsKth(w, ms, k)
  PROVE  v = w
  <1>1. v \in Nat /\ w \in Nat
    BY DEF IsKth
  <1>2. ASSUME NEW x \in Nat, NEW y \in Nat, x < y, IsKth(x, ms, k), IsKth(y, ms, k)
        PROVE  FALSE
    <2>. DEFINE S == {i \in D : ms[i] <= x}
                T == {i \in D : ms[i] < y}
    <2>1. S \in SUBSET T /\ T \in SUBSET D
      BY <1>2
    <2>2. k <= Cardinality(S) /\ Cardinality(T) < k
      BY <1>2 DEF IsKth
    <2>. HIDE DEF S, T
    <2>3. IsFiniteSet(T) /\ Cardinality(S) <= Cardinality(T) /\ IsFiniteSet(S)
      BY <2>1, FS_Subset
    <2>4. Cardinality(T) \in Nat /\ Cardinality(S) \in Nat
      BY <2>3, FS_CardinalityType
    <2>. QED  BY <2>2, <2>3, <2>4
  <1>. QED  BY <1>1, <1>2

-----------------------------------------------------------------------------
(* The file of a session. *)

EventsInv == topic \in Topics /\ events \in Seq(Line) /\ LagsGrow(events)

LEMMA EventsAreLines == EventsSpec => []EventsInv
  <1>1. EventsInit => EventsInv
    BY AnalysisAssumption DEF EventsInit, EventsInv
  <1>2. EventsInv /\ [EventsNext]_eventsVars => EventsInv'
    <2>1. SUFFICES ASSUME EventsInv, [EventsNext]_eventsVars PROVE EventsInv'
      OBVIOUS
    <2>2. CASE EventsNext
      <3>1. PICK line \in topic.lines : events' = Append(events, line) /\ LagsGrow(events')
        BY <2>2 DEF EventsNext, AppendLine
      <3>2. line \in Line /\ topic' = topic
        BY <2>1, <2>2, AnalysisAssumption DEF EventsNext, AppendLine, EventsInv
      <3>3. events' \in Seq(Line)
        BY <2>1, <3>1, <3>2, AppendProperties DEF EventsInv
      <3>4. LagsGrow(events)'
        BY <3>1 DEF LagsGrow, Of
      <3>. QED  BY <2>1, <3>2, <3>3, <3>4 DEF EventsInv
    <2>3. CASE UNCHANGED eventsVars
      BY <2>1, <2>3 DEF EventsInv, eventsVars, LagsGrow, Of
    <2>. QED  BY <2>1, <2>2, <2>3
  <1>. QED  BY <1>1, <1>2, PTL DEF EventsSpec

LEMMA LineParts ==
  ASSUME NEW line \in Line
  PROVE  /\ line.type = "block.call" => line.site \in Nat /\ line.ms \in Nat
         /\ line.type = "loop.lag" =>
              line.count \in Nat /\ line.p99 \in Nat /\ line.max \in Nat /\ line.final \in BOOLEAN
         /\ line.type = "http.request" =>
              line.route \in Nat /\ line.status \in Nat /\ line.ms \in Nat /\ line.dbQueries \in Nat
         /\ line.type = "db.query" =>
              line.model \in Nat /\ line.ms \in Nat /\ line.attributed \in BOOLEAN
         /\ line.type = "mem.sample" => line.rss \in Nat
         /\ line.type = "gc.pause" => line.ms \in Nat
         /\ line.pid \in Pids
BY DEF Line, AttachLine, BlockLine, LagLine, HttpLine, DbLine, MemLine, GcLine, OtherLine, Names

LEMMA OfPlaces ==
  ASSUME NEW file \in Seq(Line), NEW type
  PROVE  /\ DOMAIN file = 1 .. Len(file) /\ Len(file) \in Nat
         /\ IsFiniteSet(DOMAIN file) /\ DOMAIN file \in SUBSET Nat
         /\ Of(type, file) \in SUBSET DOMAIN file
         /\ IsFiniteSet(Of(type, file))
         /\ \A i \in Of(type, file) : file[i] \in Line /\ file[i].type = type
  <1>1. DOMAIN file = 1 .. Len(file) /\ Len(file) \in Nat
    OBVIOUS
  <1>2. IsFiniteSet(DOMAIN file)
    BY <1>1, FS_Interval
  <1>3. Of(type, file) \in SUBSET DOMAIN file
    BY DEF Of
  <1>4. \A i \in Of(type, file) : file[i] \in Line /\ file[i].type = type
    BY DEF Of
  <1>. QED  BY <1>1, <1>2, <1>3, <1>4, FS_Subset

LEMMA MinOfTwo ==
  ASSUME NEW a \in Int, NEW b \in Int
  PROVE  Min({a, b}) = IF a <= b THEN a ELSE b
BY DEF Min

LEMMA MaxOfTwo ==
  ASSUME NEW a \in Int, NEW b \in Int
  PROVE  Max({a, b}) = IF a >= b THEN a ELSE b
BY DEF Max

(* Rows by value, the larger first, and then by name.                      *)
Heavier(val, name) ==
  {p \in (DOMAIN val) \X (DOMAIN val) :
     val[p[1]] > val[p[2]] \/ (val[p[1]] = val[p[2]] /\ name[p[1]] < name[p[2]])}

LEMMA HeavierRanks ==
  ASSUME NEW S, NEW val \in [S -> Nat], NEW name \in [S -> Nat],
         \A x, y \in S : name[x] = name[y] => x = y
  PROVE  Ranks([x \in S |-> Cardinality({y \in S : <<y, x>> \in Heavier(val, name)})],
               S, Heavier(val, name))
  <1>. DEFINE R == Heavier(val, name)
  <1>1. \A x, y \in S : <<x, y>> \in R
                          <=> val[x] > val[y] \/ (val[x] = val[y] /\ name[x] < name[y])
    BY DEF Heavier
  <1>2. \A x \in S : <<x, x>> \notin R
    BY <1>1
  <1>3. \A x, y, z \in S : <<x, y>> \in R /\ <<y, z>> \in R => <<x, z>> \in R
    BY <1>1
  <1>4. \A x, y \in S : x # y => <<x, y>> \in R \/ <<y, x>> \in R
    BY <1>1
  <1>. QED  BY <1>2, <1>3, <1>4 DEF Ranks

-----------------------------------------------------------------------------
(* Endpoints. *)

Routes(file) == {file[i].route : i \in Of("http.request", file)}
EndpointRows(file) == {EndpointRow(route, file) : route \in Routes(file)}

(* The durations of the requests of a route.                               *)
Durations(route, file) == [i \in RequestsOf(route, file) |-> file[i].ms]

LEMMA RequestFacts ==
  ASSUME NEW file \in Seq(Line), NEW route \in Routes(file)
  PROVE  /\ RequestsOf(route, file) \in SUBSET Nat /\ IsFiniteSet(RequestsOf(route, file))
         /\ Cardinality(RequestsOf(route, file)) \in Nat \ {0}
         /\ Durations(route, file) \in [RequestsOf(route, file) -> Nat]
         /\ \A i \in RequestsOf(route, file) : file[i].dbQueries \in Nat
         /\ route \in Nat
  <1>. DEFINE requests == RequestsOf(route, file)
              all == Of("http.request", file)
  <1>1. /\ all \in SUBSET Nat /\ IsFiniteSet(all)
        /\ \A i \in all : file[i] \in Line /\ file[i].type = "http.request"
    BY OfPlaces
  <1>2. \A i \in all : file[i].ms \in Nat /\ file[i].dbQueries \in Nat /\ file[i].route \in Nat
    BY <1>1, LineParts
  <1>3. requests \in SUBSET all
    BY DEF RequestsOf
  <1>4. PICK i \in all : file[i].route = route
    BY DEF Routes
  <1>5. i \in requests
    BY <1>4 DEF RequestsOf
  <1>6. IsFiniteSet(requests) /\ Cardinality(requests) \in Nat /\ Cardinality(requests) # 0
    <2>1. IsFiniteSet(requests)
      BY <1>1, <1>3, FS_Subset
    <2>. QED  BY <1>5, <2>1, FS_CardinalityType, FS_EmptySet
  <1>7. Durations(route, file) \in [requests -> Nat]
    BY <1>2, <1>3 DEF Durations
  <1>. QED  BY <1>1, <1>2, <1>3, <1>4, <1>6, <1>7

LEMMA EndpointParts ==
  ASSUME NEW file, NEW route
  PROVE  LET row == EndpointRow(route, file)
             n   == Cardinality(RequestsOf(route, file))
             d   == Ascending(Durations(route, file))
         IN /\ row.route = route /\ row.count = n
            /\ row.p50Ms = nearestRank(d, n, 50)
            /\ row.p99Ms = nearestRank(d, n, 99)
            /\ row.maxMs = d[n]
            /\ row.dbMax = WorstRequest(RequestsOf(route, file), file)
BY DEF EndpointRow, Durations

(* The rank that nearestRank takes lies in the list.                       *)
LEMMA RankFits ==
  ASSUME NEW n \in Nat \ {0}, NEW p \in {50, 99}
  PROVE  /\ Rank(n, p) \in 1 .. n
         /\ p * n <= 100 * Rank(n, p) /\ 100 * (Rank(n, p) - 1) < p * n
  <1>1. p * n \in Nat /\ 0 < p * n /\ p * n <= 100 * n
    <2>1. CASE p = 50
      BY <2>1
    <2>2. CASE p = 99
      BY <2>2
    <2>. QED  BY <2>1, <2>2
  <1>2. \A x \in Nat : LET q == (x + 99) \div 100 IN q \in Nat /\ x <= 100 * q /\ 100 * q < x + 100
    BY SMTT(30)
  <1>3. Rank(n, p) \in Nat /\ p * n <= 100 * Rank(n, p) /\ 100 * Rank(n, p) < p * n + 100
    BY <1>1, <1>2 DEF Rank
  <1>. DEFINE k == Rank(n, p)
              x == p * n
  <1>4. /\ k \in Nat /\ x \in Nat /\ x <= 100 * k /\ 100 * k < x + 100
        /\ 0 < x /\ x <= 100 * n
    BY <1>1, <1>3
  <1>. HIDE DEF k, x
  <1>5. k \in 1 .. n /\ x <= 100 * k /\ 100 * (k - 1) < x
    BY <1>4
  <1>. QED  BY <1>5 DEF k, x

LEMMA PercentileKth ==
  ASSUME NEW file \in Seq(Line), NEW route \in Routes(file), NEW p \in {50, 99}
  PROVE  LET n == Cardinality(RequestsOf(route, file))
             v == nearestRank(Ascending(Durations(route, file)), n, p)
         IN \E k \in 1 .. n : /\ IsKth(v, Durations(route, file), k)
                              /\ p * n <= 100 * k /\ 100 * (k - 1) < p * n
  <1>. DEFINE D == RequestsOf(route, file)
              n == Cardinality(D)
              ms == Durations(route, file)
  <1>1. /\ D \in SUBSET Nat /\ IsFiniteSet(D) /\ n \in Nat \ {0} /\ ms \in [D -> Nat]
    BY RequestFacts
  <1>. DEFINE k == Rank(n, p)
  <1>2. /\ k \in 1 .. n /\ p * n <= 100 * k /\ 100 * (k - 1) < p * n
        /\ nearestRank(Ascending(ms), n, p) = Ascending(ms)[k]
    <2>1. n \in Nat \ {0}
      BY <1>1
    <2>. HIDE DEF D, n, ms
    <2>2. Rank(n, p) \in 1 .. n
      BY <2>1, RankFits, ZenonT(30)
    <2>3. p * n <= 100 * Rank(n, p)
      BY <2>1, RankFits, ZenonT(30)
    <2>4. 100 * (Rank(n, p) - 1) < p * n
      BY <2>1, RankFits, ZenonT(30)
    <2>5. Max({Rank(n, p), 1}) = Rank(n, p) /\ Min({Rank(n, p), n}) = Rank(n, p)
      BY <2>1, <2>2, MaxOfTwo, MinOfTwo
    <2>6. nearestRank(Ascending(ms), n, p) = Ascending(ms)[Rank(n, p)]
      BY <2>5 DEF nearestRank
    <2>. QED  BY <2>2, <2>3, <2>4, <2>6
  <1>3. IsKth(Ascending(ms)[k], ms, k)
    <2>. HIDE DEF D, ms, k
    <2>. QED  BY <1>1, <1>2, AscendingKth
  <1>. DEFINE v == nearestRank(Ascending(ms), n, p)
  <1>4. IsKth(v, ms, k)
    BY <1>2, <1>3
  <1>5. k \in 1 .. n /\ p * n <= 100 * k /\ 100 * (k - 1) < p * n
    BY <1>2
  <1>. HIDE DEF k, n, v, ms
  <1>6. \E j \in 1 .. n : IsKth(v, ms, j) /\ p * n <= 100 * j /\ 100 * (j - 1) < p * n
    BY <1>4, <1>5
  <1>. QED  BY <1>6 DEF v, ms, n

LEMMA EndpointsFinite ==
  ASSUME NEW file \in Seq(Line)
  PROVE  /\ IsFiniteSet(Routes(file)) /\ Routes(file) \in SUBSET Nat
         /\ IsFiniteSet(EndpointRows(file))
         /\ \A row \in EndpointRows(file) :
              /\ row.route \in Routes(file) /\ row = EndpointRow(row.route, file)
              /\ row.p99Ms \in Nat
  <1>1. IsFiniteSet(Routes(file))
    <2>. DEFINE all == Of("http.request", file)
                b == [i \in all |-> file[i].route]
    <2>1. IsFiniteSet(all) /\ DOMAIN b = all
      BY OfPlaces
    <2>2. Routes(file) = {b[i] : i \in all}
      BY DEF Routes
    <2>. HIDE DEF all, b
    <2>. QED  BY <2>1, <2>2, ImageSize
  <1>2. IsFiniteSet(EndpointRows(file))
    <2>. DEFINE b == [route \in Routes(file) |-> EndpointRow(route, file)]
    <2>1. DOMAIN b = Routes(file) /\ EndpointRows(file) = {b[i] : i \in Routes(file)}
      BY DEF EndpointRows
    <2>. HIDE DEF b
    <2>. QED  BY <1>1, <2>1, ImageSize
  <1>3. Routes(file) \in SUBSET Nat
    BY RequestFacts
  <1>4. ASSUME NEW row \in EndpointRows(file)
        PROVE  /\ row.route \in Routes(file) /\ row = EndpointRow(row.route, file)
               /\ row.p99Ms \in Nat
    <2>1. PICK route \in Routes(file) : row = EndpointRow(route, file)
      BY DEF EndpointRows
    <2>. DEFINE n == Cardinality(RequestsOf(route, file))
                v == nearestRank(Ascending(Durations(route, file)), n, 99)
    <2>2. row.route = route /\ row.p99Ms = v
      BY <2>1, EndpointParts
    <2>3. PICK k \in 1 .. n : IsKth(v, Durations(route, file), k)
      BY <2>1, PercentileKth
    <2>4. v \in Nat
      BY <2>3, RequestFacts DEF IsKth
    <2>. QED  BY <2>1, <2>2, <2>4
  <1>. QED  BY <1>1, <1>2, <1>3, <1>4

ByP99(file) == Heavier([row \in EndpointRows(file) |-> row.p99Ms],
                        [row \in EndpointRows(file) |-> row.route])

LEMMA EndpointsListed ==
  ASSUME NEW file \in Seq(Line)
  PROVE  Lists(AllEndpoints(file), EndpointRows(file), ByP99(file))
  <1>. DEFINE S == EndpointRows(file)
              R == ByP99(file)
              rank == [x \in S |-> Cardinality({y \in S : <<y, x>> \in R})]
              s == AllEndpoints(file)
              val == [row \in S |-> row.p99Ms]
              name == [row \in S |-> row.route]
  <1>1. s = [k \in 1 .. Cardinality(S) |->
               CHOOSE x \in S : Cardinality({y \in S : compareEndpoints(y, x)}) = k - 1]
    BY DEF AllEndpoints, Sorted, EndpointRows, Routes
  <1>2. IsFiniteSet(S) /\ val \in [S -> Nat] /\ name \in [S -> Nat]
        /\ \A x, y \in S : name[x] = name[y] => x = y
    BY EndpointsFinite
  <1>3. Ranks(rank, S, R)
    <2>. HIDE DEF S, val, name
    <2>1. Ranks([x \in S |-> Cardinality({y \in S : <<y, x>> \in Heavier(val, name)})],
                S, Heavier(val, name))
      BY <1>2, HeavierRanks
    <2>2. R = Heavier(val, name)
      BY DEF ByP99, S, val, name
    <2>. QED  BY <2>1, <2>2
  <1>4. \A x \in S : rank[x] = Cardinality({y \in S : compareEndpoints(y, x)})
    <2>1. \A x, y \in S : <<y, x>> \in R <=> compareEndpoints(y, x)
      BY DEF ByP99, Heavier, compareEndpoints
    <2>2. \A x \in S : {y \in S : <<y, x>> \in R} = {y \in S : compareEndpoints(y, x)}
      BY <2>1
    <2>. HIDE DEF S, R
    <2>. QED  BY <2>2
  <1>5. ASSUME NEW k \in 1 .. Cardinality(S), \E x \in S : rank[x] = k - 1
        PROVE  s[k] \in S /\ rank[s[k]] = k - 1
    <2>. HIDE DEF S, R, rank, s
    <2>. QED  BY <1>1, <1>4, <1>5
  <1>6. s = [k \in 1 .. Cardinality(S) |-> s[k]]
    BY <1>1
  <1>. HIDE DEF S, R, rank, s
  <1>7. Lists(s, S, R)
    BY <1>2, <1>3, <1>5, <1>6, RankLists
  <1>. QED  BY <1>7 DEF S, R, s

LEMMA KthIsLeast ==
  ASSUME NEW D, IsFiniteSet(D), NEW ms \in [D -> Nat], NEW k \in Nat, NEW v,
         NEW goal \in Nat, IsKth(v, ms, k), goal <= 100 * k, 100 * (k - 1) < goal
  PROVE  Min({x \in {ms[i] : i \in D} : 100 * Cardinality({i \in D : ms[i] <= x}) >= goal}) = v
  <1>. DEFINE Within(x) == {i \in D : ms[i] <= x}
              Below == {i \in D : ms[i] < v}
              Enough == {x \in {ms[i] : i \in D} : 100 * Cardinality(Within(x)) >= goal}
  <1>1. v \in {ms[i] : i \in D} /\ k <= Cardinality(Within(v)) /\ Cardinality(Below) < k
    BY DEF IsKth
  <1>2. \A x : IsFiniteSet(Within(x)) /\ Cardinality(Within(x)) \in Nat
    <2>1. \A x : IsFiniteSet(Within(x))
      BY FS_Subset
    <2>. QED  BY <2>1, FS_CardinalityType
  <1>3. v \in Enough
    <2>1. Cardinality(Within(v)) \in Nat
      BY <1>2
    <2>2. 100 * Cardinality(Within(v)) >= goal
      <3>. HIDE DEF Within
      <3>. QED  BY <1>1, <2>1
    <2>. QED  BY <1>1, <2>2
  <1>4. ASSUME NEW x \in Enough PROVE v <= x
    <2>1. x \in Nat /\ v \in Nat /\ 100 * Cardinality(Within(x)) >= goal
      BY <1>1, <1>4
    <2>2. CASE x < v
      <3>1. Within(x) \in SUBSET Below /\ IsFiniteSet(Below)
        BY <2>1, <2>2, FS_Subset
      <3>2. Cardinality(Within(x)) <= Cardinality(Below) /\ Cardinality(Below) \in Nat
        <4>. HIDE DEF Within, Below
        <4>. QED  BY <3>1, FS_Subset, FS_CardinalityType
      <3>3. Cardinality(Within(x)) \in Nat
        BY <1>2
      <3>. HIDE DEF Within, Below
      <3>. QED  BY <1>1, <2>1, <3>2, <3>3
    <2>. QED  BY <2>1, <2>2
  <1>5. \A x \in Enough : x \in Nat
    OBVIOUS
  <1>. HIDE DEF Enough
  <1>6. Min(Enough) = v
    BY <1>3, <1>4, <1>5 DEF Min
  <1>. QED  BY <1>6 DEF Enough

LEMMA PercentilesHold == EventsInv => PercentilesAreNearestRank
  <1>. SUFFICES ASSUME EventsInv, NEW row \in ToSet(AllEndpoints(events))
                PROVE  LET requests == RequestsOf(row.route, events)
                           Within(ms) == Cardinality({i \in requests : events[i].ms <= ms})
                           Least(p) == Min({ms \in {events[i].ms : i \in requests} :
                                              100 * Within(ms) >= p * Cardinality(requests)})
                       IN  row.p50Ms = Least(50) /\ row.p99Ms = Least(99)
    BY DEF PercentilesAreNearestRank
  <1>. DEFINE D == RequestsOf(row.route, events)
              ms == Durations(row.route, events)
              n == Cardinality(D)
              Least(p) == Min({x \in {events[i].ms : i \in D} :
                                 100 * Cardinality({i \in D : events[i].ms <= x}) >= p * n})
              Value(p) == nearestRank(Ascending(ms), n, p)
  <1>1. events \in Seq(Line)
    BY DEF EventsInv
  <1>2. row \in EndpointRows(events)
    BY <1>1, EndpointsListed, EndpointsFinite, ListsAll
  <1>3. row.route \in Routes(events) /\ row = EndpointRow(row.route, events)
    BY <1>1, <1>2, EndpointsFinite
  <1>4. row.p50Ms = Value(50) /\ row.p99Ms = Value(99)
    BY <1>3, EndpointParts
  <1>5. IsFiniteSet(D) /\ ms \in [D -> Nat] /\ n \in Nat
    BY <1>1, <1>3, RequestFacts
  <1>6. ASSUME NEW p \in {50, 99} PROVE Least(p) = Value(p)
    <2>1. PICK k \in 1 .. n : IsKth(Value(p), ms, k) /\ p * n <= 100 * k /\ 100 * (k - 1) < p * n
      BY <1>1, <1>3, PercentileKth
    <2>2. \A i \in D : ms[i] = events[i].ms
      BY DEF Durations
    <2>3. /\ {events[i].ms : i \in D} = {ms[i] : i \in D}
          /\ \A x : {i \in D : events[i].ms <= x} = {i \in D : ms[i] <= x}
      <3>. HIDE DEF D, ms
      <3>1. {events[i].ms : i \in D} = {ms[i] : i \in D}
        BY <2>2
      <3>2. \A x : {i \in D : events[i].ms <= x} = {i \in D : ms[i] <= x}
        BY <2>2
      <3>. QED  BY <3>1, <3>2
    <2>4. Least(p) = Min({x \in {ms[i] : i \in D} :
                            100 * Cardinality({i \in D : ms[i] <= x}) >= p * n})
      <3>. HIDE DEF D, ms, n
      <3>. QED  BY <2>3, ZenonT(30)
    <2>5. p * n \in Nat /\ k \in Nat
      BY <1>5
    <2>6. Min({x \in {ms[i] : i \in D} :
                 100 * Cardinality({i \in D : ms[i] <= x}) >= p * n}) = Value(p)
      <3>. HIDE DEF D, ms, n, Value
      <3>. QED  BY <1>5, <2>1, <2>5, KthIsLeast
    <2>. QED  BY <2>4, <2>6
  <1>7. row.p50Ms = Least(50) /\ row.p99Ms = Least(99)
    <2>. HIDE DEF Least, Value
    <2>. QED  BY <1>4, <1>6
  <1>. QED  BY <1>7

(* For every file: the p50Ms and p99Ms of each endpoint are the least       *)
(* recorded duration that half, respectively 99 of 100, of its requests do  *)
(* not exceed (nearestRank with its rounding and its clamping).             *)
THEOREM Percentiles == EventsSpec => []PercentilesAreNearestRank
  BY EventsAreLines, PercentilesHold, PTL

-----------------------------------------------------------------------------
(* Call sites and their rows. *)

LEMMA GreatestOf ==
  ASSUME NEW S \in SUBSET Nat, IsFiniteSet(S)
  PROVE  /\ Greatest(S) \in Nat /\ Greatest(S) \in {0} \cup S
         /\ \A x \in S : x <= Greatest(S)
  <1>. DEFINE D == {0} \cup S
              Bad == {s \in SUBSET D : s # {} /\ ~ \E x \in s : \A y \in s : x >= y}
  <1>1. IsFiniteSet(D) /\ D \in SUBSET Nat /\ D # {}
    <2>1. D = S \cup {0}
      OBVIOUS
    <2>. QED  BY <2>1, FS_AddElement
  <1>2. ASSUME Bad # {} PROVE FALSE
    <2>1. PICK s \in Bad : \A x \in s : s \ {x} \notin Bad
      <3>1. Bad \in SUBSET SUBSET D
        OBVIOUS
      <3>. HIDE DEF D, Bad
      <3>. QED  BY <1>1, <1>2, <3>1, SmallestPart
    <2>2. s \in SUBSET D /\ s \in SUBSET Nat
      BY <1>1, <2>1
    <2>3. PICK x \in s : TRUE
      BY <2>1
    <2>4. PICK z \in s : z > x
      <3>1. \E y \in s : ~(x >= y)
        BY <2>1, <2>3
      <3>. QED  BY <2>2, <2>3, <3>1
    <2>5. s \ {x} # {} /\ s \ {x} \in SUBSET D /\ s \ {x} \notin Bad
      BY <2>1, <2>2, <2>3, <2>4
    <2>6. PICK w \in s \ {x} : \A y \in s \ {x} : w >= y
      BY <2>5
    <2>7. \A y \in s : w >= y
      <3>1. w >= z /\ z > x /\ z \in Nat /\ x \in Nat /\ w \in Nat
        BY <2>2, <2>3, <2>4, <2>6
      <3>2. w >= x
        BY <3>1
      <3>. QED  BY <2>6, <3>2
    <2>. QED  BY <2>1, <2>6, <2>7
  <1>3. \E x \in D : \A y \in D : x >= y
    <2>1. D \notin Bad
      BY <1>2
    <2>. QED  BY <1>1, <2>1
  <1>. DEFINE g == CHOOSE x \in D : \A y \in D : x >= y
  <1>4. g \in D /\ \A y \in D : g >= y
    <2>. HIDE DEF D
    <2>. QED  BY <1>3
  <1>5. Greatest(S) = g
    BY DEF Greatest, Max
  <1>. HIDE DEF g
  <1>. QED  BY <1>1, <1>4, <1>5

LEMMA CappedParts ==
  ASSUME NEW S, NEW rows \in Seq(S), NEW cap \in Nat \ {0}
  PROVE  /\ Capped(rows, cap) \in Seq(S)
         /\ Len(Capped(rows, cap)) = (IF cap <= Len(rows) THEN cap ELSE Len(rows))
         /\ DOMAIN Capped(rows, cap) \in SUBSET DOMAIN rows
         /\ \A i \in DOMAIN Capped(rows, cap) : Capped(rows, cap)[i] = rows[i]
  <1>. DEFINE m == IF cap <= Len(rows) THEN cap ELSE Len(rows)
  <1>1. m \in 0 .. Len(rows) /\ Len(rows) \in Nat /\ Min({cap, Len(rows)}) = m
    BY MinOfTwo
  <1>2. Capped(rows, cap) = SubSeq(rows, 1, m)
    BY <1>1 DEF Capped
  <1>. HIDE DEF m
  <1>3. SubSeq(rows, 1, m) = [i \in 1 .. m |-> rows[i]]
    BY <1>1
  <1>4. [i \in 1 .. m |-> rows[i]] \in Seq(S) /\ Len([i \in 1 .. m |-> rows[i]]) = m
    BY <1>1
  <1>. QED  BY <1>1, <1>2, <1>3, <1>4 DEF m

LEMMA ConcatParts ==
  ASSUME NEW V, NEW s \in Seq(V), NEW t \in Seq(V)
  PROVE  /\ s \o t \in Seq(V) /\ ToSet(s \o t) = ToSet(s) \cup ToSet(t)
         /\ DOMAIN (s \o t) = 1 .. Len(s) + Len(t) /\ DOMAIN s = 1 .. Len(s)
         /\ DOMAIN t = 1 .. Len(t) /\ Len(s) \in Nat /\ Len(t) \in Nat
         /\ \A i \in DOMAIN (s \o t) :
              (s \o t)[i] = IF i <= Len(s) THEN s[i] ELSE t[i - Len(s)]
  <1>1. /\ s \o t \in Seq(V) /\ Len(s \o t) = Len(s) + Len(t)
        /\ \A i \in 1 .. Len(s) + Len(t) :
             (s \o t)[i] = IF i <= Len(s) THEN s[i] ELSE t[i - Len(s)]
    OBVIOUS
  <1>2. /\ DOMAIN (s \o t) = 1 .. Len(s) + Len(t) /\ DOMAIN s = 1 .. Len(s)
        /\ DOMAIN t = 1 .. Len(t) /\ Len(s) \in Nat /\ Len(t) \in Nat
    BY <1>1
  <1>. DEFINE c == s \o t
  <1>3. \A i \in 1 .. Len(s) : i \in DOMAIN c /\ c[i] = s[i]
    BY <1>1, <1>2
  <1>4. \A i \in 1 .. Len(t) : Len(s) + i \in DOMAIN c /\ c[Len(s) + i] = t[i]
    BY <1>1, <1>2
  <1>5. \A i \in DOMAIN c : (i \in 1 .. Len(s) /\ c[i] = s[i])
                            \/ (i - Len(s) \in 1 .. Len(t) /\ c[i] = t[i - Len(s)])
    BY <1>1, <1>2
  <1>6. ToSet(c) = ToSet(s) \cup ToSet(t)
    <2>. HIDE DEF c
    <2>. QED  BY <1>2, <1>3, <1>4, <1>5 DEF ToSet
  <1>. QED  BY <1>1, <1>2, <1>6

CallSites(file) == {file[i].site : i \in Of("block.call", file)}
CallRows(file) == {CallRow(site, file) : site \in CallSites(file)}
BlockMs(file) == [i \in Of("block.call", file) |-> file[i].ms]

LEMMA CallFacts ==
  ASSUME NEW file \in Seq(Line)
  PROVE  /\ IsFiniteSet(Of("block.call", file))
         /\ BlockMs(file) \in [Of("block.call", file) -> Nat]
         /\ \A i \in Of("block.call", file) : file[i].site \in Nat
         /\ IsFiniteSet(CallSites(file)) /\ CallSites(file) \in SUBSET Nat
  <1>. DEFINE all == Of("block.call", file)
              b == [i \in all |-> file[i].site]
  <1>1. /\ IsFiniteSet(all)
        /\ \A i \in all : file[i] \in Line /\ file[i].type = "block.call"
    BY OfPlaces
  <1>2. \A i \in all : file[i].ms \in Nat /\ file[i].site \in Nat
    BY <1>1, LineParts
  <1>3. BlockMs(file) \in [all -> Nat]
    BY <1>2 DEF BlockMs
  <1>4. CallSites(file) = {b[i] : i \in all} /\ DOMAIN b = all
    BY DEF CallSites
  <1>5. IsFiniteSet(CallSites(file))
    <2>. HIDE DEF all, b
    <2>. QED  BY <1>1, <1>4, ImageSize
  <1>6. CallSites(file) \in SUBSET Nat
    BY <1>2 DEF CallSites
  <1>. QED  BY <1>1, <1>2, <1>3, <1>5, <1>6

LEMMA TimeOfCalls ==
  ASSUME NEW file \in Seq(Line), NEW site
  PROVE  /\ CallsOf(site, file) \in SUBSET Of("block.call", file)
         /\ SumFunction([i \in CallsOf(site, file) |-> file[i].ms])
              = SumOver(BlockMs(file), CallsOf(site, file))
         /\ SumOver(BlockMs(file), CallsOf(site, file)) \in Nat
         /\ CallRow(site, file).site = site
         /\ CallRow(site, file).totalMs = SumOver(BlockMs(file), CallsOf(site, file))
  <1>. DEFINE T == CallsOf(site, file)
  <1>1. T \in SUBSET Of("block.call", file)
    BY DEF CallsOf
  <1>2. [i \in T |-> file[i].ms] = [i \in T |-> BlockMs(file)[i]]
    BY <1>1 DEF BlockMs
  <1>3. SumFunction([i \in T |-> file[i].ms]) = SumOver(BlockMs(file), T)
    BY <1>2 DEF SumOver
  <1>4. SumOver(BlockMs(file), T) \in Nat
    <2>. HIDE DEF T
    <2>. QED  BY <1>1, CallFacts, SumType
  <1>5. CallRow(site, file).site = site
        /\ CallRow(site, file).totalMs = SumFunction([i \in T |-> file[i].ms])
    BY DEF CallRow
  <1>. QED  BY <1>1, <1>3, <1>4, <1>5

LEMMA CallRowsFinite ==
  ASSUME NEW file \in Seq(Line)
  PROVE  /\ IsFiniteSet(CallRows(file))
         /\ \A row \in CallRows(file) :
              /\ row.site \in CallSites(file) /\ row = CallRow(row.site, file)
              /\ row.totalMs \in Nat
  <1>1. IsFiniteSet(CallRows(file))
    <2>. DEFINE b == [site \in CallSites(file) |-> CallRow(site, file)]
    <2>1. DOMAIN b = CallSites(file) /\ CallRows(file) = {b[i] : i \in CallSites(file)}
      BY DEF CallRows
    <2>. HIDE DEF b
    <2>. QED  BY <2>1, CallFacts, ImageSize
  <1>2. ASSUME NEW row \in CallRows(file)
        PROVE  /\ row.site \in CallSites(file) /\ row = CallRow(row.site, file)
               /\ row.totalMs \in Nat
    <2>1. PICK site \in CallSites(file) : row = CallRow(site, file)
      BY DEF CallRows
    <2>2. row.site = site /\ row.totalMs \in Nat
      BY <2>1, TimeOfCalls
    <2>. QED  BY <2>1, <2>2
  <1>. QED  BY <1>1, <1>2

ByTime(file) == Heavier([row \in CallRows(file) |-> row.totalMs],
                         [row \in CallRows(file) |-> row.site])

LEMMA CallsListed ==
  ASSUME NEW file \in Seq(Line)
  PROVE  Lists(AllCalls(file), CallRows(file), ByTime(file))
  <1>. DEFINE S == CallRows(file)
              R == ByTime(file)
              rank == [x \in S |-> Cardinality({y \in S : <<y, x>> \in R})]
              s == AllCalls(file)
              val == [row \in S |-> row.totalMs]
              name == [row \in S |-> row.site]
  <1>1. s = [k \in 1 .. Cardinality(S) |->
               CHOOSE x \in S : Cardinality({y \in S : compareCalls(y, x)}) = k - 1]
    BY DEF AllCalls, Sorted, CallRows, CallSites
  <1>2. IsFiniteSet(S) /\ val \in [S -> Nat] /\ name \in [S -> Nat]
        /\ \A x, y \in S : name[x] = name[y] => x = y
    BY CallRowsFinite, CallFacts
  <1>3. Ranks(rank, S, R)
    <2>. HIDE DEF S, val, name
    <2>1. Ranks([x \in S |-> Cardinality({y \in S : <<y, x>> \in Heavier(val, name)})],
                S, Heavier(val, name))
      BY <1>2, HeavierRanks
    <2>2. R = Heavier(val, name)
      BY DEF ByTime, S, val, name
    <2>. QED  BY <2>1, <2>2
  <1>4. \A x \in S : rank[x] = Cardinality({y \in S : compareCalls(y, x)})
    <2>1. \A x, y \in S : <<y, x>> \in R <=> compareCalls(y, x)
      BY DEF ByTime, Heavier, compareCalls
    <2>2. \A x \in S : {y \in S : <<y, x>> \in R} = {y \in S : compareCalls(y, x)}
      BY <2>1
    <2>. HIDE DEF S, R
    <2>. QED  BY <2>2
  <1>5. ASSUME NEW k \in 1 .. Cardinality(S), \E x \in S : rank[x] = k - 1
        PROVE  s[k] \in S /\ rank[s[k]] = k - 1
    <2>. HIDE DEF S, R, rank, s
    <2>. QED  BY <1>1, <1>4, <1>5
  <1>6. s = [k \in 1 .. Cardinality(S) |-> s[k]]
    BY <1>1
  <1>. HIDE DEF S, R, rank, s
  <1>7. Lists(s, S, R)
    BY <1>2, <1>3, <1>5, <1>6, RankLists
  <1>. QED  BY <1>7 DEF S, R, s

-----------------------------------------------------------------------------
(* Suspected rows. *)

SuspectPlaces(rows) == {i \in DOMAIN rows : PossibleN1(rows[i])}
Upwards(P) == {p \in P \X P : p[1] < p[2]}

LEMMA SuspectsListed ==
  ASSUME NEW S, NEW rows \in Seq(S)
  PROVE  \E places : /\ Lists(places, SuspectPlaces(rows), Upwards(SuspectPlaces(rows)))
                     /\ IsFiniteSet(SuspectPlaces(rows))
                     /\ Suspects(rows) = [k \in 1 .. Cardinality(SuspectPlaces(rows)) |->
                                            rows[places[k]]]
  <1>. DEFINE P == SuspectPlaces(rows)
              R == Upwards(P)
              rank == [x \in P |-> Cardinality({y \in P : <<y, x>> \in R})]
              Smaller(x) == {y \in P : y < x}
              s == [k \in 1 .. Cardinality(P) |->
                      CHOOSE x \in P : Cardinality(Smaller(x)) = k - 1]
  <1>1. Suspects(rows) = [k \in 1 .. Cardinality(P) |-> rows[s[k]]]
    BY DEF Suspects, Sorted, SuspectPlaces
  <1>2. IsFiniteSet(P) /\ P \in SUBSET Nat
    <2>1. DOMAIN rows = 1 .. Len(rows) /\ Len(rows) \in Nat
      OBVIOUS
    <2>2. IsFiniteSet(DOMAIN rows) /\ P \in SUBSET DOMAIN rows
      BY <2>1, FS_Interval DEF SuspectPlaces
    <2>. QED  BY <2>1, <2>2, FS_Subset
  <1>3. \A x, y \in P : <<x, y>> \in R <=> x < y
    BY DEF Upwards
  <1>4. Ranks(rank, P, R)
    <2>1. \A x \in P : <<x, x>> \notin R
      BY <1>2, <1>3
    <2>2. \A x, y, z \in P : <<x, y>> \in R /\ <<y, z>> \in R => <<x, z>> \in R
      BY <1>2, <1>3
    <2>3. \A x, y \in P : x # y => <<x, y>> \in R \/ <<y, x>> \in R
      BY <1>2, <1>3
    <2>. QED  BY <2>1, <2>2, <2>3 DEF Ranks
  <1>5. \A x \in P : rank[x] = Cardinality({y \in P : y < x})
    <2>1. \A x \in P : {y \in P : <<y, x>> \in R} = {y \in P : y < x}
      BY <1>3
    <2>. HIDE DEF P, R
    <2>. QED  BY <2>1
  <1>6. ASSUME NEW k \in 1 .. Cardinality(P), \E x \in P : rank[x] = k - 1
        PROVE  s[k] \in P /\ rank[s[k]] = k - 1
    <2>. HIDE DEF P, R, rank
    <2>. QED  BY <1>5, <1>6
  <1>7. s = [k \in 1 .. Cardinality(P) |-> s[k]]
    <2>. HIDE DEF P, Smaller
    <2>. QED  OBVIOUS
  <1>. HIDE DEF P, R, rank, s
  <1>8. Lists(s, P, R)
    BY <1>2, <1>4, <1>6, <1>7, RankLists
  <1>9. \E places : /\ Lists(places, P, R) /\ IsFiniteSet(P)
                    /\ Suspects(rows) = [k \in 1 .. Cardinality(P) |-> rows[places[k]]]
    BY <1>1, <1>2, <1>8
  <1>. QED  BY <1>9 DEF P, R

LEMMA SuspectsAll ==
  ASSUME NEW S, NEW rows \in Seq(S)
  PROVE  /\ Suspects(rows) \in Seq(S)
         /\ ToSet(Suspects(rows)) = {row \in ToSet(rows) : PossibleN1(row)}
         /\ \A j, k \in DOMAIN Suspects(rows) :
              Suspects(rows)[j] = Suspects(rows)[k] =>
                j = k \/ \E x, y \in DOMAIN rows : x # y /\ rows[x] = rows[y]
  <1>. DEFINE P == SuspectPlaces(rows)
              n == Cardinality(P)
  <1>1. PICK places : /\ Lists(places, P, Upwards(P)) /\ IsFiniteSet(P)
                      /\ Suspects(rows) = [k \in 1 .. n |-> rows[places[k]]]
    BY SuspectsListed
  <1>2. n \in Nat /\ \A k \in 1 .. n : places[k] \in P
    BY <1>1, FS_CardinalityType DEF Lists
  <1>3. P \in SUBSET DOMAIN rows /\ \A x \in P : rows[x] \in S
    BY DEF SuspectPlaces
  <1>. DEFINE s == [k \in 1 .. n |-> rows[places[k]]]
  <1>4. s \in Seq(S) /\ DOMAIN s = 1 .. n /\ \A k \in 1 .. n : s[k] = rows[places[k]]
    <2>. HIDE DEF P, n
    <2>. QED  BY <1>2, <1>3
  <1>5. ToSet(s) = {row \in ToSet(rows) : PossibleN1(row)}
    <2>1. \A x \in P : \E k \in 1 .. n : places[k] = x
      BY <1>1 DEF Lists
    <2>2. \A x \in DOMAIN rows : x \in P <=> PossibleN1(rows[x])
      BY DEF SuspectPlaces
    <2>. HIDE DEF P, n, s
    <2>3. ASSUME NEW k \in 1 .. n
          PROVE  s[k] \in {row \in ToSet(rows) : PossibleN1(row)}
      <3>1. places[k] \in DOMAIN rows /\ s[k] = rows[places[k]]
        BY <1>2, <1>3, <1>4
      <3>2. PossibleN1(rows[places[k]])
        BY <1>2, <2>2, <3>1
      <3>. QED  BY <3>1, <3>2 DEF ToSet
    <2>4. ASSUME NEW row \in ToSet(rows), PossibleN1(row)
          PROVE  \E k \in 1 .. n : s[k] = row
      <3>1. PICK x \in DOMAIN rows : rows[x] = row
        BY DEF ToSet
      <3>2. x \in P
        BY <2>2, <2>4, <3>1
      <3>. QED  BY <1>4, <2>1, <3>1, <3>2
    <2>5. ToSet(s) = {s[k] : k \in 1 .. n}
      BY <1>4 DEF ToSet
    <2>. QED  BY <2>3, <2>4, <2>5
  <1>6. ASSUME NEW j \in 1 .. n, NEW k \in 1 .. n, s[j] = s[k], j # k
        PROVE  \E x, y \in DOMAIN rows : x # y /\ rows[x] = rows[y]
    <2>1. places[j] # places[k]
      BY <1>1, <1>6 DEF Lists
    <2>2. /\ places[j] \in DOMAIN rows /\ places[k] \in DOMAIN rows
          /\ rows[places[j]] = rows[places[k]]
      <3>. HIDE DEF P, n
      <3>. QED  BY <1>2, <1>3, <1>6
    <2>. QED  BY <2>1, <2>2
  <1>. HIDE DEF s, n, P
  <1>7. Suspects(rows) = s
    BY <1>1 DEF s
  <1>. QED  BY <1>4, <1>5, <1>6, <1>7

(* The texts of warnings, and what N+1 warnings are among them.            *)
N1Texts == {"possible-N+1"} \X Nat \X Nat
OtherTexts == {<<"no-attach">>, <<"endpoints-capped">>, <<"models-capped">>, <<"calls-capped">>}
Texts == N1Texts \cup OtherTexts

LEMMA TextsApart ==
  /\ \A w \in OtherTexts : w[1] # "possible-N+1" /\ w \notin N1Texts
  /\ \A w \in N1Texts : w[1] = "possible-N+1" /\ w[2] \in Nat /\ w \notin OtherTexts
  <1>1. \A w \in OtherTexts : w[1] # "possible-N+1"
    <2>1. /\ <<"no-attach">>[1] = "no-attach" /\ <<"endpoints-capped">>[1] = "endpoints-capped"
          /\ <<"models-capped">>[1] = "models-capped" /\ <<"calls-capped">>[1] = "calls-capped"
      OBVIOUS
    <2>2. \A w \in OtherTexts : w[1] \in {"no-attach", "endpoints-capped", "models-capped", "calls-capped"}
      BY <2>1 DEF OtherTexts
    <2>. QED  BY <2>2
  <1>2. \A w \in N1Texts : w[1] = "possible-N+1" /\ w[2] \in Nat
    BY DEF N1Texts
  <1>. QED  BY <1>1, <1>2

LEMMA WarningParts ==
  ASSUME NEW condition \in BOOLEAN, NEW text \in OtherTexts
  PROVE  /\ Warning(condition, text) \in Seq(OtherTexts)
         /\ Warning(condition, text) \in Seq(Texts)
         /\ ToSet(Warning(condition, text)) = IF condition THEN {text} ELSE {}
  <1>1. CASE condition
    <2>1. Warning(condition, text) = <<text>>
      BY <1>1 DEF Warning
    <2>2. <<text>> \in Seq(OtherTexts) /\ <<text>> \in Seq(Texts) /\ ToSet(<<text>>) = {text}
      BY DEF ToSet, Texts
    <2>. QED  BY <1>1, <2>1, <2>2
  <1>2. CASE ~condition
    <2>1. Warning(condition, text) = <<>>
      BY <1>2 DEF Warning
    <2>2. <<>> \in Seq(OtherTexts) /\ <<>> \in Seq(Texts) /\ ToSet(<<>>) = {}
      BY DEF ToSet
    <2>. QED  BY <1>2, <2>1, <2>2
  <1>. QED  BY <1>1, <1>2

-----------------------------------------------------------------------------
(* Routes with a request of as many queries as the threshold.              *)

GuiltyRoutes(file) ==
  {file[i].route : i \in {j \in Of("http.request", file) : file[j].dbQueries >= n1Threshold}}

LEMMA SuspectIsGuilty ==
  ASSUME NEW file \in Seq(Line), NEW row \in EndpointRows(file)
  PROVE  /\ row.dbMax \in Nat /\ row.route \in Nat
         /\ PossibleN1(row) <=> row.route \in GuiltyRoutes(file)
  <1>. DEFINE D == RequestsOf(row.route, file)
              counts == {file[i].dbQueries : i \in D}
  <1>1. row.route \in Routes(file) /\ row = EndpointRow(row.route, file)
    BY EndpointsFinite
  <1>2. /\ IsFiniteSet(D) /\ row.route \in Nat
        /\ \A i \in D : file[i].dbQueries \in Nat
    BY <1>1, RequestFacts
  <1>3. IsFiniteSet(counts) /\ counts \in SUBSET Nat
    <2>. DEFINE b == [i \in D |-> file[i].dbQueries]
    <2>1. counts = {b[i] : i \in D} /\ DOMAIN b = D
      OBVIOUS
    <2>2. counts \in SUBSET Nat
      BY <1>2
    <2>. HIDE DEF b, D, counts
    <2>. QED  BY <1>2, <2>1, <2>2, ImageSize
  <1>4. row.dbMax = Greatest(counts)
    BY <1>1, EndpointParts DEF WorstRequest
  <1>5. /\ Greatest(counts) \in Nat /\ Greatest(counts) \in {0} \cup counts
        /\ \A x \in counts : x <= Greatest(counts)
    <2>. HIDE DEF counts
    <2>. QED  BY <1>3, GreatestOf
  <1>6. PossibleN1(row) <=> \E x \in counts : x >= n1Threshold
    <2>1. n1Threshold \in Nat \ {0} /\ (PossibleN1(row) <=> Greatest(counts) >= n1Threshold)
      BY <1>4, AnalysisAssumption DEF PossibleN1
    <2>. HIDE DEF counts
    <2>2. ASSUME NEW x \in counts, x >= n1Threshold PROVE Greatest(counts) >= n1Threshold
      <3>1. x <= Greatest(counts) /\ x \in Nat
        BY <1>3, <1>5, <2>2
      <3>. QED  BY <1>5, <2>1, <2>2, <3>1
    <2>3. ASSUME Greatest(counts) >= n1Threshold PROVE Greatest(counts) \in counts
      BY <1>5, <2>1, <2>3
    <2>. QED  BY <2>1, <2>2, <2>3
  <1>7. (\E x \in counts : x >= n1Threshold) <=> row.route \in GuiltyRoutes(file)
    BY DEF RequestsOf, GuiltyRoutes
  <1>. QED  BY <1>2, <1>4, <1>5, <1>6, <1>7

LEMMA GuiltyIsRoute ==
  ASSUME NEW file, NEW route \in GuiltyRoutes(file)
  PROVE  \E row \in EndpointRows(file) : row.route = route
  <1>1. route \in Routes(file)
    BY DEF GuiltyRoutes, Routes
  <1>2. EndpointRow(route, file).route = route
    BY EndpointParts
  <1>. QED  BY <1>1, <1>2 DEF EndpointRows

N1In(s) == {i \in DOMAIN s : s[i][1] = "possible-N+1"}
WarnsOf(s, routes) ==
  /\ {s[i][2] : i \in N1In(s)} = routes
  /\ \A i, j \in N1In(s) : s[i][2] = s[j][2] => i = j

LEMMA AllEndpointsOnce ==
  ASSUME NEW file \in Seq(Line)
  PROVE  /\ AllEndpoints(file) \in Seq(EndpointRows(file))
         /\ ToSet(AllEndpoints(file)) = EndpointRows(file)
         /\ \A j, k \in DOMAIN AllEndpoints(file) :
              AllEndpoints(file)[j] = AllEndpoints(file)[k] => j = k
  <1>1. Lists(AllEndpoints(file), EndpointRows(file), ByP99(file))
    BY EndpointsListed
  <1>2. IsFiniteSet(EndpointRows(file))
    BY EndpointsFinite
  <1>3. /\ DOMAIN AllEndpoints(file) = 1 .. Cardinality(EndpointRows(file))
        /\ AllEndpoints(file) \in Seq(EndpointRows(file))
        /\ ToSet(AllEndpoints(file)) = EndpointRows(file)
    BY <1>1, <1>2, ListsAll
  <1>. QED  BY <1>1, <1>3 DEF Lists

LEMMA N1WarningParts ==
  ASSUME NEW file \in Seq(Line)
  PROVE  /\ N1Warnings(file) \in Seq(N1Texts)
         /\ WarnsOf(N1Warnings(file), GuiltyRoutes(file))
  <1>. DEFINE S == EndpointRows(file)
              rows == AllEndpoints(file)
              suspects == Suspects(rows)
              s == [i \in DOMAIN suspects |-> <<"possible-N+1", suspects[i].route, suspects[i].dbMax>>]
  <1>1. N1Warnings(file) = s
    BY DEF N1Warnings, N1Source
  <1>2. /\ rows \in Seq(S) /\ ToSet(rows) = S
        /\ \A j, k \in DOMAIN rows : rows[j] = rows[k] => j = k
    BY AllEndpointsOnce
  <1>3. /\ suspects \in Seq(S) /\ ToSet(suspects) = {row \in S : PossibleN1(row)}
        /\ \A j, k \in DOMAIN suspects : suspects[j] = suspects[k] => j = k
    <2>. HIDE DEF S, rows
    <2>. QED  BY <1>2, SuspectsAll
  <1>4. \A row \in S : /\ row.dbMax \in Nat /\ row.route \in Nat
                       /\ PossibleN1(row) <=> row.route \in GuiltyRoutes(file)
                       /\ row = EndpointRow(row.route, file)
    BY SuspectIsGuilty, EndpointsFinite
  <1>5. DOMAIN suspects = 1 .. Len(suspects) /\ Len(suspects) \in Nat
        /\ \A i \in DOMAIN suspects : suspects[i] \in S
    <2>. HIDE DEF S, suspects
    <2>. QED  BY <1>3
  <1>. HIDE DEF S, rows, suspects
  <1>6. \A i \in DOMAIN suspects : /\ s[i] \in N1Texts
                                    /\ s[i][1] = "possible-N+1" /\ s[i][2] = suspects[i].route
    BY <1>4, <1>5 DEF N1Texts
  <1>7. DOMAIN s = 1 .. Len(suspects) /\ s \in [1 .. Len(suspects) -> N1Texts]
    BY <1>5, <1>6
  <1>8. s \in Seq(N1Texts) /\ N1In(s) = DOMAIN suspects
    <2>1. s \in Seq(N1Texts)
      <3>. HIDE DEF s
      <3>. QED  BY <1>5, <1>7
    <2>2. DOMAIN s = DOMAIN suspects
      OBVIOUS
    <2>. HIDE DEF s
    <2>. QED  BY <1>6, <2>1, <2>2 DEF N1In
  <1>. HIDE DEF s
  <1>9. {s[i][2] : i \in N1In(s)} = GuiltyRoutes(file)
    <2>1. ASSUME NEW i \in DOMAIN suspects PROVE s[i][2] \in GuiltyRoutes(file)
      <3>1. suspects[i] \in {row \in S : PossibleN1(row)}
        BY <1>3 DEF ToSet
      <3>. QED  BY <1>4, <1>6, <3>1
    <2>2. ASSUME NEW route \in GuiltyRoutes(file) PROVE \E i \in DOMAIN suspects : s[i][2] = route
      <3>1. PICK row \in S : row.route = route
        BY GuiltyIsRoute DEF S
      <3>2. row \in ToSet(suspects)
        BY <1>3, <1>4, <3>1
      <3>. QED  BY <1>6, <3>1, <3>2 DEF ToSet
    <2>. QED  BY <1>8, <2>1, <2>2
  <1>10. ASSUME NEW i \in N1In(s), NEW j \in N1In(s), s[i][2] = s[j][2] PROVE i = j
    <2>1. suspects[i].route = suspects[j].route /\ suspects[i] \in S /\ suspects[j] \in S
      BY <1>5, <1>6, <1>8, <1>10
    <2>2. suspects[i] = suspects[j]
      BY <1>4, <2>1
    <2>. QED  BY <1>3, <1>8, <2>2
  <1>. QED  BY <1>1, <1>8, <1>9, <1>10 DEF WarnsOf

LEMMA OtherTextsAround ==
  ASSUME NEW s \in Seq(Texts), NEW t \in Seq(OtherTexts), NEW routes, WarnsOf(s, routes)
  PROVE  /\ s \o t \in Seq(Texts) /\ WarnsOf(s \o t, routes)
         /\ t \o s \in Seq(Texts) /\ WarnsOf(t \o s, routes)
  <1>1. \A i \in 1 .. Len(t) : t[i] \in Texts /\ t[i][1] # "possible-N+1"
    <2>1. \A i \in 1 .. Len(t) : t[i] \in OtherTexts
      OBVIOUS
    <2>. QED  BY <2>1, TextsApart DEF Texts
  <1>2. t \in Seq(Texts)
    <2>1. t \in [1 .. Len(t) -> Texts] /\ Len(t) \in Nat
      BY <1>1
    <2>. QED  BY <2>1
  <1>3. Len(s) \in Nat /\ Len(t) \in Nat
    OBVIOUS
  <1>13. DOMAIN s = 1 .. Len(s) /\ DOMAIN t = 1 .. Len(t)
    OBVIOUS
  <1>14. /\ s \o t \in Seq(Texts) /\ t \o s \in Seq(Texts)
         /\ DOMAIN (s \o t) = 1 .. Len(s) + Len(t) /\ DOMAIN (t \o s) = 1 .. Len(t) + Len(s)
    BY <1>2
  <1>. DEFINE st == s \o t
              ts == t \o s
  <1>4. \A i \in 1 .. Len(s) + Len(t) : st[i] = IF i <= Len(s) THEN s[i] ELSE t[i - Len(s)]
    BY <1>2
  <1>5. \A i \in 1 .. Len(t) + Len(s) : ts[i] = IF i <= Len(t) THEN t[i] ELSE s[i - Len(t)]
    BY <1>2
  <1>6. DOMAIN st = 1 .. Len(s) + Len(t) /\ DOMAIN ts = 1 .. Len(t) + Len(s)
    BY <1>14
  <1>. HIDE DEF st, ts
  <1>7. \A i \in N1In(s) : i \in N1In(st) /\ st[i] = s[i]
    BY <1>3, <1>13, <1>4, <1>6 DEF N1In
  <1>8. ASSUME NEW i \in N1In(st) PROVE i \in N1In(s) /\ st[i] = s[i]
    <2>1. i \in 1 .. Len(s) + Len(t) /\ st[i][1] = "possible-N+1"
      BY <1>6 DEF N1In
    <2>2. i <= Len(s)
      <3>1. CASE ~(i <= Len(s))
        <4>1. i - Len(s) \in 1 .. Len(t) /\ st[i] = t[i - Len(s)]
          BY <1>3, <1>4, <2>1, <3>1
        <4>. QED  BY <1>1, <2>1, <4>1
      <3>. QED  BY <3>1
    <2>. QED  BY <1>3, <1>13, <1>4, <2>1, <2>2 DEF N1In
  <1>9. ASSUME NEW i \in N1In(s) PROVE i + Len(t) \in N1In(ts) /\ ts[i + Len(t)] = s[i]
    <2>1. i \in 1 .. Len(s) /\ s[i][1] = "possible-N+1"
      BY <1>13 DEF N1In
    <2>2. /\ i + Len(t) \in 1 .. Len(t) + Len(s) /\ ~(i + Len(t) <= Len(t))
          /\ (i + Len(t)) - Len(t) = i
      BY <1>3, <2>1
    <2>3. ts[i + Len(t)] = s[i]
      BY <1>5, <2>2
    <2>. QED  BY <1>6, <2>1, <2>2, <2>3 DEF N1In
  <1>10. ASSUME NEW i \in N1In(ts)
         PROVE  i - Len(t) \in N1In(s) /\ ts[i] = s[i - Len(t)] /\ i \in Int
    <2>1. i \in 1 .. Len(t) + Len(s) /\ ts[i][1] = "possible-N+1"
      BY <1>6 DEF N1In
    <2>2. ~(i <= Len(t))
      <3>1. CASE i <= Len(t)
        <4>1. i \in 1 .. Len(t) /\ ts[i] = t[i]
          BY <1>3, <1>5, <2>1, <3>1
        <4>. QED  BY <1>1, <2>1, <4>1
      <3>. QED  BY <3>1
    <2>3. i - Len(t) \in 1 .. Len(s) /\ ts[i] = s[i - Len(t)]
      BY <1>3, <1>5, <2>1, <2>2
    <2>. QED  BY <1>13, <2>1, <2>3 DEF N1In
  <1>11. WarnsOf(st, routes)
    BY <1>7, <1>8 DEF WarnsOf
  <1>12. WarnsOf(ts, routes)
    <2>1. {ts[i][2] : i \in N1In(ts)} = {s[i][2] : i \in N1In(s)}
      <3>1. ASSUME NEW i \in N1In(ts) PROVE \E j \in N1In(s) : s[j][2] = ts[i][2]
        BY <1>10
      <3>2. ASSUME NEW j \in N1In(s) PROVE \E i \in N1In(ts) : ts[i][2] = s[j][2]
        BY <1>9
      <3>. QED  BY <3>1, <3>2
    <2>2. ASSUME NEW i \in N1In(ts), NEW j \in N1In(ts), ts[i][2] = ts[j][2] PROVE i = j
      <3>1. i - Len(t) = j - Len(t) /\ i \in Int /\ j \in Int /\ Len(t) \in Int
        BY <1>3, <1>10, <2>2 DEF WarnsOf
      <3>. QED  BY <3>1
    <2>. QED  BY <2>1, <2>2 DEF WarnsOf
  <1>. QED  BY <1>14, <1>11, <1>12 DEF st, ts

LEMMA WarningsParts ==
  ASSUME NEW file \in Seq(Line)
  PROVE  /\ Warnings(file) \in Seq(Texts)
         /\ WarnsOf(Warnings(file), GuiltyRoutes(file))
         /\ <<"calls-capped">> \in ToSet(Warnings(file)) <=> Len(AllCalls(file)) > CALLS_CAP
  <1>. DEFINE many   == Len(AllEndpoints(file)) > ENDPOINTS_CAP
              models == Len(AllModels(file)) > MODELS_CAP
              capped == Len(AllCalls(file)) > CALLS_CAP
              w1 == Warning(AttachPids(file) = {}, <<"no-attach">>)
              w2 == Warning(many, <<"endpoints-capped">>)
              n  == N1Warnings(file)
              w3 == Warning(models, <<"models-capped">>)
              w4 == Warning(capped, <<"calls-capped">>)
  <1>1. /\ <<"no-attach">> \in OtherTexts /\ <<"endpoints-capped">> \in OtherTexts
        /\ <<"models-capped">> \in OtherTexts /\ <<"calls-capped">> \in OtherTexts
    BY DEF OtherTexts
  <1>2. w1 \in Seq(OtherTexts) /\ ToSet(w1) \in SUBSET {<<"no-attach">>}
    BY <1>1, WarningParts
  <1>3. w2 \in Seq(OtherTexts) /\ ToSet(w2) \in SUBSET {<<"endpoints-capped">>}
    <2>1. many \in BOOLEAN
      OBVIOUS
    <2>. HIDE DEF many
    <2>. QED  BY <1>1, <2>1, WarningParts
  <1>4. w3 \in Seq(OtherTexts) /\ ToSet(w3) \in SUBSET {<<"models-capped">>}
    <2>1. models \in BOOLEAN
      OBVIOUS
    <2>. HIDE DEF models
    <2>. QED  BY <1>1, <2>1, WarningParts
  <1>5. w4 \in Seq(OtherTexts) /\ ToSet(w4) = IF capped THEN {<<"calls-capped">>} ELSE {}
    <2>1. capped \in BOOLEAN
      OBVIOUS
    <2>. HIDE DEF capped
    <2>. QED  BY <1>1, <2>1, WarningParts
  <1>6. n \in Seq(N1Texts) /\ WarnsOf(n, GuiltyRoutes(file))
    BY N1WarningParts
  <1>7. n \in Seq(Texts) /\ ToSet(n) \in SUBSET N1Texts
    <2>. HIDE DEF n
    <2>1. n \in [1 .. Len(n) -> N1Texts] /\ DOMAIN n = 1 .. Len(n) /\ Len(n) \in Nat
      BY <1>6
    <2>2. ToSet(n) \in SUBSET N1Texts
      BY <2>1 DEF ToSet
    <2>3. n \in [1 .. Len(n) -> Texts]
      BY <2>1 DEF Texts
    <2>. QED  BY <2>1, <2>2, <2>3
  <1>8. Warnings(file) = (((w1 \o w2) \o n) \o w3) \o w4
    BY DEF Warnings
  <1>. HIDE DEF w1, w2, w3, w4, n, many, models, capped
  <1>9. w1 \o w2 \in Seq(OtherTexts) /\ ToSet(w1 \o w2) = ToSet(w1) \cup ToSet(w2)
    BY <1>2, <1>3, ConcatParts
  <1>10. \A t \in Seq(OtherTexts) : t \in Seq(Texts)
    <2>1. OtherTexts \in SUBSET Texts
      BY DEF Texts
    <2>. QED  BY <2>1
  <1>11. /\ (w1 \o w2) \o n \in Seq(Texts) /\ WarnsOf((w1 \o w2) \o n, GuiltyRoutes(file))
         /\ ToSet((w1 \o w2) \o n) = ToSet(w1 \o w2) \cup ToSet(n)
    <2>. DEFINE t == w1 \o w2
    <2>1. t \in Seq(OtherTexts) /\ t \in Seq(Texts)
      BY <1>9, <1>10
    <2>. HIDE DEF t
    <2>2. t \o n \in Seq(Texts) /\ WarnsOf(t \o n, GuiltyRoutes(file))
      BY <1>6, <1>7, <2>1, OtherTextsAround
    <2>3. ToSet(t \o n) = ToSet(t) \cup ToSet(n)
      BY <1>7, <2>1, ConcatParts
    <2>. QED  BY <2>2, <2>3 DEF t
  <1>. DEFINE a == (w1 \o w2) \o n
              b == a \o w3
              c == b \o w4
  <1>12. b \in Seq(Texts) /\ WarnsOf(b, GuiltyRoutes(file)) /\ ToSet(b) = ToSet(a) \cup ToSet(w3)
    <2>1. a \in Seq(Texts) /\ WarnsOf(a, GuiltyRoutes(file))
      BY <1>11
    <2>. HIDE DEF a
    <2>. QED  BY <2>1, <1>4, <1>10, OtherTextsAround, ConcatParts
  <1>13. c \in Seq(Texts) /\ WarnsOf(c, GuiltyRoutes(file)) /\ ToSet(c) = ToSet(b) \cup ToSet(w4)
    <2>. HIDE DEF b
    <2>. QED  BY <1>12, <1>5, <1>10, OtherTextsAround, ConcatParts
  <1>14. ToSet(c) = ToSet(w1) \cup ToSet(w2) \cup ToSet(n) \cup ToSet(w3) \cup ToSet(w4)
    <2>1. ToSet(a) = ToSet(w1) \cup ToSet(w2) \cup ToSet(n)
      BY <1>9, <1>11
    <2>. HIDE DEF a, b, c
    <2>. QED  BY <1>12, <1>13, <2>1
  <1>15. /\ <<"calls-capped">> # <<"no-attach">> /\ <<"calls-capped">> # <<"endpoints-capped">>
         /\ <<"calls-capped">> # <<"models-capped">>
    OBVIOUS
  <1>16. <<"calls-capped">> \notin N1Texts
    BY <1>1, TextsApart
  <1>17. <<"calls-capped">> \in ToSet(c) <=> capped
    <2>. HIDE DEF c
    <2>. QED  BY <1>2, <1>3, <1>4, <1>5, <1>7, <1>14, <1>15, <1>16
  <1>18. Warnings(file) = c
    BY <1>8
  <1>. HIDE DEF c
  <1>. QED  BY <1>13, <1>17, <1>18 DEF capped

LEMMA FindingsParts ==
  ASSUME NEW file
  PROVE  /\ Findings(file).warnings = Warnings(file)
         /\ Findings(file).blocking.calls = Capped(AllCalls(file), CALLS_CAP)
         /\ Findings(file).blocking.totalMs
              = SumFunction([i \in Of("block.call", file) |-> file[i].ms])
         /\ Findings(file).http.endpoints = Capped(AllEndpoints(file), ENDPOINTS_CAP)
BY DEF Findings

LEMMA CapsHold == EventsInv => CapsDropTheLightest
  <1>. SUFFICES ASSUME EventsInv PROVE CapsDropTheLightest
    OBVIOUS
  <1>. DEFINE all == AllCalls(events)
              calls == Capped(all, CALLS_CAP)
              S == CallRows(events)
              Time(site) == SumFunction([i \in CallsOf(site, events) |-> events[i].ms])
              Shown == {calls[i].site : i \in DOMAIN calls}
              Dropped == {events[i].site : i \in Of("block.call", events)} \ Shown
              n == Cardinality(S)
              m == IF CALLS_CAP <= n THEN CALLS_CAP ELSE n
  <1>1. events \in Seq(Line) /\ CALLS_CAP \in Nat \ {0}
    BY AnalysisAssumption DEF EventsInv
  <1>2. Lists(all, S, ByTime(events)) /\ IsFiniteSet(S)
    BY <1>1, CallsListed, CallRowsFinite
  <1>3. /\ DOMAIN all = 1 .. n /\ n \in Nat /\ Len(all) = n /\ all \in Seq(S) /\ ToSet(all) = S
    <2>. HIDE DEF all, S
    <2>. QED  BY <1>2, ListsAll
  <1>4. /\ DOMAIN calls = 1 .. m /\ m \in 0 .. n /\ \A i \in 1 .. m : calls[i] = all[i]
    <2>. HIDE DEF all, S
    <2>1. /\ calls \in Seq(S) /\ Len(calls) = m
          /\ \A i \in DOMAIN calls : calls[i] = all[i]
      BY <1>1, <1>3, CappedParts
    <2>2. m \in 0 .. n
      BY <1>1, <1>3
    <2>. HIDE DEF calls
    <2>. QED  BY <2>1, <2>2
  <1>5. \A row \in S : /\ row.totalMs = Time(row.site) /\ row.totalMs \in Nat
                       /\ row.site \in CallSites(events) /\ row = CallRow(row.site, events)
    BY <1>1, CallRowsFinite, TimeOfCalls
  <1>6. \A i \in 1 .. n : all[i] \in S
    <2>. HIDE DEF all, S
    <2>. QED  BY <1>3
  <1>7. \A site \in CallSites(events) : \E i \in 1 .. n : all[i].site = site
    <2>1. ASSUME NEW site \in CallSites(events) PROVE \E i \in 1 .. n : all[i].site = site
      <3>1. CallRow(site, events) \in S /\ CallRow(site, events).site = site
        BY <1>1, TimeOfCalls DEF CallRows
      <3>2. PICK i \in 1 .. n : all[i] = CallRow(site, events)
        <4>. HIDE DEF all, S
        <4>. QED  BY <1>2, <3>1 DEF Lists
      <3>. QED  BY <3>1, <3>2
    <2>. QED  BY <2>1
  <1>8. \A i, j \in 1 .. n : all[i].site = all[j].site => i = j
    <2>1. \A i, j \in 1 .. n : all[i].site = all[j].site => all[i] = all[j]
      BY <1>5, <1>6
    <2>. HIDE DEF all, S
    <2>. QED  BY <1>2, <2>1 DEF Lists
  <1>9. \A i, j \in 1 .. n : i < j => all[i].totalMs >= all[j].totalMs
    <2>1. \A x, y \in S : <<x, y>> \in ByTime(events) => x.totalMs >= y.totalMs
      <3>. DEFINE val == [row \in S |-> row.totalMs]
                  name == [row \in S |-> row.site]
      <3>1. \A x, y \in S : <<x, y>> \in Heavier(val, name) => val[x] >= val[y]
        <4>1. \A x \in S : val[x] \in Nat
          <5>. HIDE DEF S, Time
          <5>. QED  BY <1>5
        <4>. QED  BY <4>1 DEF Heavier
      <3>. QED  BY <3>1 DEF ByTime
    <2>. HIDE DEF all, S
    <2>. QED  BY <1>2, <1>6, <2>1 DEF Lists
  <1>10. \A site \in Dropped : \E j \in m + 1 .. n : all[j].site = site
    <2>1. ASSUME NEW site \in Dropped PROVE \E j \in m + 1 .. n : all[j].site = site
      <3>1. site \in CallSites(events) /\ \A i \in 1 .. m : calls[i].site # site
        BY <1>4 DEF CallSites
      <3>2. PICK j \in 1 .. n : all[j].site = site
        BY <1>7, <3>1
      <3>3. j \notin 1 .. m
        BY <1>4, <3>1, <3>2
      <3>4. j \in m + 1 .. n
        <4>. HIDE DEF m, n
        <4>. QED  BY <1>3, <1>4, <3>3
      <3>. QED  BY <3>2, <3>4
    <2>. QED  BY <2>1
  <1>11. ASSUME NEW i \in DOMAIN calls
         PROVE  /\ calls[i].totalMs = Time(calls[i].site)
                /\ \A site \in Dropped : Time(site) <= calls[i].totalMs
    <2>1. i \in 1 .. m /\ i \in 1 .. n /\ calls[i] = all[i] /\ all[i] \in S
      <3>1. i \in 1 .. m /\ calls[i] = all[i] /\ i \in 1 .. n
        <4>. HIDE DEF all, S, n, m
        <4>. QED  BY <1>3, <1>4, <1>11
      <3>. QED  BY <1>6, <3>1
    <2>2. ASSUME NEW site \in Dropped PROVE Time(site) <= calls[i].totalMs
      <3>1. PICK j \in m + 1 .. n : all[j].site = site
        BY <1>10
      <3>2. j \in 1 .. n /\ i < j
        <4>. HIDE DEF m, n
        <4>. QED  BY <1>3, <1>4, <2>1
      <3>3. all[j] \in S /\ all[i].totalMs >= all[j].totalMs
        BY <1>6, <1>9, <2>1, <3>2
      <3>4. all[j].totalMs = Time(site) /\ all[j].totalMs \in Nat /\ all[i].totalMs \in Nat
        BY <1>5, <2>1, <3>1, <3>3
      <3>. HIDE DEF Time
      <3>. QED  BY <2>1, <3>3, <3>4
    <2>. QED  BY <1>5, <2>1, <2>2
  <1>12. (Dropped # {}) <=> n > CALLS_CAP
    <2>1. ASSUME Dropped # {} PROVE n > CALLS_CAP
      <3>1. PICK j \in m + 1 .. n : TRUE
        BY <1>10, <2>1
      <3>. HIDE DEF n
      <3>. QED  BY <1>1, <1>3
    <2>2. ASSUME n > CALLS_CAP PROVE Dropped # {}
      <3>1. m = CALLS_CAP /\ m + 1 \in 1 .. n /\ m + 1 \notin 1 .. m
        <4>. HIDE DEF n
        <4>. QED  BY <1>1, <1>3, <2>2
      <3>2. \A i \in 1 .. m : i \in 1 .. n /\ calls[i].site = all[i].site /\ i # m + 1
        <4>. HIDE DEF n, all, m
        <4>. QED  BY <1>3, <1>4, <3>1
      <3>3. all[m + 1].site \notin Shown
        BY <1>4, <1>8, <3>1, <3>2
      <3>4. all[m + 1].site \in CallSites(events)
        BY <1>5, <1>6, <3>1
      <3>. QED  BY <3>3, <3>4 DEF CallSites
    <2>. QED  BY <2>1, <2>2
  <1>13. (Dropped # {}) <=> Contains(Warnings(events), <<"calls-capped">>)
    <2>1. Warnings(events) \in Seq(Texts)
          /\ (<<"calls-capped">> \in ToSet(Warnings(events)) <=> n > CALLS_CAP)
      BY <1>1, <1>3, WarningsParts
    <2>2. DOMAIN Warnings(events) = 1 .. Len(Warnings(events))
      BY <2>1
    <2>3. Contains(Warnings(events), <<"calls-capped">>) <=> <<"calls-capped">> \in ToSet(Warnings(events))
      BY <2>2 DEF Contains, ToSet
    <2>. HIDE DEF Dropped, n
    <2>. QED  BY <1>12, <2>1, <2>3
  <1>14. SumFunction([i \in DOMAIN all |-> all[i].totalMs])
           = SumFunction([i \in Of("block.call", events) |-> events[i].ms])
    <2>. DEFINE D == Of("block.call", events)
                f == BlockMs(events)
                key == [i \in D |-> events[i].site]
                V == CallSites(events)
                g == [site \in V |-> SumOver(f, {i \in D : key[i] = site})]
                h == [i \in 1 .. n |-> all[i].totalMs]
                b == [i \in 1 .. n |-> all[i].site]
    <2>1. /\ IsFiniteSet(D) /\ f \in [D -> Nat] /\ IsFiniteSet(V) /\ key \in [D -> Nat]
      BY <1>1, CallFacts
    <2>2. \A site \in V : g[site] = SumOver(f, {i \in D : key[i] = site})
      OBVIOUS
    <2>9. ASSUME NEW site \in V PROVE g[site] = Time(site) /\ g[site] \in Nat
      <3>1. CallsOf(site, events) = {i \in D : key[i] = site}
        BY DEF CallsOf
      <3>2. g[site] = SumOver(f, CallsOf(site, events))
        <4>. HIDE DEF D, f, key, V
        <4>. QED  BY <3>1
      <3>. QED  BY <1>1, <3>2, TimeOfCalls
    <2>3. SumOver(g, V) = SumOver(f, {i \in D : key[i] \in V})
      <3>1. g \in [V -> Nat]
        BY <2>9
      <3>. HIDE DEF D, f, key, V, g
      <3>. QED  BY <2>1, <2>2, <3>1, SumOfGroups
    <2>4. {i \in D : key[i] \in V} = D
      BY DEF CallSites
    <2>5. SumOver(f, D) = SumFunction([i \in D |-> events[i].ms])
      BY DEF SumOver, BlockMs
    <2>6. SumOver(h, 1 .. n) = SumFunction([i \in DOMAIN all |-> all[i].totalMs])
      <3>1. DOMAIN all = 1 .. n
        BY <1>3
      <3>2. [i \in 1 .. n |-> h[i]] = [i \in 1 .. n |-> all[i].totalMs]
        OBVIOUS
      <3>. QED  BY <3>1, <3>2 DEF SumOver
    <2>. DEFINE I == 1 .. n
    <2>7. SumOver(g, {b[i] : i \in I}) = SumOver(h, I)
      <3>1. IsFiniteSet(I)
        BY <1>3, FS_Interval
      <3>2. \A i \in I : b[i] \in V /\ h[i] \in Nat /\ g[b[i]] = h[i]
        BY <1>5, <1>6, <2>9
      <3>3. \A i, j \in I : b[i] = b[j] => i = j
        BY <1>8
      <3>4. h \in [I -> Nat] /\ b \in [I -> V] /\ g \in [V -> Nat]
        BY <2>9, <3>2
      <3>. HIDE DEF h, b, g, V, n, I
      <3>. QED  BY <2>1, <3>1, <3>2, <3>3, <3>4, SumRenamed
    <2>8. {b[i] : i \in I} = V
      <3>1. \A i \in 1 .. n : b[i] \in V
        BY <1>5, <1>6
      <3>2. \A site \in V : \E i \in 1 .. n : b[i] = site
        BY <1>7
      <3>. HIDE DEF b, V, n
      <3>. QED  BY <3>1, <3>2
    <2>. HIDE DEF D, f, key, V, g, h, b, n
    <2>. QED  BY <2>3, <2>4, <2>5, <2>6, <2>7, <2>8 DEF D, I
  <1>. QED
    <2>1. /\ Findings(events).warnings = Warnings(events)
          /\ Findings(events).blocking.calls = calls
          /\ Findings(events).blocking.totalMs
               = SumFunction([i \in Of("block.call", events) |-> events[i].ms])
      BY FindingsParts
    <2>. HIDE DEF calls
    <2>. QED  BY <1>11, <1>13, <1>14, <2>1 DEF CapsDropTheLightest, calls

(* For every file and every cap: the rows of call sites that are left out   *)
(* are the lightest, the warning says so, and the rows add up to the total. *)
THEOREM Caps == EventsSpec => []CapsDropTheLightest
  BY EventsAreLines, CapsHold, PTL

-----------------------------------------------------------------------------
(* Each guilty route is warned of once, and reported if it has a row.      *)

LEMMA WarnedOnce ==
  ASSUME NEW s \in Seq(Texts), NEW routes, WarnsOf(s, routes)
  PROVE  Cardinality(N1In(s)) = Cardinality(routes)
  <1>. DEFINE D == N1In(s)
              b == [i \in D |-> s[i][2]]
  <1>1. IsFiniteSet(D)
    <2>1. DOMAIN s = 1 .. Len(s) /\ Len(s) \in Nat
      OBVIOUS
    <2>2. IsFiniteSet(DOMAIN s) /\ D \in SUBSET DOMAIN s
      BY <2>1, FS_Interval DEF N1In
    <2>. QED  BY <2>2, FS_Subset
  <1>2. \A i, j \in D : b[i] = b[j] => i = j
    BY DEF WarnsOf
  <1>5. DOMAIN b = D
    OBVIOUS
  <1>3. {b[i] : i \in D} = routes
    <2>1. {b[i] : i \in D} = {s[i][2] : i \in D}
      OBVIOUS
    <2>. QED  BY <2>1 DEF WarnsOf
  <1>4. Cardinality({b[i] : i \in D}) = Cardinality(D)
    <2>. HIDE DEF D, b
    <2>1. IsFiniteSet({b[x] : x \in D})
      BY <1>1, <1>5, ImageSize
    <2>2. Cardinality(D) \in Nat /\ Cardinality({b[x] : x \in D}) \in Nat
      BY <1>1, <2>1, FS_CardinalityType
    <2>. QED  BY <1>1, <1>2, <1>5, <2>2, ImageSize
  <1>. HIDE DEF b
  <1>. QED  BY <1>3, <1>4

LEMMA ReportedRoutes ==
  ASSUME NEW file \in Seq(Line)
  PROVE  LET found == Findings(file)
             Shown == {row.route : row \in ToSet(found.http.endpoints)}
         IN {d[2] : d \in {x \in ToSet(RuntimeDiagnostics(found)) :
                             x[1] = "runtime-possible-n1"}} = GuiltyRoutes(file) \cap Shown
  <1>. DEFINE found == Findings(file)
              calls == found.blocking.calls
              rows == found.http.endpoints
              suspects == Suspects(rows)
              s == [i \in DOMAIN calls |-> <<"runtime-blocking-call", calls[i].site>>]
              t == [i \in DOMAIN suspects |-> <<"runtime-possible-n1", suspects[i].route>>]
              S == EndpointRows(file)
              V == {"runtime-blocking-call", "runtime-possible-n1"} \X Nat
              Shown == {row.route : row \in ToSet(rows)}
  <1>1. RuntimeDiagnostics(found) = s \o t
    BY DEF RuntimeDiagnostics
  <1>2. calls = Capped(AllCalls(file), CALLS_CAP) /\ rows = Capped(AllEndpoints(file), ENDPOINTS_CAP)
    BY FindingsParts
  <1>3. CALLS_CAP \in Nat \ {0} /\ ENDPOINTS_CAP \in Nat \ {0}
    BY AnalysisAssumption
  <1>4. calls \in Seq(CallRows(file))
    <2>1. AllCalls(file) \in Seq(CallRows(file))
      BY CallsListed, CallRowsFinite, ListsAll
    <2>. QED  BY <1>2, <1>3, <2>1, CappedParts
  <1>5. rows \in Seq(S)
    <2>1. AllEndpoints(file) \in Seq(S)
      BY AllEndpointsOnce
    <2>. HIDE DEF S
    <2>. QED  BY <1>2, <1>3, <2>1, CappedParts
  <1>6. suspects \in Seq(S) /\ ToSet(suspects) = {row \in ToSet(rows) : PossibleN1(row)}
    <2>. HIDE DEF S, rows
    <2>. QED  BY <1>5, SuspectsAll
  <1>7. \A row \in S : /\ row.route \in Nat
                       /\ PossibleN1(row) <=> row.route \in GuiltyRoutes(file)
    BY SuspectIsGuilty
  <1>. HIDE DEF found, calls, rows, suspects, S
  <1>8. s \in Seq(V) /\ DOMAIN s = DOMAIN calls
        /\ \A i \in DOMAIN s : s[i][1] = "runtime-blocking-call"
    <2>1. DOMAIN calls = 1 .. Len(calls) /\ Len(calls) \in Nat
          /\ \A i \in 1 .. Len(calls) : calls[i] \in CallRows(file)
      BY <1>4
    <2>2. \A row \in CallRows(file) : row.site \in Nat
      BY CallRowsFinite, CallFacts
    <2>3. \A i \in 1 .. Len(calls) : s[i] \in V /\ s[i][1] = "runtime-blocking-call"
      BY <2>1, <2>2
    <2>4. DOMAIN s = 1 .. Len(calls) /\ s \in [1 .. Len(calls) -> V]
      BY <2>1, <2>3
    <2>. HIDE DEF s, V
    <2>. QED  BY <2>1, <2>3, <2>4
  <1>9. t \in Seq(V) /\ DOMAIN t = DOMAIN suspects
        /\ \A i \in DOMAIN t : t[i][1] = "runtime-possible-n1" /\ t[i][2] = suspects[i].route
    <2>1. DOMAIN suspects = 1 .. Len(suspects) /\ Len(suspects) \in Nat
          /\ \A i \in 1 .. Len(suspects) : suspects[i] \in S
      BY <1>6
    <2>2. \A i \in 1 .. Len(suspects) : /\ t[i] \in V /\ t[i][1] = "runtime-possible-n1"
                                        /\ t[i][2] = suspects[i].route
      BY <1>7, <2>1
    <2>3. DOMAIN t = 1 .. Len(suspects) /\ t \in [1 .. Len(suspects) -> V]
      BY <2>1, <2>2
    <2>. HIDE DEF t, V
    <2>. QED  BY <2>1, <2>2, <2>3
  <1>. HIDE DEF s, t, V
  <1>10. ToSet(s \o t) = ToSet(s) \cup ToSet(t)
    BY <1>8, <1>9, ConcatParts
  <1>. DEFINE Reports == {x \in ToSet(s \o t) : x[1] = "runtime-possible-n1"}
  <1>11. Reports = ToSet(t)
    <2>1. \A x \in ToSet(s) : x[1] # "runtime-possible-n1"
      BY <1>8 DEF ToSet
    <2>2. \A x \in ToSet(t) : x[1] = "runtime-possible-n1"
      BY <1>9 DEF ToSet
    <2>. QED  BY <1>10, <2>1, <2>2
  <1>12. \A x \in ToSet(t) : x[2] \in GuiltyRoutes(file) \cap Shown
    <2>1. ASSUME NEW i \in DOMAIN t PROVE t[i][2] \in GuiltyRoutes(file) \cap Shown
      <3>1. suspects[i] \in ToSet(suspects) /\ t[i][2] = suspects[i].route
        BY <1>9 DEF ToSet
      <3>2. suspects[i] \in ToSet(rows) /\ PossibleN1(suspects[i])
        BY <1>6, <3>1
      <3>3. suspects[i] \in S
        BY <1>5, <3>2 DEF ToSet
      <3>. QED  BY <1>7, <3>1, <3>2, <3>3
    <2>. QED  BY <2>1 DEF ToSet
  <1>13. \A route \in GuiltyRoutes(file) \cap Shown : \E x \in ToSet(t) : x[2] = route
    <2>1. ASSUME NEW route \in GuiltyRoutes(file) \cap Shown
          PROVE  \E x \in ToSet(t) : x[2] = route
      <3>1. PICK row \in ToSet(rows) : row.route = route
        BY <2>1
      <3>2. row \in S
        BY <1>5, <3>1 DEF ToSet
      <3>3. row \in ToSet(suspects)
        BY <1>6, <1>7, <3>1, <3>2
      <3>4. PICK i \in DOMAIN suspects : suspects[i] = row
        BY <3>3 DEF ToSet
      <3>5. t[i] \in ToSet(t) /\ t[i][2] = route
        BY <1>9, <3>1, <3>4 DEF ToSet
      <3>. QED  BY <3>5
    <2>. QED  BY <2>1
  <1>14. {d[2] : d \in Reports} = GuiltyRoutes(file) \cap Shown
    <2>. HIDE DEF Reports, Shown
    <2>. QED  BY <1>11, <1>12, <1>13
  <1>. QED  BY <1>1, <1>14 DEF found, rows

LEMMA N1Hold == EventsInv => NoN1IsHidden
  <1>. SUFFICES ASSUME EventsInv PROVE NoN1IsHidden
    OBVIOUS
  <1>1. events \in Seq(Line)
    BY DEF EventsInv
  <1>. DEFINE found == Findings(events)
              w == Warnings(events)
              Warned == {i \in DOMAIN found.warnings : found.warnings[i][1] = "possible-N+1"}
              Guilty == {events[i].route : i \in {j \in Of("http.request", events) :
                                              events[j].dbQueries >= n1Threshold}}
              Shown == {row.route : row \in ToSet(found.http.endpoints)}
              Reported == {d[2] : d \in {x \in ToSet(RuntimeDiagnostics(found)) :
                                           x[1] = "runtime-possible-n1"}}
  <1>2. Guilty = GuiltyRoutes(events)
    BY DEF GuiltyRoutes
  <1>3. w \in Seq(Texts) /\ WarnsOf(w, GuiltyRoutes(events))
    BY <1>1, WarningsParts
  <1>4. found.warnings = w
    BY FindingsParts
  <1>5. Warned = N1In(w)
    <2>. HIDE DEF found
    <2>. QED  BY <1>4 DEF N1In
  <1>6. {found.warnings[i][2] : i \in Warned} = Guilty
    <2>1. {w[i][2] : i \in N1In(w)} = GuiltyRoutes(events)
      BY <1>3 DEF WarnsOf
    <2>. HIDE DEF found, w, Warned, Guilty
    <2>. QED  BY <1>2, <1>4, <1>5, <2>1
  <1>7. Cardinality(Warned) = Cardinality(Guilty)
    <2>. HIDE DEF w, Warned, Guilty
    <2>. QED  BY <1>2, <1>3, <1>5, WarnedOnce
  <1>8. Reported = Guilty \cap Shown
    <2>1. Reported = GuiltyRoutes(events) \cap Shown
      BY <1>1, ReportedRoutes
    <2>. HIDE DEF Reported, Guilty, Shown
    <2>. QED  BY <1>2, <2>1
  <1>. QED  BY <1>6, <1>7, <1>8 DEF NoN1IsHidden

(* For every file, threshold and cap: each endpoint with a request at the   *)
(* threshold is in exactly one warning, also when its row is left out, and  *)
(* scan --trace reports those that have a row and no others.                *)
THEOREM N1Shown == EventsSpec => []NoN1IsHidden
  BY EventsAreLines, N1Hold, PTL

-----------------------------------------------------------------------------
(* Each process counts once. *)

LEMMA LagFacts ==
  ASSUME NEW file \in Seq(Line)
  PROVE  /\ Of("loop.lag", file) \in SUBSET (Nat \ {0}) /\ IsFiniteSet(Of("loop.lag", file))
         /\ Totals(file) \in SUBSET Of("loop.lag", file) /\ IsFiniteSet(Totals(file))
         /\ \A i \in Of("loop.lag", file) :
              file[i].count \in Nat /\ file[i].p99 \in Nat /\ file[i].max \in Nat
  <1>. DEFINE lags == Of("loop.lag", file)
  <1>1. /\ IsFiniteSet(lags) /\ lags \in SUBSET DOMAIN file /\ DOMAIN file = 1 .. Len(file)
        /\ Len(file) \in Nat
        /\ \A i \in lags : file[i] \in Line /\ file[i].type = "loop.lag"
    BY OfPlaces
  <1>2. lags \in SUBSET (Nat \ {0})
    <2>. HIDE DEF lags
    <2>. QED  BY <1>1
  <1>3. Totals(file) \in SUBSET lags
    BY DEF Totals
  <1>4. \A i \in lags : file[i].count \in Nat /\ file[i].p99 \in Nat /\ file[i].max \in Nat
    BY <1>1, LineParts
  <1>. QED  BY <1>1, <1>2, <1>3, <1>4, FS_Subset

LEMMA CountsOnce ==
  ASSUME NEW file \in Seq(Line), LagsGrow(file)
  PROVE  LET lags == Of("loop.lag", file)
             Counts(pid) == {file[i].count : i \in {j \in lags : file[j].pid = pid}}
         IN loopLag(file).count =
              SumFunction([pid \in {file[i].pid : i \in lags} |-> Max(Counts(pid))])
  <1>. DEFINE lags == Of("loop.lag", file)
              Counts(pid) == {file[i].count : i \in {j \in lags : file[j].pid = pid}}
              P == {file[i].pid : i \in lags}
              T == Totals(file)
              f == [i \in T |-> file[i].count]
              g == [pid \in P |-> Max(Counts(pid))]
              b == [i \in T |-> file[i].pid]
  <1>1. /\ lags \in SUBSET (Nat \ {0}) /\ IsFiniteSet(lags) /\ T \in SUBSET lags /\ IsFiniteSet(T)
        /\ \A i \in lags : file[i].count \in Nat
    BY LagFacts
  <1>2. \A i \in T : \A k \in lags : k > i => file[k].pid # file[i].pid
    BY DEF Totals
  <1>3. \A i, j \in T : b[i] = b[j] => i = j
    <2>1. ASSUME NEW i \in T, NEW j \in T, file[i].pid = file[j].pid PROVE i = j
      <3>1. i \in lags /\ j \in lags /\ i \in Nat /\ j \in Nat
        BY <1>1
      <3>2. ~(i > j) /\ ~(j > i)
        BY <1>2, <2>1, <3>1
      <3>. QED  BY <3>1, <3>2
    <2>. QED  BY <2>1
  <1>4. \A pid \in P : \E i \in T : file[i].pid = pid
    <2>1. ASSUME NEW pid \in P PROVE \E i \in T : file[i].pid = pid
      <3>. DEFINE Q == {j \in lags : file[j].pid = pid}
      <3>1. Q # {} /\ IsFiniteSet(Q) /\ Q \in SUBSET (Nat \ {0}) /\ Q \in SUBSET Nat
        BY <1>1, FS_Subset
      <3>. DEFINE i == Greatest(Q)
      <3>2. i \in Nat /\ i \in {0} \cup Q /\ \A x \in Q : x <= i
        <4>. HIDE DEF Q
        <4>. QED  BY <3>1, GreatestOf
      <3>3. i \in Q
        <4>1. PICK x \in Q : TRUE
          BY <3>1
        <4>2. x \in Nat /\ x # 0 /\ x <= i
          BY <3>1, <3>2, <4>1
        <4>. HIDE DEF Q, i
        <4>. QED  BY <3>2, <4>2
      <3>4. \A k \in lags : k > i => file[k].pid # file[i].pid
        <4>1. ASSUME NEW k \in lags, k > i, file[k].pid = file[i].pid PROVE FALSE
          <5>1. k \in Q
            BY <3>3, <4>1
          <5>2. k <= i /\ k \in Nat /\ i \in Nat
            BY <3>1, <3>2, <5>1
          <5>. HIDE DEF i
          <5>. QED  BY <4>1, <5>2
        <4>. QED  BY <4>1
      <3>5. i \in T
        <4>. HIDE DEF i
        <4>. QED  BY <3>3, <3>4 DEF Totals
      <3>. QED  BY <3>3, <3>5
    <2>. QED  BY <2>1
  <1>5. \A i \in T : file[i].pid \in P /\ Max(Counts(file[i].pid)) = file[i].count
    <2>1. ASSUME NEW i \in T PROVE Max(Counts(file[i].pid)) = file[i].count
      <3>. DEFINE C == Counts(file[i].pid)
      <3>1. i \in lags /\ file[i].count \in C /\ file[i].count \in Nat
        BY <1>1
      <3>2. ASSUME NEW j \in lags, file[j].pid = file[i].pid PROVE file[j].count <= file[i].count
        <4>1. ~(j > i) /\ i \in Nat /\ j \in Nat
          BY <1>1, <1>2, <3>1, <3>2
        <4>2. CASE j < i
          BY <3>1, <3>2, <4>2 DEF LagsGrow
        <4>3. CASE j = i
          BY <3>1, <4>3
        <4>. QED  BY <4>1, <4>2, <4>3
      <3>3. \A x \in C : x <= file[i].count /\ x \in Nat
        BY <1>1, <3>2
      <3>4. Max(C) = file[i].count
        <4>. HIDE DEF C
        <4>. QED  BY <3>1, <3>3 DEF Max
      <3>. QED  BY <3>4
    <2>. QED  BY <1>1, <2>1
  <1>6. IsFiniteSet(P)
    <2>. DEFINE c == [i \in lags |-> file[i].pid]
    <2>1. P = {c[i] : i \in lags} /\ DOMAIN c = lags
      OBVIOUS
    <2>. HIDE DEF c, lags, P
    <2>. QED  BY <1>1, <2>1, ImageSize
  <1>7. f \in [T -> Nat] /\ g \in [P -> Nat] /\ b \in [T -> P]
    <2>1. \A pid \in P : g[pid] \in Nat
      <3>1. ASSUME NEW pid \in P PROVE g[pid] \in Nat
        <4>1. PICK i \in T : file[i].pid = pid
          BY <1>4
        <4>2. g[pid] = file[i].count
          BY <1>5, <4>1
        <4>. QED  BY <1>1, <4>2
      <3>. QED  BY <3>1
    <2>. QED  BY <1>1, <1>5, <2>1
  <1>8. \A i \in T : g[b[i]] = f[i]
    BY <1>5
  <1>9. SumFunction(g) = SumFunction(f)
    <2>1. \A pid \in P : \E i \in T : b[i] = pid
      BY <1>4
    <2>. HIDE DEF f, g, b, T, P
    <2>2. IsFiniteSet(T) /\ IsFiniteSet(P)
      BY <1>1, <1>6
    <2>3. f \in [T -> Nat] /\ g \in [P -> Nat] /\ b \in [T -> P]
      BY <1>7
    <2>4. \A x, y \in T : b[x] = b[y] => x = y
      BY <1>3
    <2>5. \A y \in P : \E x \in T : b[x] = y
      BY <2>1
    <2>6. \A x \in T : g[b[x]] = f[x]
      BY <1>8
    <2>. QED  BY <2>2, <2>3, <2>4, <2>5, <2>6, SumMapped, SMTT(60)
  <1>10. loopLag(file).count = SumFunction(f)
    BY DEF loopLag
  <1>. QED  BY <1>9, <1>10

-----------------------------------------------------------------------------
(* Places that correspond under a reordering. *)

Reorders(pi, D) ==
  /\ pi \in [D -> D]
  /\ \A x, y \in D : pi[x] = pi[y] => x = y
  /\ \A y \in D : \E x \in D : pi[x] = y

Matches(A, B, pi, D) ==
  A \in SUBSET D /\ B \in SUBSET D /\ \A x \in D : x \in A <=> pi[x] \in B

LEMMA MatchedMap ==
  ASSUME NEW D, IsFiniteSet(D), NEW pi, Reorders(pi, D), NEW A, NEW B, Matches(A, B, pi, D)
  PROVE  /\ IsFiniteSet(A) /\ IsFiniteSet(B) /\ A \in SUBSET D /\ B \in SUBSET D
         /\ Cardinality(A) \in Nat /\ Cardinality(B) \in Nat
         /\ \A x \in A : x \in D /\ pi[x] \in B
         /\ \A y \in B : \E x \in A : pi[x] = y
         /\ \A x, y \in A : pi[x] = pi[y] => x = y
         /\ Cardinality(A) = Cardinality(B)
  <1>1. IsFiniteSet(A) /\ IsFiniteSet(B)
    BY FS_Subset DEF Matches
  <1>2. /\ \A x \in A : x \in D /\ pi[x] \in B
        /\ \A y \in B : \E x \in A : pi[x] = y
        /\ \A x, y \in A : pi[x] = pi[y] => x = y
    BY DEF Matches, Reorders
  <1>3. Cardinality(A) \in Nat /\ Cardinality(B) \in Nat
    BY <1>1, FS_CardinalityType
  <1>4. Cardinality(A) = Cardinality(B)
    <2>. DEFINE b == [x \in A |-> pi[x]]
    <2>1. B = {b[x] : x \in A} /\ DOMAIN b = A /\ \A x, y \in A : b[x] = b[y] => x = y
      BY <1>2
    <2>. HIDE DEF b
    <2>. QED  BY <1>1, <1>3, <2>1, ImageSize
  <1>. QED  BY <1>1, <1>2, <1>3, <1>4 DEF Matches

LEMMA MatchedSum ==
  ASSUME NEW D, IsFiniteSet(D), NEW pi, Reorders(pi, D), NEW A, NEW B, Matches(A, B, pi, D),
         NEW f \in [A -> Nat], NEW h \in [B -> Nat], \A x \in A : h[pi[x]] = f[x]
  PROVE  SumFunction(f) = SumFunction(h)
  <1>. DEFINE b == [x \in A |-> pi[x]]
  <1>1. /\ IsFiniteSet(A) /\ IsFiniteSet(B)
        /\ b \in [A -> B]
        /\ \A y \in B : \E x \in A : b[x] = y
        /\ \A x, y \in A : b[x] = b[y] => x = y
        /\ \A x \in A : h[b[x]] = f[x]
    BY MatchedMap
  <1>. HIDE DEF b
  <1>. QED  BY <1>1, SumMapped

LEMMA MatchedAscending ==
  ASSUME NEW D \in SUBSET Nat, IsFiniteSet(D), NEW pi, Reorders(pi, D),
         NEW A, NEW B, Matches(A, B, pi, D),
         NEW f \in [A -> Nat], NEW h \in [B -> Nat], \A x \in A : h[pi[x]] = f[x]
  PROVE  Ascending(f) = Ascending(h)
  <1>. DEFINE n == Cardinality(A)
  <1>1. /\ IsFiniteSet(A) /\ IsFiniteSet(B) /\ A \in SUBSET D /\ B \in SUBSET D
        /\ n \in Nat /\ Cardinality(B) = n
        /\ \A x \in A : x \in D /\ pi[x] \in B
        /\ \A y \in B : \E x \in A : pi[x] = y
        /\ A \in SUBSET Nat /\ B \in SUBSET Nat
    <2>1. /\ IsFiniteSet(A) /\ IsFiniteSet(B) /\ A \in SUBSET D /\ B \in SUBSET D
          /\ Cardinality(A) \in Nat /\ Cardinality(B) \in Nat
          /\ \A x \in A : x \in D /\ pi[x] \in B
          /\ \A y \in B : \E x \in A : pi[x] = y
          /\ \A x, y \in A : pi[x] = pi[y] => x = y
          /\ Cardinality(A) = Cardinality(B)
      BY MatchedMap, SMTT(60)
    <2>2. A \in SUBSET Nat /\ B \in SUBSET Nat
      BY <2>1
    <2>. QED  BY <2>1, <2>2
  <1>2. Ascending(f) = [k \in 1 .. n |-> Ascending(f)[k]]
    <2>1. PICK o : Ascending(f) = [k \in 1 .. n |-> f[o[k]]]
      BY <1>1, AscendingLists
    <2>. QED  BY <2>1
  <1>3. Ascending(h) = [k \in 1 .. n |-> Ascending(h)[k]]
    <2>1. PICK o : Ascending(h) = [k \in 1 .. Cardinality(B) |-> h[o[k]]]
      BY <1>1, AscendingLists
    <2>. QED  BY <1>1, <2>1
  <1>4. ASSUME NEW k \in 1 .. n PROVE Ascending(f)[k] = Ascending(h)[k]
    <2>. DEFINE v == Ascending(f)[k]
    <2>1. IsKth(v, f, k) /\ IsKth(Ascending(h)[k], h, k)
      BY <1>1, AscendingKth
    <2>2. k \in Nat
      BY <1>1
    <2>3. v \in {f[x] : x \in A} => v \in {h[x] : x \in B}
      BY <1>1
    <2>4. Cardinality({x \in A : f[x] <= v}) = Cardinality({x \in B : h[x] <= v})
      <3>. DEFINE L == {x \in A : f[x] <= v}
                  M == {x \in B : h[x] <= v}
      <3>1. Matches(L, M, pi, D)
        BY <1>1 DEF Matches
      <3>. HIDE DEF L, M
      <3>. QED  BY <3>1, MatchedMap DEF L, M
    <2>5. Cardinality({x \in A : f[x] < v}) = Cardinality({x \in B : h[x] < v})
      <3>. DEFINE L == {x \in A : f[x] < v}
                  M == {x \in B : h[x] < v}
      <3>1. Matches(L, M, pi, D)
        BY <1>1 DEF Matches
      <3>. HIDE DEF L, M
      <3>. QED  BY <3>1, MatchedMap DEF L, M
    <2>6. IsKth(v, h, k)
      <3>1. DOMAIN f = A /\ DOMAIN h = B
        OBVIOUS
      <3>. HIDE DEF v
      <3>. QED  BY <2>1, <2>3, <2>4, <2>5, <3>1 DEF IsKth
    <2>. HIDE DEF v
    <2>7. v = Ascending(h)[k]
      BY <1>1, <2>1, <2>2, <2>6, OnlyOneKth
    <2>. QED  BY <2>7 DEF v
  <1>. HIDE DEF n
  <1>. QED  BY <1>2, <1>3, <1>4

-----------------------------------------------------------------------------
(* Another interleaving of the same file. *)

Interleaved(m, file, pi) ==
  /\ m \in Seq(Line) /\ file \in Seq(Line) /\ DOMAIN m = DOMAIN file
  /\ Reorders(pi, DOMAIN file)
  /\ \A j \in DOMAIN file : m[j] = file[pi[j]]
  /\ \A j, k \in DOMAIN file : j < k /\ m[j].pid = m[k].pid => pi[j] < pi[k]

LEMMA MovedPlaces ==
  ASSUME NEW m, NEW file, NEW pi, Interleaved(m, file, pi),
         NEW A, NEW B, Matches(A, B, pi, DOMAIN file)
  PROVE  /\ IsFiniteSet(DOMAIN file) /\ DOMAIN file \in SUBSET Nat
         /\ Reorders(pi, DOMAIN file)
         /\ IsFiniteSet(A) /\ IsFiniteSet(B) /\ A \in SUBSET Nat /\ B \in SUBSET Nat
         /\ Cardinality(A) = Cardinality(B)
         /\ \A x \in A : pi[x] \in B /\ m[x] = file[pi[x]] /\ m[x] \in Line
         /\ \A y \in B : \E x \in A : pi[x] = y /\ file[y] = m[x]
         /\ \A y \in B : file[y] \in Line
  <1>. DEFINE D == DOMAIN file
  <1>1. IsFiniteSet(D) /\ D \in SUBSET Nat /\ \A x \in D : m[x] \in Line /\ file[x] \in Line
    <2>1. m \in Seq(Line) /\ file \in Seq(Line) /\ DOMAIN m = D
      BY DEF Interleaved
    <2>2. IsFiniteSet(DOMAIN file) /\ DOMAIN file \in SUBSET Nat
      BY <2>1, OfPlaces
    <2>3. \A x \in DOMAIN file : file[x] \in Line
      BY <2>1, ElementOfSeq, LenProperties
    <2>4. \A x \in DOMAIN m : m[x] \in Line
      BY <2>1, ElementOfSeq, LenProperties
    <2>. QED  BY <2>1, <2>2, <2>3, <2>4
  <1>2. Reorders(pi, D) /\ \A x \in D : m[x] = file[pi[x]]
    BY DEF Interleaved
  <1>3. /\ IsFiniteSet(A) /\ IsFiniteSet(B) /\ A \in SUBSET D /\ B \in SUBSET D
        /\ Cardinality(A) = Cardinality(B)
        /\ \A x \in A : x \in D /\ pi[x] \in B
        /\ \A y \in B : \E x \in A : pi[x] = y
    <2>1. IsFiniteSet(D) /\ Reorders(pi, D) /\ Matches(A, B, pi, D)
      BY <1>1, <1>2
    <2>. HIDE DEF D
    <2>. QED  BY <2>1, MatchedMap, SMTT(60)
  <1>. HIDE DEF D
  <1>4. A \in SUBSET Nat /\ B \in SUBSET Nat
    BY <1>1, <1>3
  <1>5. /\ \A x \in A : pi[x] \in B /\ m[x] = file[pi[x]] /\ m[x] \in Line
        /\ \A y \in B : \E x \in A : pi[x] = y /\ file[y] = m[x]
        /\ \A y \in B : file[y] \in Line
    BY <1>1, <1>2, <1>3
  <1>. QED  BY <1>1, <1>2, <1>3, <1>4, <1>5 DEF D

LEMMA MovedOf ==
  ASSUME NEW m, NEW file, NEW pi, Interleaved(m, file, pi), NEW type
  PROVE  /\ Matches(Of(type, m), Of(type, file), pi, DOMAIN file)
         /\ \A x \in Of(type, m) : x \in DOMAIN file
         /\ \A y \in Of(type, file) : y \in DOMAIN file
         /\ \A x \in DOMAIN file : x \in Of(type, m) <=> pi[x] \in Of(type, file)
         /\ \A x \in DOMAIN file : pi[x] \in DOMAIN file /\ m[x] = file[pi[x]]
  <1>1. /\ DOMAIN m = DOMAIN file
        /\ \A x \in DOMAIN file : pi[x] \in DOMAIN file /\ m[x] = file[pi[x]]
    BY DEF Interleaved, Reorders
  <1>. QED  BY <1>1 DEF Matches, Of

LEMMA MovedSum ==
  ASSUME NEW m, NEW file, NEW pi, Interleaved(m, file, pi),
         NEW A, NEW B, Matches(A, B, pi, DOMAIN file),
         NEW f \in [A -> Nat], NEW h \in [B -> Nat], \A x \in A : h[pi[x]] = f[x]
  PROVE  SumFunction(f) = SumFunction(h)
  <1>. DEFINE D == DOMAIN file
  <1>1. IsFiniteSet(D) /\ Reorders(pi, D) /\ Matches(A, B, pi, D)
    BY MovedPlaces, SMTT(60)
  <1>. HIDE DEF D
  <1>. QED  BY <1>1, MatchedSum, SMTT(60)

ModelNames(file) == {file[i].model : i \in Of("db.query", file)}
RssOf(file) == {file[i].rss : i \in Of("mem.sample", file)}
PausesOf(file) == {file[i].ms : i \in Of("gc.pause", file)}

LEMMA MovedValues ==
  ASSUME NEW m, NEW file, NEW pi, Interleaved(m, file, pi)
  PROVE  /\ CallSites(m) = CallSites(file)
         /\ Routes(m) = Routes(file)
         /\ ModelNames(m) = ModelNames(file)
         /\ AttachPids(m) = AttachPids(file)
         /\ RssOf(m) = RssOf(file)
         /\ PausesOf(m) = PausesOf(file)
         /\ \A type : Cardinality(Of(type, m)) = Cardinality(Of(type, file))
  <1>1. ASSUME NEW type
        PROVE  /\ \A x \in Of(type, m) : \E y \in Of(type, file) : file[y] = m[x]
               /\ \A y \in Of(type, file) : \E x \in Of(type, m) : file[y] = m[x]
               /\ Cardinality(Of(type, m)) = Cardinality(Of(type, file))
    <2>. DEFINE A == Of(type, m)
                B == Of(type, file)
    <2>1. Matches(A, B, pi, DOMAIN file)
      BY MovedOf
    <2>. HIDE DEF A, B
    <2>2. /\ Cardinality(A) = Cardinality(B)
          /\ \A x \in A : pi[x] \in B /\ m[x] = file[pi[x]]
          /\ \A y \in B : \E x \in A : pi[x] = y /\ file[y] = m[x]
      BY <2>1, MovedPlaces, SMTT(60)
    <2>3. \A x \in A : \E y \in B : file[y] = m[x]
      BY <2>2
    <2>4. \A y \in B : \E x \in A : file[y] = m[x]
      BY <2>2
    <2>. QED  BY <2>2, <2>3, <2>4 DEF A, B
  <1>2. CallSites(m) = CallSites(file)
    BY <1>1 DEF CallSites
  <1>3. Routes(m) = Routes(file)
    BY <1>1 DEF Routes
  <1>4. ModelNames(m) = ModelNames(file)
    BY <1>1 DEF ModelNames
  <1>5. AttachPids(m) = AttachPids(file)
    BY <1>1 DEF AttachPids
  <1>6. RssOf(m) = RssOf(file)
    BY <1>1 DEF RssOf
  <1>7. PausesOf(m) = PausesOf(file)
    BY <1>1 DEF PausesOf
  <1>. QED  BY <1>1, <1>2, <1>3, <1>4, <1>5, <1>6, <1>7

(* The milliseconds of the file of a kind. *)
LEMMA MovedMs ==
  ASSUME NEW m, NEW file, NEW pi, Interleaved(m, file, pi),
         NEW type \in {"block.call", "db.query", "gc.pause"},
         NEW A \in SUBSET Of(type, m), NEW B \in SUBSET Of(type, file),
         Matches(A, B, pi, DOMAIN file)
  PROVE  SumFunction([i \in A |-> m[i].ms]) = SumFunction([i \in B |-> file[i].ms])
  <1>. DEFINE f == [i \in A |-> m[i].ms]
              h == [i \in B |-> file[i].ms]
  <1>1. /\ \A x \in A : pi[x] \in B /\ m[x] = file[pi[x]] /\ m[x] \in Line
        /\ \A y \in B : file[y] \in Line
    BY MovedPlaces, SMTT(60)
  <1>2. \A x \in A : m[x].type = type
    BY DEF Of
  <1>3. \A y \in B : file[y].type = type
    BY DEF Of
  <1>4. f \in [A -> Nat]
    BY <1>1, <1>2, LineParts
  <1>5. h \in [B -> Nat]
    BY <1>1, <1>3, LineParts
  <1>6. \A x \in A : h[pi[x]] = f[x]
    BY <1>1
  <1>. HIDE DEF f, h
  <1>7. SumFunction(f) = SumFunction(h)
    BY <1>4, <1>5, <1>6, MovedSum, SMTT(60)
  <1>. QED  BY <1>7 DEF f, h

LEMMA MovedCallRow ==
  ASSUME NEW m, NEW file, NEW pi, Interleaved(m, file, pi), NEW site
  PROVE  CallRow(site, m) = CallRow(site, file)
  <1>. DEFINE A == CallsOf(site, m)
              B == CallsOf(site, file)
  <1>1. A \in SUBSET Of("block.call", m) /\ B \in SUBSET Of("block.call", file)
    BY DEF CallsOf
  <1>2. Matches(A, B, pi, DOMAIN file)
    BY MovedOf DEF CallsOf, Matches
  <1>. HIDE DEF A, B
  <1>3. SumFunction([i \in A |-> m[i].ms]) = SumFunction([i \in B |-> file[i].ms])
    BY <1>1, <1>2, MovedMs
  <1>4. Cardinality(A) = Cardinality(B)
    BY <1>2, MovedPlaces, SMTT(60)
  <1>5. {m[i].ms : i \in A} = {file[i].ms : i \in B}
    <2>1. /\ \A x \in A : pi[x] \in B /\ m[x] = file[pi[x]]
          /\ \A y \in B : \E x \in A : pi[x] = y /\ file[y] = m[x]
      BY <1>2, MovedPlaces, SMTT(60)
    <2>. QED  BY <2>1
  <1>. QED  BY <1>3, <1>4, <1>5 DEF CallRow, A, B

LEMMA MovedCalls ==
  ASSUME NEW m, NEW file, NEW pi, Interleaved(m, file, pi)
  PROVE  /\ AllCalls(m) = AllCalls(file)
         /\ SumFunction([i \in Of("block.call", m) |-> m[i].ms]) =
              SumFunction([i \in Of("block.call", file) |-> file[i].ms])
  <1>1. CallRows(m) = CallRows(file)
    BY MovedValues, MovedCallRow DEF CallRows
  <1>2. AllCalls(m) = Sorted(CallRows(m), compareCalls)
    BY DEF AllCalls, CallRows, CallSites, Sorted
  <1>3. AllCalls(file) = Sorted(CallRows(file), compareCalls)
    BY DEF AllCalls, CallRows, CallSites, Sorted
  <1>4. AllCalls(m) = AllCalls(file)
    BY <1>1, <1>2, <1>3 DEF Sorted
  <1>5. SumFunction([i \in Of("block.call", m) |-> m[i].ms]) =
              SumFunction([i \in Of("block.call", file) |-> file[i].ms])
    <2>1. Matches(Of("block.call", m), Of("block.call", file), pi, DOMAIN file)
      BY MovedOf
    <2>. QED  BY <2>1, MovedMs
  <1>. QED  BY <1>4, <1>5

LEMMA MovedTotals ==
  ASSUME NEW m, NEW file, NEW pi, Interleaved(m, file, pi)
  PROVE  Matches(Totals(m), Totals(file), pi, DOMAIN file)
  <1>. DEFINE D == DOMAIN file
              A == Of("loop.lag", m)
              B == Of("loop.lag", file)
  <1>1. /\ \A x \in A : x \in D
        /\ \A y \in B : y \in D
        /\ \A x \in D : x \in A <=> pi[x] \in B
        /\ \A x \in D : pi[x] \in D /\ m[x] = file[pi[x]]
    BY MovedOf
  <1>2. /\ \A y \in D : \E x \in D : pi[x] = y
        /\ \A j, k \in D : j < k /\ m[j].pid = m[k].pid => pi[j] < pi[k]
    BY DEF Interleaved, Reorders
  <1>3. D \in SUBSET Nat
    <2>1. Matches(A, B, pi, D)
      BY MovedOf
    <2>. HIDE DEF A, B
    <2>. QED  BY <2>1, MovedPlaces
  <1>4. Totals(m) = {i \in A : \A k \in A : k > i => m[k].pid # m[i].pid}
    BY DEF Totals
  <1>5. Totals(file) = {i \in B : \A k \in B : k > i => file[k].pid # file[i].pid}
    BY DEF Totals
  <1>. HIDE DEF A, B, D
  <1>6. ASSUME NEW x \in D, x \in Totals(m) PROVE pi[x] \in Totals(file)
    <2>1. x \in A /\ pi[x] \in B
      BY <1>1, <1>4, <1>6
    <2>2. ASSUME NEW k \in B, k > pi[x], file[k].pid = file[pi[x]].pid PROVE FALSE
      <3>1. PICK j \in D : pi[j] = k
        BY <1>1, <1>2, <2>2
      <3>2. j \in A /\ m[j].pid = m[x].pid /\ j \in Nat /\ x \in Nat
        BY <1>1, <1>3, <2>1, <2>2, <3>1
      <3>3. ~(j > x)
        BY <1>4, <1>6, <3>2
      <3>4. ~(j < x)
        <4>1. pi[j] \in Nat /\ pi[x] \in Nat
          BY <1>1, <1>3
        <4>. QED  BY <1>2, <2>2, <3>1, <3>2, <4>1
      <3>5. j # x
        <4>1. pi[x] \in Nat
          BY <1>1, <1>3
        <4>. QED  BY <2>2, <3>1, <4>1
      <3>. QED  BY <3>2, <3>3, <3>4, <3>5
    <2>. QED  BY <1>5, <2>1, <2>2
  <1>7. ASSUME NEW x \in D, pi[x] \in Totals(file) PROVE x \in Totals(m)
    <2>1. x \in A /\ pi[x] \in B
      BY <1>1, <1>5, <1>7
    <2>2. ASSUME NEW k \in A, k > x, m[k].pid = m[x].pid PROVE FALSE
      <3>1. k \in D /\ pi[k] \in B /\ file[pi[k]].pid = file[pi[x]].pid
        BY <1>1, <2>1, <2>2
      <3>2. pi[x] < pi[k]
        BY <1>2, <1>3, <2>2, <3>1
      <3>3. pi[x] \in Nat /\ pi[k] \in Nat
        BY <1>1, <1>3, <3>1
      <3>. QED  BY <1>5, <1>7, <3>1, <3>2, <3>3
    <2>. QED  BY <1>4, <2>1, <2>2
  <1>8. Totals(m) \in SUBSET D /\ Totals(file) \in SUBSET D
    BY <1>1, <1>4, <1>5
  <1>. QED  BY <1>6, <1>7, <1>8 DEF Matches, D

LEMMA MovedLag ==
  ASSUME NEW m, NEW file, NEW pi, Interleaved(m, file, pi)
  PROVE  loopLag(m) = loopLag(file)
  <1>. DEFINE A == Totals(m)
              B == Totals(file)
  <1>1. Matches(A, B, pi, DOMAIN file)
    BY MovedTotals
  <1>2. /\ \A x \in A : m[x].type = "loop.lag"
        /\ \A y \in B : file[y].type = "loop.lag"
    BY DEF Totals, Of
  <1>. HIDE DEF A, B
  <1>3. /\ \A x \in A : pi[x] \in B /\ m[x] = file[pi[x]] /\ m[x] \in Line
        /\ \A y \in B : \E x \in A : pi[x] = y /\ file[y] = m[x]
        /\ \A y \in B : file[y] \in Line
    BY <1>1, MovedPlaces, SMTT(60)
  <1>4. /\ \A x \in A : m[x].count \in Nat /\ m[x].p99 \in Nat
        /\ \A y \in B : file[y].count \in Nat /\ file[y].p99 \in Nat
    BY <1>2, <1>3, LineParts
  <1>5. SumFunction([i \in A |-> m[i].count]) = SumFunction([i \in B |-> file[i].count])
    <2>. DEFINE f == [i \in A |-> m[i].count]
                h == [i \in B |-> file[i].count]
    <2>1. f \in [A -> Nat] /\ h \in [B -> Nat] /\ \A x \in A : h[pi[x]] = f[x]
      BY <1>3, <1>4
    <2>. HIDE DEF f, h
    <2>2. SumFunction(f) = SumFunction(h)
      BY <1>1, <2>1, MovedSum, SMTT(60)
    <2>. QED  BY <2>2 DEF f, h
  <1>6. SumFunction([i \in A |-> m[i].p99 * m[i].count]) =
          SumFunction([i \in B |-> file[i].p99 * file[i].count])
    <2>. DEFINE f == [i \in A |-> m[i].p99 * m[i].count]
                h == [i \in B |-> file[i].p99 * file[i].count]
    <2>1. \A a, b \in Nat : a * b \in Nat
      OBVIOUS
    <2>2. f \in [A -> Nat] /\ h \in [B -> Nat]
      BY <1>4, <2>1
    <2>3. \A x \in A : h[pi[x]] = f[x]
      BY <1>3
    <2>. HIDE DEF f, h
    <2>4. SumFunction(f) = SumFunction(h)
      BY <1>1, <2>2, <2>3, MovedSum, SMTT(60)
    <2>. QED  BY <2>4 DEF f, h
  <1>7. {m[i].max : i \in A} = {file[i].max : i \in B}
    BY <1>3
  <1>8. Cardinality({i \in Of("loop.lag", m) : ~m[i].final}) =
          Cardinality({i \in Of("loop.lag", file) : ~file[i].final})
    <2>. DEFINE W == {i \in Of("loop.lag", m) : ~m[i].final}
                V == {i \in Of("loop.lag", file) : ~file[i].final}
    <2>1. Matches(W, V, pi, DOMAIN file)
      BY MovedOf DEF Matches
    <2>. HIDE DEF W, V
    <2>2. Cardinality(W) = Cardinality(V)
      BY <2>1, MovedPlaces, SMTT(60)
    <2>. QED  BY <2>2 DEF W, V
  <1>. QED  BY <1>5, <1>6, <1>7, <1>8 DEF loopLag, A, B

LEMMA MovedEndpointRow ==
  ASSUME NEW m, NEW file, NEW pi, Interleaved(m, file, pi), NEW route
  PROVE  EndpointRow(route, m) = EndpointRow(route, file)
  <1>. DEFINE A == RequestsOf(route, m)
              B == RequestsOf(route, file)
  <1>1. Matches(A, B, pi, DOMAIN file)
    BY MovedOf DEF RequestsOf, Matches
  <1>2. /\ \A x \in A : m[x].type = "http.request"
        /\ \A y \in B : file[y].type = "http.request"
    BY DEF RequestsOf, Of
  <1>. HIDE DEF A, B
  <1>3. /\ IsFiniteSet(DOMAIN file) /\ DOMAIN file \in SUBSET Nat /\ Reorders(pi, DOMAIN file)
        /\ Cardinality(A) = Cardinality(B)
        /\ \A x \in A : pi[x] \in B /\ m[x] = file[pi[x]] /\ m[x] \in Line
        /\ \A y \in B : \E x \in A : pi[x] = y /\ file[y] = m[x]
        /\ \A y \in B : file[y] \in Line
    BY <1>1, MovedPlaces, SMTT(60)
  <1>4. /\ \A x \in A : m[x].ms \in Nat /\ m[x].dbQueries \in Nat
        /\ \A y \in B : file[y].ms \in Nat /\ file[y].dbQueries \in Nat
    BY <1>2, <1>3, LineParts
  <1>5. Ascending([i \in A |-> m[i].ms]) = Ascending([i \in B |-> file[i].ms])
    <2>. DEFINE f == [i \in A |-> m[i].ms]
                h == [i \in B |-> file[i].ms]
                D == DOMAIN file
    <2>1. f \in [A -> Nat] /\ h \in [B -> Nat] /\ \A x \in A : h[pi[x]] = f[x]
      BY <1>3, <1>4
    <2>2. D \in SUBSET Nat /\ IsFiniteSet(D) /\ Reorders(pi, D) /\ Matches(A, B, pi, D)
      BY <1>1, <1>3
    <2>. HIDE DEF f, h, D
    <2>3. Ascending(f) = Ascending(h)
      BY <2>1, <2>2, MatchedAscending, SMTT(60)
    <2>. QED  BY <2>3 DEF f, h
  <1>6. SumFunction([i \in A |-> m[i].dbQueries]) = SumFunction([i \in B |-> file[i].dbQueries])
    <2>. DEFINE f == [i \in A |-> m[i].dbQueries]
                h == [i \in B |-> file[i].dbQueries]
    <2>1. f \in [A -> Nat] /\ h \in [B -> Nat] /\ \A x \in A : h[pi[x]] = f[x]
      BY <1>3, <1>4
    <2>. HIDE DEF f, h
    <2>2. SumFunction(f) = SumFunction(h)
      BY <1>1, <2>1, MovedSum, SMTT(60)
    <2>. QED  BY <2>2 DEF f, h
  <1>7. {m[i].status : i \in A} = {file[i].status : i \in B}
    BY <1>3
  <1>8. WorstRequest(A, m) = WorstRequest(B, file)
    <2>1. {m[i].dbQueries : i \in A} = {file[i].dbQueries : i \in B}
      BY <1>3
    <2>. QED  BY <2>1 DEF WorstRequest
  <1>9. ASSUME NEW code
        PROVE Cardinality({i \in A : m[i].status = code}) =
                Cardinality({i \in B : file[i].status = code})
    <2>. DEFINE W == {i \in A : m[i].status = code}
                V == {i \in B : file[i].status = code}
    <2>1. Matches(W, V, pi, DOMAIN file)
      BY <1>1, <1>3 DEF Matches
    <2>. HIDE DEF W, V
    <2>2. Cardinality(W) = Cardinality(V)
      BY <2>1, MovedPlaces, SMTT(60)
    <2>. QED  BY <2>2 DEF W, V
  <1>10. [code \in {m[i].status : i \in A} |-> Cardinality({i \in A : m[i].status = code})] =
           [code \in {file[i].status : i \in B} |-> Cardinality({i \in B : file[i].status = code})]
    BY <1>7, <1>9
  <1>. QED  BY <1>3, <1>5, <1>6, <1>8, <1>10 DEF EndpointRow, A, B

LEMMA MovedEndpoints ==
  ASSUME NEW m, NEW file, NEW pi, Interleaved(m, file, pi)
  PROVE  AllEndpoints(m) = AllEndpoints(file)
  <1>1. EndpointRows(m) = EndpointRows(file)
    BY MovedValues, MovedEndpointRow DEF EndpointRows
  <1>2. AllEndpoints(m) = Sorted(EndpointRows(m), compareEndpoints)
    BY DEF AllEndpoints, EndpointRows, Routes, Sorted
  <1>3. AllEndpoints(file) = Sorted(EndpointRows(file), compareEndpoints)
    BY DEF AllEndpoints, EndpointRows, Routes, Sorted
  <1>. QED  BY <1>1, <1>2, <1>3 DEF Sorted

LEMMA MovedModels ==
  ASSUME NEW m, NEW file, NEW pi, Interleaved(m, file, pi)
  PROVE  AllModels(m) = AllModels(file)
  <1>. DEFINE Rows(l) == {ModelRow(model, l) : model \in ModelNames(l)}
  <1>1. ASSUME NEW model PROVE ModelRow(model, m) = ModelRow(model, file)
    <2>. DEFINE A == {i \in Of("db.query", m) : m[i].model = model}
                B == {i \in Of("db.query", file) : file[i].model = model}
    <2>1. Matches(A, B, pi, DOMAIN file)
      BY MovedOf DEF Matches
    <2>. HIDE DEF A, B
    <2>2. Cardinality(A) = Cardinality(B)
      BY <2>1, MovedPlaces, SMTT(60)
    <2>. QED  BY <2>2 DEF ModelRow, A, B
  <1>2. ModelNames(m) = ModelNames(file)
    BY MovedValues
  <1>3. Rows(m) = Rows(file)
    BY <1>1, <1>2
  <1>4. AllModels(m) = Sorted(Rows(m), compareModels)
    BY DEF AllModels, ModelNames, Sorted
  <1>5. AllModels(file) = Sorted(Rows(file), compareModels)
    BY DEF AllModels, ModelNames, Sorted
  <1>. HIDE DEF Rows
  <1>. QED  BY <1>3, <1>4, <1>5 DEF Sorted

LEMMA MovedDb ==
  ASSUME NEW m, NEW file, NEW pi, Interleaved(m, file, pi)
  PROVE  Db(m) = Db(file)
  <1>. DEFINE A == Of("db.query", m)
              B == Of("db.query", file)
              U == {i \in A : ~m[i].attributed}
              V == {i \in B : ~file[i].attributed}
  <1>1. Matches(A, B, pi, DOMAIN file) /\ Matches(U, V, pi, DOMAIN file)
    BY MovedOf DEF Matches
  <1>2. SumFunction([i \in A |-> m[i].ms]) = SumFunction([i \in B |-> file[i].ms])
    BY <1>1, MovedMs
  <1>3. Cardinality(A) = Cardinality(B)
    BY MovedValues
  <1>4. Cardinality(U) = Cardinality(V)
    <2>. HIDE DEF U, V
    <2>. QED  BY <1>1, MovedPlaces, SMTT(60)
  <1>5. AllModels(m) = AllModels(file)
    BY MovedModels
  <1>. QED  BY <1>2, <1>3, <1>4, <1>5 DEF Db

LEMMA MovedMemory ==
  ASSUME NEW m, NEW file, NEW pi, Interleaved(m, file, pi)
  PROVE  Memory(m) = Memory(file)
  <1>1. SumFunction([i \in Of("gc.pause", m) |-> m[i].ms]) =
          SumFunction([i \in Of("gc.pause", file) |-> file[i].ms])
    <2>1. Matches(Of("gc.pause", m), Of("gc.pause", file), pi, DOMAIN file)
      BY MovedOf
    <2>. QED  BY <2>1, MovedMs
  <1>2. RssOf(m) = RssOf(file)
    BY MovedValues
  <1>3. PausesOf(m) = PausesOf(file)
    BY MovedValues
  <1>4. \A type : Cardinality(Of(type, m)) = Cardinality(Of(type, file))
    BY MovedValues
  <1>. QED  BY <1>1, <1>2, <1>3, <1>4 DEF Memory, RssOf, PausesOf

(* Two files that hold the same lines, each process's in the same order,    *)
(* give the same findings: nothing that buildFindings computes depends on   *)
(* how the appends of the processes fell between one another.               *)
THEOREM AnyInterleaving ==
  ASSUME NEW m, NEW file, NEW pi, Interleaved(m, file, pi)
  PROVE  Findings(m) = Findings(file)
  <1>1. /\ AllCalls(m) = AllCalls(file)
        /\ SumFunction([i \in Of("block.call", m) |-> m[i].ms]) =
              SumFunction([i \in Of("block.call", file) |-> file[i].ms])
    BY MovedCalls
  <1>2. AllEndpoints(m) = AllEndpoints(file)
    BY MovedEndpoints
  <1>3. AllModels(m) = AllModels(file)
    BY MovedModels
  <1>4. AttachPids(m) = AttachPids(file)
    BY MovedValues
  <1>5. /\ Cardinality(Of("block.call", m)) = Cardinality(Of("block.call", file))
        /\ Cardinality(Of("http.request", m)) = Cardinality(Of("http.request", file))
        /\ Cardinality(Of("garbage", m)) = Cardinality(Of("garbage", file))
    BY MovedValues
  <1>6. loopLag(m) = loopLag(file) /\ Db(m) = Db(file) /\ Memory(m) = Memory(file)
    BY MovedLag, MovedDb, MovedMemory
  <1>7. N1Warnings(m) = N1Warnings(file)
    BY <1>2 DEF N1Warnings, N1Source
  <1>8. Warnings(m) = Warnings(file)
    BY <1>1, <1>2, <1>3, <1>4, <1>7 DEF Warnings
  <1>9. Len(m) = Len(file)
    <2>1. m \in Seq(Line) /\ file \in Seq(Line) /\ DOMAIN m = DOMAIN file
      BY DEF Interleaved
    <2>2. /\ DOMAIN m = 1 .. Len(m) /\ Len(m) \in Nat
          /\ DOMAIN file = 1 .. Len(file) /\ Len(file) \in Nat
      BY <2>1, LenProperties
    <2>. DEFINE a == Len(m)
                b == Len(file)
    <2>3. a \in Nat /\ b \in Nat /\ 1 .. a = 1 .. b
      BY <2>1, <2>2
    <2>. HIDE DEF a, b
    <2>4. \A k \in Nat \ {0} : k \in 1 .. a <=> k \in 1 .. b
      BY <2>3
    <2>5. a = b
      <3>1. ~(a < b)
        BY <2>3, <2>4
      <3>2. ~(b < a)
        BY <2>3, <2>4
      <3>. QED  BY <2>3, <3>1, <3>2
    <2>. QED  BY <2>5 DEF a, b
  <1>. QED  BY <1>1, <1>2, <1>4, <1>5, <1>6, <1>8, <1>9 DEF Findings

LEMMA SwappedInterleaves ==
  ASSUME events \in Seq(Line), NEW i \in 1 .. Len(events) - 1,
         events[i].pid # events[i + 1].pid
  PROVE  \E pi : Interleaved(Swapped(i), events, pi)
  <1>. DEFINE D == DOMAIN events
              m == Swapped(i)
              pi == [j \in D |-> IF j = i THEN i + 1 ELSE IF j = i + 1 THEN i ELSE j]
  <1>1. D = 1 .. Len(events) /\ Len(events) \in Nat /\ \A x \in D : events[x] \in Line
    BY ElementOfSeq, LenProperties
  <1>2. i \in D /\ i + 1 \in D /\ D \in SUBSET Nat /\ i \in Nat
    BY <1>1
  <1>3. m = [j \in D |-> events[pi[j]]]
    <2>1. events = [j \in D |-> events[j]]
      BY LenProperties
    <2>2. m = [j \in D |-> IF j = i + 1 THEN events[i]
                           ELSE IF j = i THEN events[i + 1] ELSE events[j]]
      <3>. HIDE DEF D, pi
      <3>1. i # i + 1
        BY <1>2
      <3>. QED  BY <1>2, <2>1, <3>1 DEF Swapped, D
    <2>. QED  BY <1>2, <2>2
  <1>4. pi \in [D -> D] /\ \A x \in D : pi[pi[x]] = x
    <2>. HIDE DEF D
    <2>. QED  BY <1>2
  <1>5. Reorders(pi, D)
    <2>. HIDE DEF D, pi
    <2>. QED  BY <1>4 DEF Reorders
  <1>6. m \in Seq(Line)
    <2>1. \A x \in 1 .. Len(events) : events[pi[x]] \in Line
      BY <1>1, <1>4
    <2>2. m = [j \in 1 .. Len(events) |-> events[pi[j]]]
      BY <1>1, <1>3
    <2>. HIDE DEF m, pi, D
    <2>. QED  BY <1>1, <2>1, <2>2, IsASeq
  <1>7. ASSUME NEW j \in D, NEW k \in D, j < k, m[j].pid = m[k].pid PROVE pi[j] < pi[k]
    <2>1. j \in Nat /\ k \in Nat /\ i \in Nat
      BY <1>2
    <2>2. m[j] = events[pi[j]] /\ m[k] = events[pi[k]]
      BY <1>3
    <2>3. ~(j = i /\ k = i + 1)
      <3>1. CASE j = i /\ k = i + 1
        BY <1>2, <1>7, <2>1, <2>2, <3>1
      <3>. QED  BY <3>1
    <2>. HIDE DEF D, m
    <2>. QED  BY <1>7, <2>1, <2>3
  <1>8. DOMAIN m = D /\ \A j \in D : m[j] = events[pi[j]]
    BY <1>3
  <1>. HIDE DEF pi, m
  <1>9. Interleaved(m, events, pi)
    BY <1>5, <1>6, <1>7, <1>8 DEF Interleaved
  <1>. QED  BY <1>9 DEF m

LEMMA EachProcessHolds == EventsInv => EachProcessCountsOnce
  <1>. SUFFICES ASSUME EventsInv PROVE EachProcessCountsOnce
    OBVIOUS
  <1>1. events \in Seq(Line) /\ LagsGrow(events)
    BY DEF EventsInv
  <1>2. LET lags == Of("loop.lag", events)
            Counts(pid) == {events[i].count : i \in {j \in lags : events[j].pid = pid}}
        IN loopLag(events).count =
             SumFunction([pid \in {events[i].pid : i \in lags} |-> Max(Counts(pid))])
    BY <1>1, CountsOnce
  <1>3. ASSUME NEW i \in 1 .. Len(events) - 1, events[i].pid # events[i + 1].pid
        PROVE  Findings(Swapped(i)) = Findings(events)
    <2>1. PICK pi : Interleaved(Swapped(i), events, pi)
      BY <1>1, <1>3, SwappedInterleaves
    <2>. QED  BY <2>1, AnyInterleaving
  <1>. QED  BY <1>2, <1>3 DEF EachProcessCountsOnce

(* For every file: the lag count adds up, over the processes, the largest   *)
(* cumulative count of each, and swapping neighbouring lines of different   *)
(* processes changes no section of the findings.                            *)
THEOREM EachProcess == EventsSpec => []EachProcessCountsOnce
  BY EventsAreLines, EachProcessHolds, PTL
=============================================================================
