-------------------------- MODULE CameraDumpProofs --------------------------
(***************************************************************************)
(* dump_camera_data, for every number of pages, attempts and frames: its   *)
(* copies of setupCamera() are the set-up of their product and send what   *)
(* it sends, what the sidecar says of a chunk is what the device was told  *)
(* before it, and the pages of a camera that was opened lie in order.      *)
(***************************************************************************)
EXTENDS CameraDump, FiniteSetTheorems, TLAPS

\* Where main() is tells where the set-up is.
ProgramInv ==
  /\ handle \in BOOLEAN
  /\ prog = "start" => step = "idle" /\ ~handle
  /\ prog \in {"frames", "extra", "close"} => step = "done"
  /\ prog \in {"sidecar", "exit"} => step \in {"idle", "failed", "unopened"}
  /\ handle /\ prog \in {"sidecar", "exit"} => step = "unopened"
  /\ step = "reopen" => prog = "open" /\ ~handle
  /\ prog \in {"start", "open", "frames", "extra", "close", "sidecar", "exit"}

Simulated == [\A p \in Products : product = p => Setup(p)!Next]_setupVars

\* A call of the set-up is one of the same name, but that the commands between
\* the mode loops are one there.
LEMMA CallSimulates ==
  ASSUME ProgramInv, SetupStep
  PROVE  ProgramInv' /\ Simulated
<1>1. CASE TargetPlatform \/ TargetPlatformFails \/ Reopen
  BY <1>1 DEF TargetPlatform, TargetPlatformFails, Reopen, close, ProgramInv, Simulated,
     Setup!Next, Setup!SetupStep, Setup!TargetPlatform, Setup!TargetPlatformFails, Setup!Reopen,
     Setup!openDevice, Setup!close
<1>2. CASE ReopenFails \/ TargetPlatformFailsAgain \/ RetriesSpent
  <2>1. ~(MaxRetries < MaxRetries)
    BY DumpAssumption
  <2> QED BY <1>2, <2>1 DEF ReopenFails, TargetPlatformFailsAgain, RetriesSpent, Throw, Abort,
          close, ProgramInv, Simulated, Setup!Next, Setup!SetupStep, Setup!ReopenFails,
          Setup!TargetPlatformFailsAgain, Setup!RetriesSpent, Setup!RetriesLeft,
          Setup!Throw, Setup!close
<1>3. CASE \E on \in BOOLEAN : SetMode(on) \/ ReadMode(on)
  BY <1>3 DEF SetMode, ReadMode, ProgramInv, Simulated, Setup!Next, Setup!SetupStep,
     Setup!SetMode, Setup!ReadMode, Setup!RetriesLeft, Setup!Count
<1>4. CASE setFeature \/ doRead \/ doReadWithRecord \/ orphanProbe \/ write
  <2>1. NextCall /\ step = "configure" /\ prog = "open"
    BY <1>4 DEF setFeature, doRead, doReadWithRecord, orphanProbe, write, Configuring
  <2> QED BY <2>1 DEF NextCall, ProgramInv, Simulated, setupVars, Setup!Next, Setup!SetupStep,
          Setup!Configure
<1>5. CASE CommandFails
  <2>1. /\ step \in {"off", "readOff", "configure", "on", "readOn"}
        /\ Throw("SeekSetupError") \/ (step # "off" /\ Throw("USBError"))
        /\ UNCHANGED <<retries, reopened, booted>>
    BY <1>5 DEF CommandFails, Configuring
  <2> QED BY <2>1 DEF Throw, Abort, close, ProgramInv, Simulated, Setup!Next, Setup!SetupStep,
          Setup!CommandFails, Setup!Throw, Setup!close
<1>6. CASE SetOnFails
  BY <1>6 DEF SetOnFails, Throw, Abort, close, ProgramInv, Simulated, Setup!Next, Setup!SetupStep,
     Setup!CommandFails, Setup!Throw, Setup!close
<1>7. CASE ErrorCodeRefused
  BY <1>7 DEF ErrorCodeRefused, Configuring, Throw, Abort, close, ProgramInv, Simulated,
     Setup!Next, Setup!SetupStep, Setup!CommandFails, Setup!Throw, Setup!close
<1> QED BY <1>1, <1>2, <1>3, <1>4, <1>5, <1>6, <1>7 DEF SetupStep

\* Any other step of main() begins or ends a set-up, or leaves it alone.
LEMMA StepSimulates ==
  ASSUME ProgramInv, [DumpNext]_dumpVars
  PROVE  ProgramInv' /\ Simulated
<1>1. CASE Open \/ StartupMissed
  BY <1>1 DEF Open, StartupMissed, Opened, SetupBegins, ProgramInv, Simulated, Setup!Next,
     Setup!Begin, Setup!Running
<1>2. CASE OpenDeviceFails
  BY <1>2 DEF OpenDeviceFails, Abort, ProgramInv, Simulated, Setup!Next, Setup!OpenDeviceFails
<1>3. CASE AttemptsSpent \/ Close
  BY <1>3 DEF AttemptsSpent, Close, Opened, Abort, close, ProgramInv, Simulated, Setup!Next,
     Setup!Close, Setup!close
<1>4. CASE StartupSeen \/ GrabFrame \/ FramesDone \/ ProbeEnds
           \/ \E note \in {"", "all_zero", "duplicate_of_previous"} : ProbeExtraPage(note)
  BY <1>4 DEF StartupSeen, Opened, GrabFrame, FramesDone, ProbeEnds, ProbeExtraPage,
     ProgramInv, Simulated, setupVars
<1>5. CASE writeSidecar
  <2>1. CASE handle
    BY <1>5, <2>1 DEF writeSidecar, close, ProgramInv, Simulated, Setup!Next, Setup!Close,
       Setup!close
  <2>2. CASE ~handle
    BY <1>5, <2>2 DEF writeSidecar, close, ProgramInv, Simulated, setupVars
  <2> QED BY <2>1, <2>2
<1>6. CASE UNCHANGED dumpVars
  BY <1>6 DEF dumpVars, ProgramInv, Simulated, setupVars
<1> QED BY <1>1, <1>2, <1>3, <1>4, <1>5, <1>6, CallSimulates DEF DumpNext

\* Recording does not change what setupCamera() does to the camera: every step of the
\* program is a step of the set-up of its product, or does nothing to the device.
THEOREM DumpImplementsSetup == DumpSpec => ImplementsSetup
<1>1. Init => ProgramInv
  BY DEF Init, ProgramInv
<1>2. ProgramInv /\ [DumpNext]_dumpVars => ProgramInv' /\ Simulated
  BY StepSimulates
<1> QED BY <1>1, <1>2, PTL DEF DumpSpec, ImplementsSetup, Simulated

-----------------------------------------------------------------------------
(* The scripts: what may lie between a feature and the reads after it.     *)

\* Every feature set before the n-th call was cleared before it.
Forgotten(S, n) ==
  \A m \in 1 .. n - 1 : S[m].call = "setFeature" => \E i \in m .. n - 1 : S[i].clear

\* A feature is set just before the n-th call.
JustSet(S, n) == n > 1 /\ S[n - 1].call = "setFeature"

\* What is set just before a call is known by the call before.
LEMMA AfterCall ==
  ASSUME NEW S, NEW n, NEW m, n > 1, n - 1 = m
  PROVE  JustSet(S, n) <=> S[m].call = "setFeature"
BY DEF JustSet

\* The n-th call clears, reads a page or writes something else only if it may, and
\* reads its own feature or none.
Fits(S, n, none) ==
  /\ S[n].clear => S[n].call = "doRead" /\ ~JustSet(S, n)
  /\ S[n].call = "page" => JustSet(S, n)
  /\ S[n].call = "write" => ~JustSet(S, n)
  /\ S[n].call \in {"doRead", "orphanProbe"} /\ ~S[n].clear => JustSet(S, n) \/ none

\* A page is read right after its feature.  A feature is not written over, or cleared,
\* unread; other reads either read it or find all features cleared; so does what
\* follows the script.
ReadsOwn(S) ==
  /\ Len(S) \in Nat \ {0} /\ ~JustSet(S, Len(S) + 1) /\ Forgotten(S, Len(S) + 1)
  /\ \A n \in 1 .. Len(S) : Fits(S, n, Forgotten(S, n))

\* A call before the n-th cleared the feature, and none was set since.
ClearedSince(S, n) ==
  \E k \in 1 .. n - 1 : S[k].clear /\ \A m \in k + 1 .. n - 1 : S[m].call # "setFeature"

\* What was cleared and not set again is forgotten.
LEMMA ClearedForgets ==
  ASSUME NEW S, NEW n \in Nat, ClearedSince(S, n)
  PROVE  Forgotten(S, n)
<1>1. PICK k \in 1 .. n - 1 : S[k].clear /\ \A m \in k + 1 .. n - 1 : S[m].call # "setFeature"
  BY DEF ClearedSince
<1> SUFFICES ASSUME NEW m \in 1 .. n - 1, S[m].call = "setFeature"
             PROVE  \E i \in m .. n - 1 : S[i].clear
  BY DEF Forgotten
<1>2. k \in m .. n - 1
  BY <1>1
<1> QED BY <1>1, <1>2

\* The calls of the loop.
Paging == 2 * Pages

\* The loop sets a feature and reads its page, Pages times.
LEMMA PageLoopItems ==
  /\ Paging \in Nat /\ Paging > 1
  /\ PageLoop \in Seq({PageLoop[i] : i \in 1 .. Paging}) /\ Len(PageLoop) = Paging
  /\ \A i \in 1 .. Paging : /\ ~PageLoop[i].clear
                            /\ PageLoop[i].call = IF i % 2 = 1 THEN "setFeature" ELSE "page"
<1>1. Pages \in Nat \ {0}
  BY DumpAssumption
<1> DEFINE Of(i) == IF i % 2 = 1 THEN Feature("SET_FACTORY", Page((i + 1) \div 2))
                                ELSE Item("page", FALSE, R("GET_FACTORY", 64))
<1>2. PageLoop = [i \in 1 .. Paging |-> Of(i)]
  BY DEF PageLoop, PageCalls, Paging
<1>3. \A i : /\ ~Of(i).clear
             /\ Of(i).call = IF i % 2 = 1 THEN "setFeature" ELSE "page"
  BY DEF Item, Feature
<1>4. Paging \in Nat /\ Paging > 1
  BY <1>1 DEF Paging
<1> HIDE DEF Of
<1> QED BY <1>2, <1>3, <1>4

\* What is called before the loop, in it and after it.
AroundTheLoop(S, B, E) ==
  /\ Len(S) = Len(B) + Paging + Len(E)
  /\ \A n \in 1 .. Len(B) : S[n] = B[n]
  /\ \A i \in 1 .. Paging : S[Len(B) + i] = PageLoop[i]
  /\ \A i \in 1 .. Len(E) : S[Len(B) + Paging + i] = E[i]

\* Joining sequences keeps their items.
LEMMA JoinsTheLoop ==
  ASSUME NEW T, NEW B \in Seq(T), NEW E \in Seq(T)
  PROVE  AroundTheLoop(B \o PageLoop \o E, B, E)
<1> DEFINE U == T \cup {PageLoop[i] : i \in 1 .. Paging}
<1>1. B \in Seq(U) /\ E \in Seq(U) /\ PageLoop \in Seq(U)
  BY PageLoopItems
<1> HIDE DEF U
<1>2. /\ Len(B \o PageLoop \o E) = Len(B) + Len(PageLoop) + Len(E)
      /\ \A n \in 1 .. Len(B) : (B \o PageLoop \o E)[n] = B[n]
      /\ \A i \in 1 .. Len(PageLoop) : (B \o PageLoop \o E)[Len(B) + i] = PageLoop[i]
      /\ \A i \in 1 .. Len(E) : (B \o PageLoop \o E)[Len(B) + Len(PageLoop) + i] = E[i]
  BY <1>1
<1> QED BY <1>2, PageLoopItems DEF AroundTheLoop

\* The calls before and after the loop are right each by themselves, and a feature
\* is set and cleared after the loop.
OwnApart(B, E) ==
  /\ Len(B) \in Nat /\ Len(E) \in Nat \ {0} /\ E[1].call = "setFeature" /\ ~E[1].clear
  /\ \A n \in 1 .. Len(B) : Fits(B, n, ClearedSince(B, n))
  /\ \A n \in 2 .. Len(E) : Fits(E, n, ClearedSince(E, n))
  /\ ~JustSet(E, Len(E) + 1) /\ ClearedSince(E, Len(E) + 1)

\* Then the whole script is right.
LEMMA JoinedReadsOwn ==
  ASSUME NEW S, NEW B, NEW E, AroundTheLoop(S, B, E), OwnApart(B, E)
  PROVE  ReadsOwn(S)
<1> DEFINE b == Len(B)  e == Len(E)  a == b + Paging  N == a + e
<1>1. /\ b \in Nat /\ e \in Nat \ {0} /\ a \in Nat /\ Len(S) = N
      /\ Paging \in Nat /\ a = b + Paging /\ N = a + e
  BY PageLoopItems DEF AroundTheLoop, OwnApart
<1>2. /\ \A n \in 1 .. b : S[n] = B[n]
      /\ \A i \in 1 .. Paging : S[b + i] = PageLoop[i]
      /\ \A i \in 1 .. e : S[a + i] = E[i]
  BY DEF AroundTheLoop
<1> HIDE DEF b, e, a, N
<1>3. ASSUME NEW n \in 1 .. b PROVE Fits(S, n, Forgotten(S, n))
  <2>1. \A m \in 1 .. n : m \in 1 .. b /\ S[m] = B[m]
    BY <1>1, <1>2
  <2>2. JustSet(S, n) <=> JustSet(B, n)
    BY <2>1 DEF JustSet
  <2>3. ClearedSince(B, n) => ClearedSince(S, n)
    BY <2>1 DEF ClearedSince
  <2>4. ClearedSince(S, n) => Forgotten(S, n)
    BY ClearedForgets
  <2>5. Fits(B, n, ClearedSince(B, n)) /\ S[n] = B[n]
    BY <2>1 DEF b, OwnApart
  <2> QED BY <2>2, <2>3, <2>4, <2>5 DEF Fits
<1>4. ASSUME NEW i \in 1 .. Paging, NEW n, n = b + i PROVE Fits(S, n, Forgotten(S, n))
  <2>1. /\ ~S[n].clear
        /\ S[n].call = IF i % 2 = 1 THEN "setFeature" ELSE "page"
    BY <1>2, <1>4, PageLoopItems
  <2>2. CASE i % 2 = 1
    BY <2>1, <2>2 DEF Fits
  <2>3. CASE i % 2 # 1
    <3>1. PICK j \in 1 .. Paging : i - 1 = j /\ j % 2 = 1
      BY <1>1, <2>3
    <3>2. S[b + j].call = "setFeature"
      BY <1>2, <3>1, PageLoopItems
    <3>3. n > 1 /\ n - 1 = b + j
      BY <1>1, <1>4, <3>1
    <3>4. JustSet(S, n)
      BY <3>2, <3>3, AfterCall
    <3> QED BY <2>1, <2>3, <3>4 DEF Fits
  <2> QED BY <2>2, <2>3
<1>5. ASSUME NEW i \in 2 .. e + 1, NEW n, n = a + i
      PROVE  /\ JustSet(S, n) <=> JustSet(E, i)
             /\ ClearedSince(E, i) => Forgotten(S, n)
  <2>1. n \in Nat /\ n > 1 /\ i > 1
    BY <1>1, <1>5
  <2>2. PICK j \in 1 .. e : i - 1 = j /\ n - 1 = a + j
    BY <1>1, <1>5
  <2>3. JustSet(S, n) <=> JustSet(E, i)
    BY <1>2, <2>1, <2>2, AfterCall
  <2>4. ASSUME ClearedSince(E, i) PROVE ClearedSince(S, n)
    <3>1. PICK k \in 1 .. i - 1 :
            E[k].clear /\ \A m \in k + 1 .. i - 1 : E[m].call # "setFeature"
      BY <2>4 DEF ClearedSince
    <3> DEFINE l == a + k
    <3>2. k \in 1 .. e /\ l \in 1 .. n - 1 /\ S[l].clear
      BY <1>1, <1>2, <1>5, <3>1
    <3>3. ASSUME NEW m \in l + 1 .. n - 1 PROVE S[m].call # "setFeature"
      <4>1. m - a \in k + 1 .. i - 1 /\ m - a \in 1 .. e /\ a + (m - a) = m
        BY <1>1, <1>5, <3>1
      <4> QED BY <1>2, <3>1, <4>1
    <3> HIDE DEF l
    <3> QED BY <3>2, <3>3 DEF ClearedSince
  <2> QED BY <2>1, <2>3, <2>4, ClearedForgets
<1>6. ASSUME NEW i \in 1 .. e, NEW n, n = a + i PROVE Fits(S, n, Forgotten(S, n))
  <2>1. CASE i = 1
    <3>1. S[n] = E[1]
      BY <1>2, <1>6, <2>1
    <3> QED BY <3>1 DEF Fits, OwnApart
  <2>2. CASE i # 1
    <3>1. i \in 2 .. e /\ i \in 2 .. e + 1
      BY <1>1, <2>2
    <3>2. Fits(E, i, ClearedSince(E, i)) /\ S[n] = E[i]
      BY <1>2, <1>6, <3>1 DEF e, OwnApart
    <3> QED BY <1>5, <1>6, <3>1, <3>2 DEF Fits
  <2> QED BY <2>1, <2>2
<1>7. ASSUME NEW n \in 1 .. N PROVE Fits(S, n, Forgotten(S, n))
  <2>1. CASE n \in 1 .. b
    BY <1>3, <2>1
  <2>2. CASE n \in b + 1 .. a
    <3>1. PICK i \in 1 .. Paging : n = b + i
      <4>1. n - b \in 1 .. Paging /\ n = b + (n - b)
        BY <1>1, <2>2
      <4> QED BY <4>1
    <3> QED BY <1>4, <3>1
  <2>3. CASE n \in a + 1 .. N
    <3>1. PICK i \in 1 .. e : n = a + i
      <4>1. n - a \in 1 .. e /\ n = a + (n - a)
        BY <1>1, <2>3
      <4> QED BY <4>1
    <3> QED BY <1>6, <3>1
  <2> QED BY <1>1, <2>1, <2>2, <2>3
<1>8. ~JustSet(S, N + 1) /\ Forgotten(S, N + 1)
  <2>1. PICK i \in 2 .. e + 1 : i = e + 1 /\ N + 1 = a + i
    BY <1>1
  <2>2. ~JustSet(E, i) /\ ClearedSince(E, i)
    BY <2>1 DEF e, OwnApart
  <2> QED BY <1>5, <2>1, <2>2
<1>9. N \in Nat \ {0}
  BY <1>1
<1> QED BY <1>1, <1>7, <1>8, <1>9 DEF ReadsOwn

\* What an item calls, and whether it clears.
LEMMA ItemFacts ==
  /\ \A c : Write(c).call = "write" /\ ~Write(c).clear
  /\ \A c, d : Feature(c, d).call = "setFeature" /\ ~Feature(c, d).clear
  /\ \A c, n : Get(c, n).call = "doRead" /\ ~Get(c, n).clear
  /\ \A c, n : Cleared(c, n).call = "doRead" /\ Cleared(c, n).clear
  /\ \A c : Probe(c).call = "orphanProbe" /\ ~Probe(c).clear
BY DEF Write, Feature, Get, Cleared, Probe, Item

\* In the copy for the Nano 300.
LEMMA Nano300ReadsOwn == ReadsOwn(DumpingNano300)
<1> DEFINE B == Nano300Begins  E == Nano300Ends
           T == {B[i] : i \in 1 .. 14} \cup {E[i] : i \in 1 .. 4}
<1>1. B \in Seq(T) /\ Len(B) = 14 /\ E \in Seq(T) /\ Len(E) = 4
  BY DEF Nano300Begins, Nano300Ends
<1>2. \A i \in 1 .. 14 :
        /\ B[i].call = IF i = 1 THEN "write"
                       ELSE IF i \in {2, 5, 7, 11} THEN "setFeature" ELSE "doRead"
        /\ B[i].clear <=> i \in {4, 9, 13}
  BY ItemFacts DEF Nano300Begins
<1>3. \A i \in 1 .. 4 :
        /\ E[i].call = IF i = 1 THEN "setFeature" ELSE IF i = 4 THEN "write" ELSE "doRead"
        /\ E[i].clear <=> i = 3
  BY ItemFacts DEF Nano300Ends
<1> HIDE DEF B, E, T
<1>4. AroundTheLoop(B \o PageLoop \o E, B, E)
  BY <1>1, JoinsTheLoop
<1>5. ClearedSince(B, 10) /\ ClearedSince(B, 14)
  <2>1. 9 \in 1 .. 9 /\ 13 \in 1 .. 13 /\ B[9].clear /\ B[13].clear
    BY <1>2
  <2> QED BY <2>1 DEF ClearedSince
<1>6. \A n \in 1 .. 14 : Fits(B, n, ClearedSince(B, n))
  BY <1>2, <1>5 DEF Fits, JustSet
<1>7. \A n \in 2 .. 4 : Fits(E, n, ClearedSince(E, n))
  BY <1>3 DEF Fits, JustSet
<1>8. ~JustSet(E, 5) /\ ClearedSince(E, 5)
  <2>1. 3 \in 1 .. 4 /\ E[3].clear /\ \A m \in 4 .. 4 : E[m].call # "setFeature"
    BY <1>3
  <2> QED BY <1>3, <2>1 DEF ClearedSince, JustSet
<1>9. OwnApart(B, E)
  BY <1>1, <1>3, <1>6, <1>7, <1>8 DEF OwnApart
<1>10. ReadsOwn(B \o PageLoop \o E)
  BY <1>4, <1>9, JoinedReadsOwn
<1> QED BY <1>10 DEF DumpingNano300, B, E

\* In the copy for the Compact Pro.
LEMMA CompactProReadsOwn == ReadsOwn(DumpingCompactPro)
<1> DEFINE B == CompactProBegins  E == CompactProEnds
           T == {B[i] : i \in 1 .. 8} \cup {E[i] : i \in 1 .. 5}
<1>1. B \in Seq(T) /\ Len(B) = 8 /\ E \in Seq(T) /\ Len(E) = 5
  BY DEF CompactProBegins, CompactProEnds
<1>2. \A i \in 1 .. 8 :
        /\ B[i].call = IF i \in {1, 3, 5, 7} THEN "setFeature" ELSE "orphanProbe"
        /\ ~B[i].clear
  BY ItemFacts DEF CompactProBegins
<1>3. \A i \in 1 .. 5 :
        /\ E[i].call = IF i = 1 THEN "setFeature" ELSE IF i = 2 THEN "orphanProbe"
                       ELSE IF i = 4 THEN "write" ELSE "doRead"
        /\ E[i].clear <=> i = 3
  BY ItemFacts DEF CompactProEnds
<1> HIDE DEF B, E, T
<1>4. AroundTheLoop(B \o PageLoop \o E, B, E)
  BY <1>1, JoinsTheLoop
<1>5. ClearedSince(E, 5) /\ ClearedSince(E, 6) /\ ~JustSet(E, 6)
  <2>1. /\ 3 \in 1 .. 4 /\ 3 \in 1 .. 5 /\ E[3].clear
        /\ \A m \in 4 .. 5 : E[m].call # "setFeature"
    BY <1>3
  <2> QED BY <1>3, <2>1 DEF ClearedSince, JustSet
<1>6. \A n \in 1 .. 8 : Fits(B, n, ClearedSince(B, n))
  BY <1>2 DEF Fits, JustSet
<1>7. \A n \in 2 .. 5 : Fits(E, n, ClearedSince(E, n))
  BY <1>3, <1>5 DEF Fits, JustSet
<1>8. OwnApart(B, E)
  BY <1>1, <1>3, <1>5, <1>6, <1>7 DEF OwnApart
<1>9. ReadsOwn(B \o PageLoop \o E)
  BY <1>4, <1>8, JoinedReadsOwn
<1> QED BY <1>9 DEF DumpingCompactPro, B, E

\* The stock camera of the Compact is told no feature.
LEMMA StockReadsOwn == ReadsOwn(StockCamera)
<1>1. Len(Production("Compact")) = 8
  BY DEF Production
<1>2. /\ Len(StockCamera) = 8
      /\ \A n \in 1 .. 8 : StockCamera[n].call \in {"write", "doRead"} /\ ~StockCamera[n].clear
  <2> DEFINE C == Production("Compact")
             It(i) == IF C[i][1] = "write" THEN Write(C[i]) ELSE Get(C[i][2], C[i][3])
  <2>1. StockCamera = [i \in 1 .. 8 |-> It(i)]
    BY <1>1 DEF StockCamera
  <2>2. \A i : It(i).call \in {"write", "doRead"} /\ ~It(i).clear
    BY ItemFacts
  <2> HIDE DEF It, C
  <2> QED BY <2>1, <2>2
<1> HIDE DEF StockCamera
<1> QED BY <1>2 DEF ReadsOwn, Fits, JustSet, Forgotten

\* So is the script of every product.
LEMMA ScriptReadsOwn ==
  ASSUME product \in Products
  PROVE  ReadsOwn(Script(product))
BY DumpAssumption, Nano300ReadsOwn, CompactProReadsOwn, StockReadsOwn DEF Script
-----------------------------------------------------------------------------
(* The recorder: last_feature_ and what the device was told.               *)

\* Before the n-th call: the device was told, since the last read, what the call
\* before says, and last_feature_ is that; what is forgotten is not kept.
Latest(S, n, feature, told) ==
  /\ told = IF JustSet(S, n) THEN Tail(S[n - 1].command) ELSE None
  /\ JustSet(S, n) => feature = told
  /\ Forgotten(S, n) => feature = None

RecordInv ==
  /\ product \in Products /\ (\E U : chunks \in Seq(U)) /\ FeatureIsLatest
  /\ prog = "start" => step = "idle"
  /\ prog = "open" /\ step \in {"platform", "reopen", "off", "readOff"} => at = 1
  /\ prog = "open" /\ step = "configure" =>
       at \in 1 .. Len(Script(product)) /\ Latest(Script(product), at, last, sent)
  /\ prog \in {"start", "open"} /\ step # "configure" => last = None /\ sent = None

\* Before the first call nothing was told.
LEMMA NothingTold == ASSUME NEW S PROVE Latest(S, 1, None, None)
BY DEF Latest, JustSet, Forgotten

\* One call more.
LEMMA ForgottenBefore ==
  ASSUME NEW S, NEW n \in Nat \ {0}, Forgotten(S, n + 1), ~S[n].clear
  PROVE  S[n].call # "setFeature" /\ Forgotten(S, n)
<1>1. S[n].call # "setFeature"
  BY DEF Forgotten
<1>2. ASSUME NEW m \in 1 .. n - 1, S[m].call = "setFeature"
      PROVE  \E i \in m .. n - 1 : S[i].clear
  <2>1. PICK i \in m .. (n + 1) - 1 : S[i].clear
    BY <1>2 DEF Forgotten
  <2>2. i \in m .. n - 1
    BY <2>1
  <2> QED BY <2>1, <2>2
<1> QED BY <1>1, <1>2 DEF Forgotten

\* What a call leaves of the feature: it sets one, clears it, reads it or keeps it.
LEMMA LatestAfterCall ==
  ASSUME NEW S, ReadsOwn(S), NEW n \in 1 .. Len(S),
         NEW feature, NEW told, Latest(S, n, feature, told)
  PROVE  /\ S[n].call = "setFeature" =>
              Latest(S, n + 1, Tail(S[n].command), Tail(S[n].command))
         /\ S[n].call = "doRead" =>
              Latest(S, n + 1, IF S[n].clear THEN None ELSE feature, None)
         /\ S[n].call \in {"page", "orphanProbe"} => Latest(S, n + 1, feature, None)
         /\ S[n].call = "write" => Latest(S, n + 1, feature, told)
<1>1. /\ n \in Nat \ {0} /\ n + 1 > 1 /\ (n + 1) - 1 = n
      /\ S[n].clear => S[n].call = "doRead"
      /\ S[n].call = "write" => ~JustSet(S, n)
  BY DEF ReadsOwn, Fits
<1>2. JustSet(S, n + 1) <=> S[n].call = "setFeature"
  BY <1>1 DEF JustSet
<1>3. Forgotten(S, n + 1) => S[n].clear \/ (S[n].call # "setFeature" /\ feature = None)
  BY <1>1, ForgottenBefore DEF Latest
<1> QED BY <1>1, <1>2, <1>3 DEF Latest

\* A read finds the feature that was told.
LEMMA LatestAtRead ==
  ASSUME NEW S, ReadsOwn(S), NEW n \in 1 .. Len(S),
         NEW feature, NEW told, Latest(S, n, feature, told)
  PROVE  /\ S[n].call = "doRead" => (IF S[n].clear THEN None ELSE feature) = told
         /\ S[n].call = "orphanProbe" => feature = told
         /\ S[n].call = "page" => Tail(S[n - 1].command) = told
BY DEF ReadsOwn, Fits, Latest

\* A chunk that says what was told.
LEMMA ChunkAdded ==
  ASSUME RecordInv, NEW k, NEW f, addChunk(Chunk(k, f)), f = sent
  PROVE  (\E U : chunks \in Seq(U))' /\ FeatureIsLatest'
<1>1. CASE ~Recording
  BY <1>1 DEF addChunk, RecordInv, FeatureIsLatest
<1>2. CASE Recording
  <2> DEFINE c == Chunk(k, f)
  <2>1. PICK U : chunks \in Seq(U)
    BY DEF RecordInv
  <2>2. chunks' = Append(chunks, c) /\ c.feature = c.sent
    BY <1>2 DEF addChunk, Chunk
  <2> HIDE DEF c
  <2>3. chunks \in Seq(U \cup {c})
    BY <2>1
  <2>4. chunks' \in Seq(U \cup {c})
    BY <2>2, <2>3
  <2>5. FeatureIsLatest'
    BY <2>1, <2>2 DEF RecordInv, FeatureIsLatest
  <2> QED BY <2>4, <2>5
<1> QED BY <1>1, <1>2
\* A call between the mode loops is recorded under what the device was told.
LEMMA CallRecorded ==
  ASSUME RecordInv, setFeature \/ doRead \/ doReadWithRecord \/ orphanProbe \/ write
  PROVE  RecordInv'
<1> DEFINE S == Script(product)
<1>1. prog = "open" /\ step = "configure" /\ NextCall
  BY DEF setFeature, doRead, doReadWithRecord, orphanProbe, write, Configuring
<1>2. at \in 1 .. Len(S) /\ Latest(S, at, last, sent) /\ ReadsOwn(S) /\ product \in Products
  BY <1>1, ScriptReadsOwn DEF RecordInv
<1>3. Latest(S, at + 1, last', sent') /\ (\E U : chunks \in Seq(U))' /\ FeatureIsLatest'
  <2> HIDE DEF S
  <2>1. CASE setFeature
    <3>1. S[at].call = "setFeature" /\ last' = Tail(S[at].command) /\ sent' = Tail(S[at].command)
      BY <2>1 DEF setFeature, Configuring, Call, Told, S
    <3>2. UNCHANGED chunks
      BY <2>1 DEF setFeature
    <3> QED BY <1>2, <3>1, <3>2, LatestAfterCall DEF RecordInv, FeatureIsLatest
  <2>2. CASE doRead
    <3>1. /\ S[at].call = "doRead" /\ last' = (IF S[at].clear THEN None ELSE last)
          /\ addChunk(Chunk("setup_read", last')) /\ sent' = None
      BY <2>2 DEF doRead, Configuring, Call, addChunk, S
    <3>2. last' = sent
      BY <1>2, <3>1, LatestAtRead
    <3>3. Latest(S, at + 1, last', sent')
      BY <1>2, <3>1, LatestAfterCall
    <3> QED BY <3>1, <3>2, <3>3, ChunkAdded
  <2>3. CASE doReadWithRecord
    <3>1. /\ S[at].call = "page" /\ last' = last /\ sent' = None
          /\ addChunk(Chunk("page", Tail(S[at - 1].command)))
      BY <2>3 DEF doReadWithRecord, Configuring, Call, addChunk, S
    <3>2. Tail(S[at - 1].command) = sent
      BY <1>2, <3>1, LatestAtRead
    <3>3. Latest(S, at + 1, last', sent')
      BY <1>2, <3>1, LatestAfterCall
    <3> QED BY <3>1, <3>2, <3>3, ChunkAdded
  <2>4. CASE orphanProbe
    <3>1. /\ S[at].call = "orphanProbe" /\ last' = last /\ sent' = None
          /\ addChunk(Chunk("orphan_probe", last))
      BY <2>4 DEF orphanProbe, Configuring, Call, addChunk, S
    <3>2. last = sent
      BY <1>2, <3>1, LatestAtRead
    <3>3. Latest(S, at + 1, last', sent')
      BY <1>2, <3>1, LatestAfterCall
    <3> QED BY <3>1, <3>2, <3>3, ChunkAdded
  <2>5. CASE write
    <3>1. S[at].call = "write" /\ UNCHANGED <<last, sent, chunks>>
      BY <2>5 DEF write, Configuring, Call, S
    <3> QED BY <1>2, <3>1, LatestAfterCall DEF RecordInv, FeatureIsLatest
  <2> QED BY <2>1, <2>2, <2>3, <2>4, <2>5
<1>4. product' = product /\ prog' = "open" /\ at' = at + 1
  BY <1>1 DEF NextCall
<1>5. CASE at < Len(S)
  <2>1. step' = "configure" /\ at' \in 1 .. Len(S)
    BY <1>1, <1>2, <1>5 DEF NextCall, ReadsOwn
  <2> QED BY <1>2, <1>3, <1>4, <2>1 DEF RecordInv
<1>6. CASE ~(at < Len(S))
  <2>1. step' = "on" /\ at = Len(S)
    BY <1>1, <1>2, <1>6 DEF NextCall, ReadsOwn
  <2>2. last' = None /\ sent' = None
    BY <1>2, <1>3, <2>1 DEF ReadsOwn, Latest
  <2> QED BY <1>2, <1>3, <1>4, <2>1, <2>2 DEF RecordInv
<1> QED BY <1>5, <1>6

\* Every step keeps what the recorder knows.
LEMMA StepRecorded ==
  ASSUME RecordInv, [DumpNext]_dumpVars
  PROVE  RecordInv'
<1> USE DEF RecordInv, record
<1>1. CASE Open \/ StartupMissed
  BY <1>1 DEF Open, StartupMissed, Opened, SetupBegins, FeatureIsLatest
<1>2. CASE \/ OpenDeviceFails \/ ReopenFails \/ TargetPlatformFailsAgain \/ RetriesSpent
           \/ CommandFails \/ AttemptsSpent
  <2>1. prog' = "sidecar" /\ UNCHANGED <<product, record>>
    BY <1>2 DEF OpenDeviceFails, ReopenFails, TargetPlatformFailsAgain, RetriesSpent, CommandFails,
       AttemptsSpent, Throw, Abort
  <2> QED BY <2>1 DEF FeatureIsLatest
<1>3. CASE TargetPlatform \/ TargetPlatformFails \/ Reopen
  BY <1>3 DEF TargetPlatform, TargetPlatformFails, Reopen, FeatureIsLatest
<1>4. CASE \E on \in BOOLEAN : SetMode(on)
  BY <1>4 DEF SetMode, FeatureIsLatest
<1>5. ASSUME NEW on \in BOOLEAN, ReadMode(on)
      PROVE  RecordInv'
  <2>1. /\ prog = "open" /\ prog' = "open" /\ step = (IF on THEN "readOn" ELSE "readOff")
        /\ step' \in IF on THEN {"done", "on"} ELSE {"configure", "off"}
        /\ addChunk(Chunk("poll", last)) /\ sent' = None /\ UNCHANGED <<product, at, last>>
    BY <1>5 DEF ReadMode, addChunk
  <2>2. last = None /\ sent = None /\ (~on => at = 1)
    BY <2>1
  <2>3. (\E U : chunks \in Seq(U))' /\ FeatureIsLatest'
    BY <2>1, <2>2, ChunkAdded
  <2>4. ReadsOwn(Script(product))
    BY ScriptReadsOwn
  <2>5. 1 \in 1 .. Len(Script(product))
    BY <2>4 DEF ReadsOwn
  <2> QED BY <2>1, <2>2, <2>3, <2>5, NothingTold
<1>6. CASE setFeature \/ doRead \/ doReadWithRecord \/ orphanProbe \/ write
  BY <1>6, CallRecorded
<1>7. CASE SetOnFails
  <2>1. /\ prog = "open" /\ step = "on" /\ prog' = "sidecar" /\ UNCHANGED product
        /\ addChunk(Chunk("setup_read", last)) \/ UNCHANGED chunks
    BY <1>7 DEF SetOnFails, Throw, Abort
  <2>2. (\E U : chunks \in Seq(U))' /\ FeatureIsLatest'
    BY <2>1, ChunkAdded DEF FeatureIsLatest
  <2> QED BY <2>1, <2>2
<1>8. CASE StartupSeen \/ FramesDone \/ ProbeEnds \/ Close \/ writeSidecar
  <2>1. /\ prog' \in {"frames", "extra", "close", "sidecar", "exit"}
        /\ UNCHANGED <<product, chunks>>
    BY <1>8 DEF StartupSeen, FramesDone, ProbeEnds, Close, writeSidecar
  <2> QED BY <2>1 DEF FeatureIsLatest
<1>9. CASE GrabFrame \/ \E note \in {"", "all_zero", "duplicate_of_previous"} : ProbeExtraPage(note)
  <2>1. PICK c : chunks' = Append(chunks, c) /\ c.feature = c.sent
    <3>1. CASE GrabFrame
      <4>1. chunks' = Append(chunks, Frame) /\ Frame.feature = Frame.sent
        BY <3>1 DEF GrabFrame, Frame
      <4> QED BY <4>1
    <3>2. ASSUME NEW note \in {"", "all_zero", "duplicate_of_previous"}, ProbeExtraPage(note)
          PROVE  \E c : chunks' = Append(chunks, c) /\ c.feature = c.sent
      <4> DEFINE f == <<"SET_FACTORY", ExtraPage>>
                 c == [kind |-> "extra_factory", feature |-> f, sent |-> f, note |-> note]
      <4>1. chunks' = Append(chunks, c) /\ c.feature = c.sent
        BY <3>2 DEF ProbeExtraPage
      <4> HIDE DEF c
      <4> QED BY <4>1
    <3> QED BY <1>9, <3>1, <3>2
  <2>2. prog' \in {"frames", "extra", "close"} /\ UNCHANGED product
    BY <1>9 DEF GrabFrame, ProbeExtraPage
  <2>3. PICK U : chunks \in Seq(U)
    OBVIOUS
  <2>4. chunks \in Seq(U \cup {c})
    BY <2>3
  <2>5. chunks' \in Seq(U \cup {c})
    BY <2>1, <2>4
  <2>6. FeatureIsLatest'
    BY <2>1, <2>3 DEF FeatureIsLatest
  <2> QED BY <2>2, <2>5, <2>6
<1>10. CASE ErrorCodeRefused
  <2> DEFINE S == Script(product)
  <2>1. /\ prog = "open" /\ step = "configure" /\ prog' = "sidecar" /\ UNCHANGED product
        /\ S[at].call = "doRead" /\ last' = (IF S[at].clear THEN None ELSE last)
        /\ addChunk(Chunk("setup_read", last'))
    BY <1>10 DEF ErrorCodeRefused, Configuring, Call, Throw, Abort, S
  <2> HIDE DEF S
  <2>2. at \in 1 .. Len(S) /\ Latest(S, at, last, sent) /\ ReadsOwn(S)
    BY <2>1, ScriptReadsOwn DEF S
  <2>3. last' = sent
    BY <2>1, <2>2, LatestAtRead
  <2>4. (\E U : chunks \in Seq(U))' /\ FeatureIsLatest'
    BY <2>1, <2>3, ChunkAdded
  <2> QED BY <2>1, <2>4
<1>11. CASE UNCHANGED dumpVars
  BY <1>11 DEF dumpVars, setupVars, FeatureIsLatest
<1> QED BY <1>1, <1>2, <1>3, <1>4, <1>5, <1>6, <1>7, <1>8, <1>9, <1>10, <1>11
        DEF DumpNext, SetupStep

\* Nothing is recorded at first.
LEMMA InitRecorded == Init => RecordInv
<1> SUFFICES ASSUME Init PROVE RecordInv
  OBVIOUS
<1>1. chunks = <<>> /\ chunks \in Seq({})
  BY DEF Init
<1> QED BY <1>1 DEF Init, RecordInv, FeatureIsLatest

\* What the sidecar says a chunk answers is what the device was told since the read
\* before it, after any number of attempts, for any number of pages.
THEOREM SidecarIsTrue == DumpSpec => []FeatureIsLatest
<1>1. Init => RecordInv
  BY InitRecorded
<1>2. RecordInv /\ [DumpNext]_dumpVars => RecordInv'
  BY StepRecorded
<1>3. RecordInv => FeatureIsLatest
  BY DEF RecordInv
<1> QED BY <1>1, <1>2, <1>3, PTL DEF DumpSpec

-----------------------------------------------------------------------------
(* The copies, call by call, beside the production code.                   *)

\* The same for what the production code reads.
LEMMA PageReadsItems ==
  /\ PageReads \in Seq({PageReads[i] : i \in 1 .. Paging}) /\ Len(PageReads) = Paging
  /\ \A i \in 1 .. Paging :
       /\ PageLoop[i].command = PageReads[i]
       /\ i % 2 = 1 => PageReads[i] = W("SET_FACTORY", Page((i + 1) \div 2))
<1> DEFINE Of(i) == IF i % 2 = 1 THEN Feature("SET_FACTORY", Page((i + 1) \div 2))
                                ELSE Item("page", FALSE, R("GET_FACTORY", 64))
           Read(i) == IF i % 2 = 1 THEN W("SET_FACTORY", Page((i + 1) \div 2))
                                   ELSE R("GET_FACTORY", 64)
<1>1. PageLoop = [i \in 1 .. Paging |-> Of(i)] /\ PageReads = [i \in 1 .. Paging |-> Read(i)]
  BY DEF PageLoop, PageCalls, PageReads, Paging
<1>2. \A i : /\ Of(i).command = Read(i)
             /\ i % 2 = 1 => Read(i) = W("SET_FACTORY", Page((i + 1) \div 2))
  BY DEF Item, Feature
<1>3. Paging \in Nat
  BY PageLoopItems
<1> HIDE DEF Of, Read
<1> QED BY <1>1, <1>2, <1>3

\* What the production code does before the reads, in them and after them.
AroundTheReads(P, B, E) ==
  /\ Len(P) = Len(B) + Paging + Len(E)
  /\ \A n \in 1 .. Len(B) : P[n] = B[n]
  /\ \A i \in 1 .. Paging : P[Len(B) + i] = PageReads[i]
  /\ \A i \in 1 .. Len(E) : P[Len(B) + Paging + i] = E[i]

LEMMA JoinsTheReads ==
  ASSUME NEW T, NEW B \in Seq(T), NEW E \in Seq(T)
  PROVE  /\ AroundTheReads(B \o PageReads \o E, B, E)
         /\ DOMAIN (B \o PageReads \o E) = 1 .. Len(B) + Paging + Len(E)
<1> DEFINE U == T \cup {PageReads[i] : i \in 1 .. Paging}
<1>1. B \in Seq(U) /\ E \in Seq(U) /\ PageReads \in Seq(U)
  BY PageReadsItems
<1> HIDE DEF U
<1>2. /\ Len(B \o PageReads \o E) = Len(B) + Len(PageReads) + Len(E)
      /\ DOMAIN (B \o PageReads \o E) = 1 .. Len(B) + Len(PageReads) + Len(E)
      /\ \A n \in 1 .. Len(B) : (B \o PageReads \o E)[n] = B[n]
      /\ \A i \in 1 .. Len(PageReads) : (B \o PageReads \o E)[Len(B) + i] = PageReads[i]
      /\ \A i \in 1 .. Len(E) : (B \o PageReads \o E)[Len(B) + Len(PageReads) + i] = E[i]
  BY <1>1
<1> QED BY <1>2, PageReadsItems DEF AroundTheReads

\* What an item tells or reads.
LEMMA ItemCommands ==
  /\ \A c : Write(c).command = c
  /\ \A c, d : Feature(c, d).command = W(c, d)
  /\ \A c, n : Get(c, n).command = R(c, n)
  /\ \A c, n : Cleared(c, n).command = R(c, n)
BY DEF Write, Feature, Get, Cleared, Item

\* The Nano 300: call for call.
LEMMA Nano300Copies ==
  LET S == DumpingNano300  P == Production("Nano300")
  IN  /\ Len(S) = 18 + Paging /\ Len(P) = Len(S) /\ DOMAIN P = 1 .. Len(S)
      /\ \A n \in 1 .. Len(S) : S[n].call # "orphanProbe" /\ S[n].command = P[n]
<1> DEFINE B == Nano300Begins  E == Nano300Ends
           C == <<Mode8, W("SET_FACTORY", <<8, 0, 2, 6>>), R("GET_FACTORY", 16),
                  R("GET_FIRMWARE", 4), W("SET_FACTORY", <<8, 0, 2, 6>>), R("GET_FACTORY", 16),
                  W("SET_FIRMWARE", <<23>>), R("GET_FIRMWARE", 64), R("GET_FIRMWARE", 4),
                  R("CHIP_ID", 12), W("SET_FIRMWARE", <<21>>), R("GET_FIRMWARE", 64),
                  R("CHIP_ID", 12), R("GET_FIRMWARE", 4)>>
           F == <<W("SET_FIRMWARE", <<21>>), R("GET_FIRMWARE", 64), Tail4,
                  W("TOGGLE_SHUTTER", <<252, 0, 4, 0>>)>>
           T == {B[i] : i \in 1 .. 14} \cup {E[i] : i \in 1 .. 4}
           V == {C[i] : i \in 1 .. 14} \cup {F[i] : i \in 1 .. 4}
<1>1. B \in Seq(T) /\ Len(B) = 14 /\ E \in Seq(T) /\ Len(E) = 4
  BY DEF Nano300Begins, Nano300Ends
<1>2. C \in Seq(V) /\ Len(C) = 14 /\ F \in Seq(V) /\ Len(F) = 4
  OBVIOUS
<1>3. \A i \in 1 .. 14 : B[i].call # "orphanProbe"
  BY ItemFacts DEF Nano300Begins
<1>4. \A i \in 1 .. 14 : B[i].command = C[i]
  BY ItemCommands DEF Nano300Begins
<1>5. \A i \in 1 .. 4 : E[i].call # "orphanProbe" /\ E[i].command = F[i]
  BY ItemFacts, ItemCommands DEF Nano300Ends, Tail4
<1>6. DumpingNano300 = B \o PageLoop \o E
  BY DEF DumpingNano300
<1>7. Production("Nano300") = C \o PageReads \o F
  BY DEF Production
<1> HIDE DEF B, C, E, F, T, V
<1> DEFINE S == B \o PageLoop \o E  P == C \o PageReads \o F
<1>8. AroundTheLoop(S, B, E) /\ AroundTheReads(P, C, F) /\ DOMAIN P = 1 .. 14 + Paging + 4
  <2>1. AroundTheLoop(S, B, E)
    BY ONLY <1>1, JoinsTheLoop
  <2>2. AroundTheReads(P, C, F) /\ DOMAIN P = 1 .. Len(C) + Paging + Len(F)
    BY ONLY <1>2, JoinsTheReads
  <2> QED BY ONLY <1>2, <2>1, <2>2
<1> HIDE DEF S, P
<1>9. ASSUME NEW n \in 1 .. 18 + Paging PROVE S[n].call # "orphanProbe" /\ S[n].command = P[n]
  <2>1. CASE n \in 1 .. 14
    BY <1>1, <1>2, <1>3, <1>4, <1>8, <2>1 DEF AroundTheLoop, AroundTheReads
  <2>2. CASE n \in 15 .. 14 + Paging
    <3>1. PICK i \in 1 .. Paging : n = 14 + i
      <4>1. n - 14 \in 1 .. Paging /\ n = 14 + (n - 14)
        BY <2>2, PageLoopItems
      <4> QED BY <4>1
    <3>2. S[n] = PageLoop[i] /\ P[n] = PageReads[i]
      BY <1>1, <1>2, <1>8, <3>1 DEF AroundTheLoop, AroundTheReads
    <3> QED BY <3>2, PageLoopItems, PageReadsItems
  <2>3. CASE n \in 15 + Paging .. 18 + Paging
    <3>1. PICK i \in 1 .. 4 : n = 14 + Paging + i
      <4>1. n - (14 + Paging) \in 1 .. 4 /\ n = 14 + Paging + (n - (14 + Paging))
        BY <2>3, PageLoopItems
      <4> QED BY <4>1
    <3>2. S[n] = E[i] /\ P[n] = F[i]
      BY <1>1, <1>2, <1>8, <3>1 DEF AroundTheLoop, AroundTheReads
    <3> QED BY <1>5, <3>2
  <2> QED BY <2>1, <2>2, <2>3, PageLoopItems
<1>10. Len(S) = 18 + Paging /\ Len(P) = 18 + Paging
  BY <1>1, <1>2, <1>8, PageLoopItems DEF AroundTheLoop, AroundTheReads
<1>11. 14 + Paging + 4 = 18 + Paging
  BY PageLoopItems
<1> QED BY <1>6, <1>7, <1>8, <1>9, <1>10, <1>11 DEF S, P

\* The probes of the copy for the Compact Pro, and how many there are up to the n-th call.
ProbesAt     == {2, 4, 6, 8, 10 + Paging}
ProbesUpTo(n) == IF n <= 8 THEN n \div 2 ELSE IF n <= 9 + Paging THEN 4 ELSE 5

\* The Compact Pro: the calls that are no probes, one after the other.
LEMMA CompactProCopies ==
  LET S == DumpingCompactPro  P == Production("CompactPro")
  IN  /\ Len(S) = 13 + Paging /\ Len(P) = 8 + Paging /\ DOMAIN P = 1 .. 8 + Paging
      /\ \A n \in 1 .. Len(S) : S[n].call = "orphanProbe" <=> n \in ProbesAt
      /\ \A n \in 1 .. Len(S) : n \notin ProbesAt =>
           n - ProbesUpTo(n) \in 1 .. 8 + Paging /\ S[n].command = P[n - ProbesUpTo(n)]
<1> DEFINE B == CompactProBegins  E == CompactProEnds
           C == <<W("SET_FACTORY", <<6, 0, 8, 0>>), W("SET_FIRMWARE", <<23>>),
                  W("SET_FACTORY", <<1, 0, 0, 6>>), W("SET_FACTORY", <<1, 0, 1, 6>>)>>
           F == <<W("SET_FIRMWARE", <<21>>), Tail4, Mode8, R("GET_MODE", 2)>>
           T == {B[i] : i \in 1 .. 8} \cup {E[i] : i \in 1 .. 5}
           V == {C[i] : i \in 1 .. 4} \cup {F[i] : i \in 1 .. 4}
<1>1. B \in Seq(T) /\ Len(B) = 8 /\ E \in Seq(T) /\ Len(E) = 5
  BY DEF CompactProBegins, CompactProEnds
<1>2. C \in Seq(V) /\ Len(C) = 4 /\ F \in Seq(V) /\ Len(F) = 4
  OBVIOUS
<1>3. \A i \in 1 .. 8 : B[i].call = "orphanProbe" <=> i \in {2, 4, 6, 8}
  BY ItemFacts DEF CompactProBegins
<1>4. B[1].command = C[1] /\ B[3].command = C[2] /\ B[5].command = C[3] /\ B[7].command = C[4]
  BY ItemCommands DEF CompactProBegins
<1>5. /\ \A i \in 1 .. 5 : E[i].call = "orphanProbe" <=> i = 2
      /\ E[1].command = F[1] /\ \A i \in 3 .. 5 : E[i].command = F[i - 1]
  BY ItemFacts, ItemCommands DEF CompactProEnds, Tail4
<1>6. DumpingCompactPro = B \o PageLoop \o E
  BY DEF DumpingCompactPro
<1>7. Production("CompactPro") = C \o PageReads \o F
  BY DEF Production
<1> HIDE DEF B, C, E, F, T, V
<1> DEFINE S == B \o PageLoop \o E  P == C \o PageReads \o F
<1>8. AroundTheLoop(S, B, E) /\ AroundTheReads(P, C, F) /\ DOMAIN P = 1 .. 4 + Paging + 4
  <2>1. AroundTheLoop(S, B, E)
    BY ONLY <1>1, JoinsTheLoop
  <2>2. AroundTheReads(P, C, F) /\ DOMAIN P = 1 .. Len(C) + Paging + Len(F)
    BY ONLY <1>2, JoinsTheReads
  <2> QED BY ONLY <1>2, <2>1, <2>2
<1> HIDE DEF S, P
<1>9. ASSUME NEW n \in 1 .. 13 + Paging
      PROVE  /\ S[n].call = "orphanProbe" <=> n \in ProbesAt
             /\ n \notin ProbesAt =>
                  n - ProbesUpTo(n) \in 1 .. 8 + Paging /\ S[n].command = P[n - ProbesUpTo(n)]
  <2>0. Paging \in Nat /\ Paging > 1
    BY PageLoopItems
  <2>1. CASE n \in 1 .. 8
    <3>1. S[n] = B[n] /\ (n \in ProbesAt <=> n \in {2, 4, 6, 8}) /\ ProbesUpTo(n) = n \div 2
      BY <1>1, <1>8, <2>0, <2>1 DEF AroundTheLoop, ProbesAt, ProbesUpTo
    <3>2. ASSUME n \in {1, 3, 5, 7}
          PROVE  /\ n - n \div 2 \in 1 .. 4 /\ n - n \div 2 \in 1 .. 8 + Paging
                 /\ B[n].command = C[n - n \div 2]
      <4>1. 1 - 1 \div 2 = 1 /\ 3 - 3 \div 2 = 2 /\ 5 - 5 \div 2 = 3 /\ 7 - 7 \div 2 = 4
        OBVIOUS
      <4> QED BY <1>4, <2>0, <3>2, <4>1
    <3>3. \A k \in 1 .. 4 : P[k] = C[k]
      BY <1>2, <1>8 DEF AroundTheReads
    <3>4. n \in {1, 3, 5, 7} \/ n \in {2, 4, 6, 8}
      BY <2>1
    <3> QED BY <1>3, <2>1, <3>1, <3>2, <3>3, <3>4
  <2>2. CASE n \in 9 .. 8 + Paging
    <3>1. PICK i \in 1 .. Paging : n = 8 + i
      <4>1. n - 8 \in 1 .. Paging /\ n = 8 + (n - 8)
        BY <2>0, <2>2
      <4> QED BY <4>1
    <3>2. /\ n \notin ProbesAt /\ ProbesUpTo(n) = 4
          /\ n - 4 = 4 + i /\ n - 4 \in 1 .. 8 + Paging
      BY <2>0, <2>2, <3>1 DEF ProbesAt, ProbesUpTo
    <3>3. S[n] = PageLoop[i] /\ P[4 + i] = PageReads[i]
      BY <1>1, <1>2, <1>8, <3>1 DEF AroundTheLoop, AroundTheReads
    <3>4. S[n].call # "orphanProbe" /\ S[n].command = P[n - 4]
      BY <3>2, <3>3, PageLoopItems, PageReadsItems
    <3> QED BY <3>2, <3>4
  <2>3. CASE n \in 9 + Paging .. 13 + Paging
    <3>1. PICK i \in 1 .. 5 : n = 8 + Paging + i
      <4>1. n - (8 + Paging) \in 1 .. 5 /\ n = 8 + Paging + (n - (8 + Paging))
        BY <2>0, <2>3
      <4> QED BY <4>1
    <3>2. S[n] = E[i]
      BY <1>1, <1>8, <3>1 DEF AroundTheLoop
    <3>3. n \in ProbesAt <=> i = 2
      BY <2>0, <3>1 DEF ProbesAt
    <3>4. \A k \in 1 .. 4 : P[4 + Paging + k] = F[k]
      BY <1>2, <1>8 DEF AroundTheReads
    <3>5. CASE i = 1
      <4>1. ProbesUpTo(n) = 4 /\ n - 4 = 4 + Paging + 1 /\ n - 4 \in 1 .. 8 + Paging
        BY <2>0, <3>1, <3>5 DEF ProbesUpTo
      <4> QED BY <1>5, <3>2, <3>3, <3>4, <3>5, <4>1
    <3>6. CASE i \in 3 .. 5
      <4>1. /\ ProbesUpTo(n) = 5 /\ n - 5 = 4 + Paging + (i - 1) /\ n - 5 \in 1 .. 8 + Paging
            /\ i - 1 \in 1 .. 4 /\ i # 2
        BY <2>0, <3>1, <3>6 DEF ProbesUpTo
      <4>2. S[n].command = P[n - 5]
        BY <1>5, <3>2, <3>4, <3>6, <4>1
      <4> QED BY <1>5, <3>2, <3>3, <4>1, <4>2
    <3> QED BY <1>5, <3>2, <3>3, <3>5, <3>6
  <2> QED BY <2>0, <2>1, <2>2, <2>3
<1>10. Len(S) = 13 + Paging /\ Len(P) = 8 + Paging /\ 4 + Paging + 4 = 8 + Paging
  BY <1>1, <1>2, <1>8, PageLoopItems DEF AroundTheLoop, AroundTheReads
<1> QED BY <1>6, <1>7, <1>8, <1>9, <1>10 DEF S, P

\* As many as are counted.
LEMMA ProbesCounted ==
  ASSUME NEW n \in 1 .. 13 + Paging
  PROVE  Cardinality({i \in 1 .. n : i \in ProbesAt}) = ProbesUpTo(n)
<1> DEFINE a == 10 + Paging
<1>0. Paging \in Nat /\ Paging > 1
  BY PageLoopItems
<1>1. IsFiniteSet({}) /\ Cardinality({}) = 0
  BY FS_EmptySet
<1>2. IsFiniteSet({2}) /\ Cardinality({2}) = 1
  BY FS_Singleton
<1>3. IsFiniteSet({2, 4}) /\ Cardinality({2, 4}) = 2
  <2>1. {2, 4} = {2} \cup {4} /\ 4 \notin {2}
    OBVIOUS
  <2> QED BY <1>2, <2>1, FS_AddElement
<1>4. IsFiniteSet({2, 4, 6}) /\ Cardinality({2, 4, 6}) = 3
  <2>1. {2, 4, 6} = {2, 4} \cup {6} /\ 6 \notin {2, 4}
    OBVIOUS
  <2> QED BY <1>3, <2>1, FS_AddElement
<1>5. IsFiniteSet({2, 4, 6, 8}) /\ Cardinality({2, 4, 6, 8}) = 4
  <2>1. {2, 4, 6, 8} = {2, 4, 6} \cup {8} /\ 8 \notin {2, 4, 6}
    OBVIOUS
  <2> QED BY <1>4, <2>1, FS_AddElement
<1>6. Cardinality({2, 4, 6, 8, a}) = 5
  <2>1. {2, 4, 6, 8, a} = {2, 4, 6, 8} \cup {a} /\ a \notin {2, 4, 6, 8}
    BY <1>0
  <2> QED BY <1>5, <2>1, FS_AddElement
<1>7. CASE n = 1
  <2>1. {i \in 1 .. n : i \in ProbesAt} = {} /\ ProbesUpTo(n) = 0
    BY <1>0, <1>7 DEF ProbesAt, ProbesUpTo
  <2> QED BY <1>1, <2>1
<1>8. CASE n \in {2, 3}
  <2>1. {i \in 1 .. n : i \in ProbesAt} = {2} /\ ProbesUpTo(n) = 1
    BY <1>0, <1>8 DEF ProbesAt, ProbesUpTo
  <2> QED BY <1>2, <2>1
<1>9. CASE n \in {4, 5}
  <2>1. {i \in 1 .. n : i \in ProbesAt} = {2, 4} /\ ProbesUpTo(n) = 2
    BY <1>0, <1>9 DEF ProbesAt, ProbesUpTo
  <2> QED BY <1>3, <2>1
<1>10. CASE n \in {6, 7}
  <2>1. {i \in 1 .. n : i \in ProbesAt} = {2, 4, 6} /\ ProbesUpTo(n) = 3
    BY <1>0, <1>10 DEF ProbesAt, ProbesUpTo
  <2> QED BY <1>4, <2>1
<1>11. CASE n \in 8 .. 9 + Paging
  <2>1. {i \in 1 .. n : i \in ProbesAt} = {2, 4, 6, 8} /\ ProbesUpTo(n) = 4
    BY <1>0, <1>11 DEF ProbesAt, ProbesUpTo
  <2> QED BY <1>5, <2>1
<1>12. CASE n \in 10 + Paging .. 13 + Paging
  <2>1. {i \in 1 .. n : i \in ProbesAt} = {2, 4, 6, 8, a} /\ ProbesUpTo(n) = 5
    BY <1>0, <1>12 DEF ProbesAt, ProbesUpTo
  <2> QED BY <1>6, <2>1
<1> QED BY <1>0, <1>7, <1>8, <1>9, <1>10, <1>11, <1>12

\* The stock camera makes the calls of the production code.
LEMMA StockCopies ==
  LET P == Production("Compact")
  IN  /\ Len(StockCamera) = 8 /\ Len(P) = 8 /\ DOMAIN P = 1 .. 8
      /\ \A n \in 1 .. 8 : StockCamera[n].call # "orphanProbe" /\ StockCamera[n].command = P[n]
<1> DEFINE C == Production("Compact")
           It(i) == IF C[i][1] = "write" THEN Write(C[i]) ELSE Get(C[i][2], C[i][3])
<1>1. /\ Len(C) = 8 /\ DOMAIN C = 1 .. 8
      /\ \A i \in 1 .. 8 : C[i][1] = "write" \/ C[i] = R(C[i][2], C[i][3])
  BY DEF Production, W, R, Tail4, Mode8
<1>2. StockCamera = [i \in 1 .. 8 |-> It(i)]
  BY <1>1 DEF StockCamera
<1>3. \A i : /\ It(i).call # "orphanProbe"
             /\ It(i).command = IF C[i][1] = "write" THEN C[i] ELSE R(C[i][2], C[i][3])
  BY ItemFacts, ItemCommands
<1>4. Len(StockCamera) = 8
  BY <1>2
<1> HIDE DEF It, C
<1>5. \A n \in 1 .. 8 : StockCamera[n].call # "orphanProbe" /\ StockCamera[n].command = C[n]
  BY <1>1, <1>2, <1>3
<1> QED BY <1>1, <1>4, <1>5 DEF C

\* Every call that is no probe is that of the production code that is due.
LEMMA ScriptCopies ==
  ASSUME product \in Products
  PROVE  LET copy == Script(product)  stock == Production(product)
         IN  /\ Len(copy) \in Nat
             /\ \A n \in 1 .. Len(copy) : copy[n].call # "orphanProbe" =>
                  n - Probes(n) \in DOMAIN stock /\ copy[n].command = stock[n - Probes(n)]
             /\ Len(stock) = Len(copy) - Probes(Len(copy))
<1> DEFINE S == Script(product)  P == Production(product)
<1>0. Paging \in Nat
  BY PageLoopItems
<1>1. ASSUME Len(S) \in Nat, Len(P) = Len(S), DOMAIN P = 1 .. Len(S),
             \A n \in 1 .. Len(S) : S[n].call # "orphanProbe" /\ S[n].command = P[n]
      PROVE  /\ \A n \in 1 .. Len(S) : n - Probes(n) \in DOMAIN P /\ S[n].command = P[n - Probes(n)]
             /\ Len(P) = Len(S) - Probes(Len(S))
  <2>1. ASSUME NEW n \in 0 .. Len(S) PROVE Probes(n) = 0
    <3>1. {i \in 1 .. n : Script(product)[i].call = "orphanProbe"} = {}
      BY <1>1
    <3> QED BY <3>1, FS_EmptySet DEF Probes
  <2> HIDE DEF S, P
  <2> QED BY <1>1, <2>1
<1>2. CASE product = "Nano300"
  <2>1. S = DumpingNano300
    BY <1>2 DEF Script
  <2> QED BY <1>0, <1>1, <1>2, <2>1, Nano300Copies
<1>3. CASE product = "Compact"
  <2>1. S = StockCamera
    BY <1>3 DEF Script
  <2>2. /\ Len(S) = 8 /\ Len(P) = 8 /\ DOMAIN P = 1 .. 8
        /\ \A n \in 1 .. 8 : S[n].call # "orphanProbe" /\ S[n].command = P[n]
    BY <1>3, <2>1, StockCopies
  <2> HIDE DEF S, P
  <2>3. /\ \A n \in 1 .. Len(S) : n - Probes(n) \in DOMAIN P /\ S[n].command = P[n - Probes(n)]
        /\ Len(P) = Len(S) - Probes(Len(S)) /\ Len(S) \in Nat
    BY <1>1, <2>2
  <2> QED BY <2>3 DEF S, P
<1>4. CASE product = "CompactPro"
  <2>1. S = DumpingCompactPro
    BY <1>4 DEF Script
  <2>2. /\ Len(S) = 13 + Paging /\ Len(P) = 8 + Paging /\ DOMAIN P = 1 .. 8 + Paging
        /\ \A n \in 1 .. Len(S) : S[n].call = "orphanProbe" <=> n \in ProbesAt
        /\ \A n \in 1 .. Len(S) : n \notin ProbesAt =>
             n - ProbesUpTo(n) \in 1 .. 8 + Paging /\ S[n].command = P[n - ProbesUpTo(n)]
    BY <1>4, <2>1, CompactProCopies
  <2>3. ASSUME NEW n \in 1 .. Len(S) PROVE Probes(n) = ProbesUpTo(n)
    <3>1. {i \in 1 .. n : Script(product)[i].call = "orphanProbe"} = {i \in 1 .. n : i \in ProbesAt}
      BY <1>0, <2>2
    <3>2. n \in 1 .. 13 + Paging
      BY <2>2
    <3> QED BY <3>1, <3>2, ProbesCounted DEF Probes
  <2>4. ProbesUpTo(13 + Paging) = 5 /\ 13 + Paging \in 1 .. 13 + Paging /\ 8 + Paging = 13 + Paging - 5
    BY <1>0 DEF ProbesUpTo
  <2> HIDE DEF S, P
  <2>5. Len(P) = Len(S) - Probes(Len(S)) /\ Len(S) \in Nat
    BY <1>0, <2>2, <2>3, <2>4
  <2>6. \A n \in 1 .. Len(S) : S[n].call # "orphanProbe" =>
          n - Probes(n) \in DOMAIN P /\ S[n].command = P[n - Probes(n)]
    BY <2>2, <2>3
  <2> QED BY <2>5, <2>6 DEF S, P
<1> QED BY <1>2, <1>3, <1>4, DumpAssumption

\* The device is told and read, between the mode loops, what the production code tells
\* and reads, for any number of pages: all of it before it is switched on.
THEOREM CopyIsLiteral == DumpSpec => []CopiesProduction
<1>1. RecordInv /\ ProgramInv => CopiesProduction
  <2> SUFFICES ASSUME RecordInv, ProgramInv PROVE CopiesProduction
    OBVIOUS
  <2> DEFINE copy == Script(product)  stock == Production(product)
  <2>1. /\ Len(copy) \in Nat
        /\ \A n \in 1 .. Len(copy) : copy[n].call # "orphanProbe" =>
             n - Probes(n) \in DOMAIN stock /\ copy[n].command = stock[n - Probes(n)]
        /\ Len(stock) = Len(copy) - Probes(Len(copy))
    BY ScriptCopies DEF RecordInv
  <2>2. step = "configure" => at \in 1 .. Len(copy)
    BY DEF RecordInv, ProgramInv
  <2> HIDE DEF copy, stock
  <2>3. /\ step = "configure" => \A n \in 1 .. at - 1 : n \in 1 .. Len(copy)
        /\ Len(copy) \in Nat
    BY <2>1, <2>2
  <2> QED BY <2>1, <2>3 DEF CopiesProduction, copy, stock
<1>2. Init => RecordInv /\ ProgramInv
  BY InitRecorded DEF Init, ProgramInv
<1>3. RecordInv /\ ProgramInv /\ [DumpNext]_dumpVars => RecordInv' /\ ProgramInv'
  BY StepRecorded, StepSimulates
<1> QED BY <1>1, <1>2, <1>3, PTL DEF DumpSpec

-----------------------------------------------------------------------------
(* The pages among the chunks.                                             *)

PageKinds       == {"page", "extra_factory"}
PlacesOf(ch, f) == {i \in f + 1 .. Len(ch) : ch[i].kind \in PageKinds}
UpTo(P, i)      == {j \in P : j <= i}
Worthless(c)    == c.note # ""

\* Behind the first f chunks lie the pages 1 to k, one after the other, each with its
\* own answer; those after the set-up's and up to the m-th are worth something.
Numbered(ch, f, k, m) ==
  /\ Cardinality(PlacesOf(ch, f)) = k
  /\ \A i \in PlacesOf(ch, f) :
       LET n == Cardinality(UpTo(PlacesOf(ch, f), i))
       IN  /\ ch[i].sent = <<"SET_FACTORY", Page(n)>>
           /\ n \in Pages + 1 .. m => ~Worthless(ch[i])

\* Before the first page.
LEMMA NoPageYet ==
  ASSUME NEW U, NEW ch \in Seq(U), NEW m
  PROVE  Numbered(ch, Len(ch), 0, m)
<1>1. PlacesOf(ch, Len(ch)) = {}
  <2>1. Len(ch) \in Nat
    OBVIOUS
  <2>2. Len(ch) + 1 .. Len(ch) = {}
    BY <2>1
  <2> QED BY <2>2 DEF PlacesOf
<1> QED BY <1>1, FS_EmptySet DEF Numbered

\* The places of the pages are finitely many, and lie behind the first f chunks.
LEMMA PlacesFinite ==
  ASSUME NEW U, NEW ch \in Seq(U), NEW f \in 0 .. Len(ch)
  PROVE  /\ IsFiniteSet(PlacesOf(ch, f)) /\ Cardinality(PlacesOf(ch, f)) \in Nat
         /\ PlacesOf(ch, f) \subseteq f + 1 .. Len(ch)
<1>1. f + 1 \in Int /\ Len(ch) \in Int
  OBVIOUS
<1>2. IsFiniteSet(f + 1 .. Len(ch))
  BY <1>1, FS_Interval
<1>3. PlacesOf(ch, f) \subseteq f + 1 .. Len(ch)
  BY DEF PlacesOf
<1> QED BY <1>2, <1>3, FS_Subset, FS_CardinalityType

\* A chunk that is no page disturbs none.
LEMMA NoPageAdded ==
  ASSUME NEW U, NEW ch \in Seq(U), NEW f \in 0 .. Len(ch), NEW k, NEW m, Numbered(ch, f, k, m),
         NEW c, c.kind \notin PageKinds
  PROVE  Numbered(Append(ch, c), f, k, m)
<1> DEFINE V == U \cup {c}
<1>1. ch \in Seq(V) /\ c \in V
  OBVIOUS
<1> HIDE DEF V
<1>2. /\ Len(Append(ch, c)) = Len(ch) + 1 /\ Len(ch) \in Nat
      /\ \A i \in 1 .. Len(ch) : Append(ch, c)[i] = ch[i]
      /\ Append(ch, c)[Len(ch) + 1] = c
  BY <1>1
<1> DEFINE new == Append(ch, c)
<1> HIDE DEF new
<1>3. \A i \in f + 1 .. Len(ch) : new[i] = ch[i]
  BY <1>2 DEF new
<1>4. \A i \in f + 1 .. Len(new) : i \in f + 1 .. Len(ch) \/ new[i] = c
  BY <1>2 DEF new
<1>5. \A i \in f + 1 .. Len(ch) : i \in f + 1 .. Len(new)
  BY <1>2 DEF new
<1>6. PlacesOf(new, f) = PlacesOf(ch, f)
  BY <1>3, <1>4, <1>5 DEF PlacesOf
<1>7. \A i \in PlacesOf(ch, f) : new[i] = ch[i]
  BY <1>3 DEF PlacesOf
<1> QED BY <1>6, <1>7 DEF Numbered, new

\* The next page, with its own answer, is the next; m may grow to it if it is one of
\* the set-up's or worth something.
LEMMA PageAdded ==
  ASSUME NEW U, NEW ch \in Seq(U), NEW f \in 0 .. Len(ch), NEW k \in Nat, Numbered(ch, f, k, k),
         NEW c, c.kind \in PageKinds, c.sent = <<"SET_FACTORY", Page(k + 1)>>
  PROVE  /\ Numbered(Append(ch, c), f, k + 1, k)
         /\ k + 1 <= Pages \/ ~Worthless(c) => Numbered(Append(ch, c), f, k + 1, k + 1)
<1> DEFINE V == U \cup {c}  l == Len(ch) + 1  P == PlacesOf(ch, f)
<1>1. ch \in Seq(V) /\ c \in V
  OBVIOUS
<1> HIDE DEF V
<1>2. /\ Len(Append(ch, c)) = l /\ Len(ch) \in Nat
      /\ \A i \in 1 .. Len(ch) : Append(ch, c)[i] = ch[i]
      /\ Append(ch, c)[l] = c
  BY <1>1
<1> DEFINE new == Append(ch, c)  Q == PlacesOf(new, f)
<1> HIDE DEF new
<1>3. \A i \in f + 1 .. Len(ch) : new[i] = ch[i]
  BY <1>2 DEF new
<1>4. \A i \in f + 1 .. Len(new) : i \in f + 1 .. Len(ch) \/ i = l
  BY <1>2 DEF new
<1>5. /\ \A i \in f + 1 .. Len(ch) : i \in f + 1 .. Len(new)
      /\ l \in f + 1 .. Len(new) /\ new[l] = c
  BY <1>2 DEF new
<1>6. Q = P \cup {l}
  BY <1>3, <1>4, <1>5 DEF PlacesOf
<1>7. IsFiniteSet(P) /\ P \subseteq f + 1 .. Len(ch) /\ Cardinality(P) = k
  BY PlacesFinite DEF Numbered
<1>8. \A i \in P : i < l /\ new[i] = ch[i] /\ i \in Int
  BY <1>2, <1>3, <1>7
<1>9. l \notin P /\ l \in Int
  BY <1>2, <1>8
<1>10. Cardinality(Q) = k + 1
  BY <1>6, <1>7, <1>9, FS_AddElement
<1>11. UpTo(Q, l) = Q
  BY <1>2, <1>6, <1>8 DEF UpTo
<1>12. \A i \in P : UpTo(Q, i) = UpTo(P, i)
  BY <1>2, <1>6, <1>8 DEF UpTo
<1>13. \A i \in P : Cardinality(UpTo(P, i)) \in Nat /\ Cardinality(UpTo(P, i)) <= k
  <2> TAKE i \in P
  <2>1. UpTo(P, i) \subseteq P
    BY DEF UpTo
  <2> QED BY <1>7, <2>1, FS_Subset, FS_CardinalityType
<1>14. Pages \in Nat
  BY DumpAssumption
<1>15. ASSUME NEW m \in {k, k + 1}, m = k + 1 => k + 1 <= Pages \/ ~Worthless(c), NEW i \in Q,
              NEW n, n = Cardinality(UpTo(Q, i))
       PROVE  /\ new[i].sent = <<"SET_FACTORY", Page(n)>>
              /\ n \in Pages + 1 .. m => ~Worthless(new[i])
  <2>1. CASE i \in P
    <3>1. n = Cardinality(UpTo(P, i)) /\ new[i] = ch[i] /\ n \in Nat /\ n <= k
      BY <1>8, <1>12, <1>13, <1>15, <2>1
    <3>2. n \in Pages + 1 .. m => n \in Pages + 1 .. k
      <4>1. m \in Nat
        OBVIOUS
      <4> QED BY <1>14, <3>1, <4>1
    <3> QED BY <2>1, <3>1, <3>2 DEF Numbered
  <2>2. CASE i = l
    <3>1. n = k + 1 /\ new[i] = c
      BY <1>5, <1>10, <1>11, <1>15, <2>2
    <3>2. ASSUME n \in Pages + 1 .. m PROVE ~Worthless(c)
      <4>1. m = k + 1 /\ ~(k + 1 <= Pages)
        BY <1>14, <3>1, <3>2
      <4> QED BY <1>15, <4>1
    <3> QED BY <3>1, <3>2
  <2> QED BY <1>6, <1>15, <2>1, <2>2
<1> HIDE DEF Q, l, P
<1>16. \A m \in {k, k + 1} :
         (m = k + 1 => k + 1 <= Pages \/ ~Worthless(c)) => Numbered(new, f, k + 1, m)
  <2> TAKE m \in {k, k + 1}
  <2> HAVE m = k + 1 => k + 1 <= Pages \/ ~Worthless(c)
  <2> QED BY <1>10, <1>15 DEF Numbered, Q
<1>17. Numbered(new, f, k + 1, k)
  <2>1. k # k + 1
    OBVIOUS
  <2> QED BY <1>16, <2>1
<1> QED BY <1>16, <1>17 DEF new

-----------------------------------------------------------------------------
(* The pages among the calls.                                              *)

\* The pages read before the n-th call, when b calls precede the loop.
PagesBefore(b, n) ==
  IF n <= b THEN 0 ELSE IF n - 1 <= b + Paging THEN (n - 1 - b) \div 2 ELSE Pages

\* A call reads the next page, asked for by the call before it, or none.
ReadsPages(S, b) ==
  /\ b \in Nat /\ PagesBefore(b, 1) = 0 /\ PagesBefore(b, Len(S) + 1) = Pages
  /\ \A n \in 1 .. Len(S) :
       IF S[n].call = "page"
         THEN /\ PagesBefore(b, n) \in Nat /\ PagesBefore(b, n) < Pages
              /\ PagesBefore(b, n + 1) = PagesBefore(b, n) + 1
              /\ S[n - 1].command = W("SET_FACTORY", Page(PagesBefore(b, n) + 1))
         ELSE PagesBefore(b, n + 1) = PagesBefore(b, n)

LEMMA LoopReadsPages ==
  ASSUME NEW S, NEW B, NEW E, AroundTheLoop(S, B, E), Len(B) \in Nat, Len(E) \in Nat,
         \A n \in 1 .. Len(B) : B[n].call # "page",
         \A n \in 1 .. Len(E) : E[n].call # "page"
  PROVE  ReadsPages(S, Len(B))
<1> DEFINE b == Len(B)  e == Len(E)
<1>1. /\ b \in Nat /\ e \in Nat /\ Paging \in Nat /\ Pages \in Nat \ {0} /\ Paging = 2 * Pages
      /\ Len(S) = b + Paging + e
  BY PageLoopItems, DumpAssumption DEF AroundTheLoop, Paging
<1>2. /\ \A n \in 1 .. b : S[n] = B[n]
      /\ \A i \in 1 .. Paging : S[b + i] = PageLoop[i]
      /\ \A i \in 1 .. e : S[b + Paging + i] = E[i]
  BY DEF AroundTheLoop
<1>3. \A n \in 1 .. b : B[n].call # "page"
  OBVIOUS
<1>4. \A n \in 1 .. e : E[n].call # "page"
  OBVIOUS
<1> HIDE DEF b, e
<1>5. PagesBefore(b, 1) = 0 /\ PagesBefore(b, Len(S) + 1) = Pages
  BY <1>1 DEF PagesBefore
<1>6. ASSUME NEW n \in 1 .. b + Paging + e
      PROVE  IF S[n].call = "page"
               THEN /\ PagesBefore(b, n) \in Nat /\ PagesBefore(b, n) < Pages
                    /\ PagesBefore(b, n + 1) = PagesBefore(b, n) + 1
                    /\ S[n - 1].command = W("SET_FACTORY", Page(PagesBefore(b, n) + 1))
               ELSE PagesBefore(b, n + 1) = PagesBefore(b, n)
  <2>1. CASE n \in 1 .. b
    <3>1. S[n].call # "page"
      BY <1>2, <1>3, <2>1
    <3>2. PagesBefore(b, n + 1) = 0 /\ PagesBefore(b, n) = 0
      BY <1>1, <2>1 DEF PagesBefore
    <3> QED BY <3>1, <3>2
  <2>2. CASE n \in b + 1 .. b + Paging
    <3>1. PICK i \in 1 .. Paging : n = b + i
      <4>1. n - b \in 1 .. Paging /\ n = b + (n - b)
        BY <1>1, <2>2
      <4> QED BY <4>1
    <3>2. PagesBefore(b, n) = (i - 1) \div 2 /\ PagesBefore(b, n + 1) = i \div 2
      BY <1>1, <3>1 DEF PagesBefore
    <3>3. S[n].call = IF i % 2 = 1 THEN "setFeature" ELSE "page"
      BY <1>2, <3>1, PageLoopItems
    <3>4. CASE i % 2 = 1
      <4>1. (i - 1) \div 2 = i \div 2
        BY <1>1, <3>4
      <4> QED BY <3>2, <3>3, <3>4, <4>1
    <3>5. CASE i % 2 # 1
      <4> DEFINE h == (i - 1) \div 2
      <4>0. i = 2 * h + 2 /\ h \in Nat
        <5>1. i \in Nat /\ i >= 1
          BY <1>1
        <5>2. \A j \in Nat : j >= 1 /\ j % 2 # 1 =>
                j = 2 * ((j - 1) \div 2) + 2 /\ (j - 1) \div 2 \in Nat
          OBVIOUS
        <5> QED BY <3>5, <5>1, <5>2
      <4> HIDE DEF h
      <4>1. /\ h \in Nat /\ h < Pages /\ i \div 2 = h + 1
            /\ i - 1 \in 1 .. Paging /\ (i - 1) % 2 = 1 /\ ((i - 1) + 1) \div 2 = h + 1
        BY <1>1, <4>0
      <4>2. n - 1 = b + (i - 1)
        BY <1>1, <3>1
      <4>3. S[n - 1] = PageLoop[i - 1]
        BY <1>2, <4>1, <4>2
      <4>4. PageLoop[i - 1].command = W("SET_FACTORY", Page(((i - 1) + 1) \div 2))
        BY <4>1, PageReadsItems
      <4> QED BY <3>2, <3>3, <3>5, <4>1, <4>3, <4>4 DEF h
    <3> QED BY <3>4, <3>5
  <2>3. CASE n \in b + Paging + 1 .. b + Paging + e
    <3>1. PICK i \in 1 .. e : n = b + Paging + i
      <4>1. n - (b + Paging) \in 1 .. e /\ n = b + Paging + (n - (b + Paging))
        BY <1>1, <2>3
      <4> QED BY <4>1
    <3>2. S[n].call # "page"
      BY <1>2, <1>4, <3>1
    <3>3. PagesBefore(b, n) = Pages /\ PagesBefore(b, n + 1) = Pages
      BY <1>1, <3>1 DEF PagesBefore
    <3> QED BY <3>2, <3>3
  <2> QED BY <1>1, <2>1, <2>2, <2>3
<1> QED BY <1>1, <1>5, <1>6 DEF ReadsPages, b

\* The calls of a copy before its loop.
CallsBefore(p) == IF p = "Nano300" THEN 14 ELSE 8

\* Both copies read the pages of the set-up.
LEMMA ScriptReadsPages ==
  ASSUME product \in Products, Recording
  PROVE  ReadsPages(Script(product), CallsBefore(product))
<1>1. CASE product = "Nano300"
  <2> DEFINE B == Nano300Begins  E == Nano300Ends
             T == {B[i] : i \in 1 .. 14} \cup {E[i] : i \in 1 .. 4}
  <2>1. B \in Seq(T) /\ Len(B) = 14 /\ E \in Seq(T) /\ Len(E) = 4
    BY DEF Nano300Begins, Nano300Ends
  <2>2. \A i \in 1 .. 14 : B[i].call # "page"
    BY ItemFacts DEF Nano300Begins
  <2>3. \A i \in 1 .. 4 : E[i].call # "page"
    BY ItemFacts DEF Nano300Ends
  <2> HIDE DEF B, E, T
  <2>4. AroundTheLoop(B \o PageLoop \o E, B, E)
    BY <2>1, JoinsTheLoop
  <2>5. ReadsPages(B \o PageLoop \o E, Len(B))
    <3>1. /\ \A i \in 1 .. Len(B) : B[i].call # "page"
          /\ \A i \in 1 .. Len(E) : E[i].call # "page"
          /\ Len(B) \in Nat /\ Len(E) \in Nat
      BY <2>1, <2>2, <2>3
    <3> QED BY <2>4, <3>1, LoopReadsPages
  <2>6. Script(product) = B \o PageLoop \o E /\ CallsBefore(product) = Len(B)
    BY <1>1, <2>1 DEF Script, DumpingNano300, B, E, CallsBefore
  <2> QED BY <2>5, <2>6
<1>2. CASE product = "CompactPro"
  <2> DEFINE B == CompactProBegins  E == CompactProEnds
             T == {B[i] : i \in 1 .. 8} \cup {E[i] : i \in 1 .. 5}
  <2>1. B \in Seq(T) /\ Len(B) = 8 /\ E \in Seq(T) /\ Len(E) = 5
    BY DEF CompactProBegins, CompactProEnds
  <2>2. \A i \in 1 .. 8 : B[i].call # "page"
    BY ItemFacts DEF CompactProBegins
  <2>3. \A i \in 1 .. 5 : E[i].call # "page"
    BY ItemFacts DEF CompactProEnds
  <2> HIDE DEF B, E, T
  <2>4. AroundTheLoop(B \o PageLoop \o E, B, E)
    BY <2>1, JoinsTheLoop
  <2>5. ReadsPages(B \o PageLoop \o E, Len(B))
    <3>1. /\ \A i \in 1 .. Len(B) : B[i].call # "page"
          /\ \A i \in 1 .. Len(E) : E[i].call # "page"
          /\ Len(B) \in Nat /\ Len(E) \in Nat
      BY <2>1, <2>2, <2>3
    <3> QED BY <2>4, <3>1, LoopReadsPages
  <2>6. Script(product) = B \o PageLoop \o E /\ CallsBefore(product) = Len(B)
    BY <1>2, <2>1 DEF Script, DumpingCompactPro, B, E, CallsBefore
  <2> QED BY <2>5, <2>6
<1> QED BY <1>1, <1>2, DumpAssumption DEF Recording
-----------------------------------------------------------------------------
(* The pages of the dump.                                                  *)

\* The pages of this set-up that were recorded.
PagesRead ==
  IF step = "configure" THEN PagesBefore(CallsBefore(product), at)
  ELSE IF step \in {"on", "readOn", "done"} THEN Pages ELSE 0

PagesInv ==
  /\ first \in 0 .. Len(chunks) /\ at \in Nat
  /\ Recording =>
       /\ prog = "open" => Numbered(chunks, first, PagesRead, PagesRead)
       /\ prog = "frames" => Numbered(chunks, first, Pages, Pages)
       /\ prog = "extra" => at >= 1 /\ Numbered(chunks, first, Pages + at - 1, Pages + at - 1)
       /\ prog \in {"close", "sidecar", "exit"} /\ status = 0 =>
            \E k \in Nat : k >= Pages /\ Numbered(chunks, first, k, k - 1)

\* The last page may be worthless.
LEMMA LastMayBeWorthless ==
  ASSUME NEW ch, NEW f, NEW k \in Nat, Numbered(ch, f, k, k)
  PROVE  Numbered(ch, f, k, k - 1)
<1>1. \A n : n \in Pages + 1 .. k - 1 => n \in Pages + 1 .. k
  BY DumpAssumption
<1> QED BY <1>1 DEF Numbered

\* A recorded answer that is no page disturbs none.
LEMMA AnswerAdded ==
  ASSUME RecordInv, PagesInv, NEW k, NEW f, addChunk(Chunk(k, f)), k \notin PageKinds, NEW p
  PROVE  /\ first \in 0 .. Len(chunks')
         /\ Recording /\ Numbered(chunks, first, p, p) => Numbered(chunks', first, p, p)
<1> DEFINE c == Chunk(k, f)
<1>1. c.kind \notin PageKinds
  BY DEF Chunk
<1>2. PICK U : chunks \in Seq(U)
  BY DEF RecordInv
<1>3. chunks' = (IF Recording THEN Append(chunks, c) ELSE chunks) /\ first \in 0 .. Len(chunks)
  BY DEF addChunk, PagesInv
<1> HIDE DEF c
<1>4. Len(Append(chunks, c)) = Len(chunks) + 1 /\ Len(chunks) \in Nat
  <2>1. chunks \in Seq(U \cup {c})
    BY <1>2
  <2> QED BY <2>1
<1> QED BY <1>1, <1>2, <1>3, <1>4, NoPageAdded

\* A call between the mode loops records the page it reads, if it reads one.
LEMMA CallKeepsPages ==
  ASSUME RecordInv, PagesInv, setFeature \/ doRead \/ doReadWithRecord \/ orphanProbe \/ write
  PROVE  PagesInv'
<1> DEFINE S == Script(product)  b == CallsBefore(product)
<1>1. /\ prog = "open" /\ step = "configure" /\ NextCall
      /\ at \in 1 .. Len(S) /\ Len(S) \in Nat
      /\ product' = product /\ prog' = "open" /\ first' = first /\ at' = at + 1
      /\ step' = IF at < Len(S) THEN "configure" ELSE "on"
  <2>1. prog = "open" /\ step = "configure" /\ NextCall
    BY DEF setFeature, doRead, doReadWithRecord, orphanProbe, write, Configuring
  <2>2. at \in 1 .. Len(S) /\ Len(S) \in Nat
    BY <2>1, ScriptReadsOwn DEF RecordInv, ReadsOwn
  <2> QED BY <2>1, <2>2 DEF NextCall
<1>2. first \in 0 .. Len(chunks)
  BY DEF PagesInv
<1>3. PICK U : chunks \in Seq(U)
  BY DEF RecordInv
<1>4. first' \in 0 .. Len(chunks')
  <2>1. CASE setFeature \/ write
    BY <1>1, <1>2, <2>1 DEF setFeature, write
  <2>2. CASE doRead \/ orphanProbe
    <3>1. PICK k, f : addChunk(Chunk(k, f)) /\ k \notin PageKinds
      BY <2>2 DEF doRead, orphanProbe, PageKinds
    <3> QED BY <1>1, <3>1, AnswerAdded
  <2>3. CASE doReadWithRecord
    <3>1. PICK c : chunks' = IF Recording THEN Append(chunks, c) ELSE chunks
      BY <2>3 DEF doReadWithRecord, addChunk
    <3>2. chunks \in Seq(U \cup {c})
      BY <1>3
    <3> QED BY <1>1, <1>2, <3>1, <3>2
  <2> QED BY <2>1, <2>2, <2>3
<1>5. ASSUME Recording
      PROVE  Numbered(chunks', first, PagesBefore(b, at + 1), PagesBefore(b, at + 1))
  <2> DEFINE p == PagesBefore(b, at)  q == PagesBefore(b, at + 1)
  <2>1. Numbered(chunks, first, p, p)
    BY <1>1, <1>5 DEF PagesInv, PagesRead
  <2>2. IF S[at].call = "page"
          THEN p \in Nat /\ p < Pages /\ q = p + 1 /\ S[at - 1].command = W("SET_FACTORY", Page(p + 1))
          ELSE q = p
    BY <1>1, <1>5, ScriptReadsPages DEF RecordInv, ReadsPages
  <2> HIDE DEF p, q
  <2>3. CASE setFeature \/ write
    <3>1. S[at].call # "page" /\ chunks' = chunks
      BY <2>3 DEF setFeature, write, Configuring, Call
    <3> QED BY <2>1, <2>2, <3>1 DEF p, q
  <2>4. CASE doRead \/ orphanProbe
    <3>1. PICK k, f : addChunk(Chunk(k, f)) /\ k \notin PageKinds
      BY <2>4 DEF doRead, orphanProbe, PageKinds
    <3>2. S[at].call # "page"
      BY <2>4 DEF doRead, orphanProbe, Configuring, Call
    <3>3. Numbered(chunks', first, p, p)
      BY <1>5, <2>1, <3>1, AnswerAdded
    <3> QED BY <2>2, <3>2, <3>3 DEF p, q
  <2>5. CASE doReadWithRecord
    <3> DEFINE c == Chunk("page", Tail(S[at - 1].command))
    <3>1. S[at].call = "page" /\ chunks' = Append(chunks, c)
      BY <1>5, <2>5 DEF doReadWithRecord, Configuring, Call, addChunk
    <3>2. p \in Nat /\ p + 1 <= Pages /\ q = p + 1
      BY <2>2, <3>1, DumpAssumption
    <3>3. c.kind \in PageKinds /\ c.sent = sent
      BY DEF Chunk, PageKinds
    <3>4. Latest(S, at, last, sent) /\ ReadsOwn(S)
      BY <1>1, ScriptReadsOwn DEF RecordInv
    <3>5. Tail(S[at - 1].command) = sent
      BY <1>1, <3>1, <3>4, LatestAtRead
    <3>6. Tail(W("SET_FACTORY", Page(p + 1))) = <<"SET_FACTORY", Page(p + 1)>>
      BY DEF W
    <3>7. c.sent = <<"SET_FACTORY", Page(p + 1)>>
      BY <2>2, <3>1, <3>3, <3>5, <3>6
    <3> HIDE DEF c
    <3>8. Numbered(Append(chunks, c), first, p + 1, p + 1)
      BY <1>2, <1>3, <2>1, <3>2, <3>3, <3>7, PageAdded
    <3> QED BY <3>1, <3>2, <3>8 DEF q
  <2> QED BY <2>3, <2>4, <2>5
<1>6. Recording => PagesRead' = PagesBefore(b, at + 1)
  <2>1. ASSUME Recording, ~(at < Len(S)) PROVE PagesBefore(b, at + 1) = Pages
    <3>1. at = Len(S)
      BY <1>1, <2>1
    <3> QED BY <2>1, <3>1, ScriptReadsPages DEF RecordInv, ReadsPages
  <2> QED BY <1>1, <2>1 DEF PagesRead
<1> QED BY <1>1, <1>4, <1>5, <1>6 DEF PagesInv, Recording

\* Every step keeps the pages in order.
LEMMA StepKeepsPages ==
  ASSUME RecordInv, ProgramInv, PagesInv, [DumpNext]_dumpVars
  PROVE  PagesInv'
<1>0. PICK U : chunks \in Seq(U)
  BY DEF RecordInv
<1>1. /\ first \in 0 .. Len(chunks) /\ Len(chunks) \in Nat /\ at \in Nat /\ Pages \in Nat
      /\ \A c : Len(Append(chunks, c)) = Len(chunks) + 1
  <2>1. \A c : chunks \in Seq(U \cup {c})
    BY <1>0
  <2>2. \A c : Len(Append(chunks, c)) = Len(chunks) + 1
    BY <2>1
  <2> QED BY <1>0, <2>2, DumpAssumption DEF PagesInv
<1>2. CASE Open \/ StartupMissed
  <2>1. /\ prog' = "open" /\ step' = "platform" /\ at' = 1
        /\ first' = Len(chunks) /\ UNCHANGED <<product, chunks>>
    BY <1>2 DEF Open, StartupMissed, SetupBegins
  <2>2. Numbered(chunks, Len(chunks), 0, 0)
    BY <1>0, NoPageYet
  <2>3. PagesRead' = 0
    BY <2>1 DEF PagesRead
  <2> QED BY <1>1, <2>1, <2>2, <2>3 DEF PagesInv, Recording
<1>3. CASE \/ OpenDeviceFails \/ ReopenFails \/ TargetPlatformFailsAgain \/ RetriesSpent
           \/ CommandFails \/ AttemptsSpent
  <2>1. prog' = "sidecar" /\ status' = 1 /\ UNCHANGED record
    BY <1>3 DEF OpenDeviceFails, ReopenFails, TargetPlatformFailsAgain, RetriesSpent, CommandFails,
       AttemptsSpent, Throw, Abort
  <2> QED BY <1>1, <2>1 DEF PagesInv, record
<1>4. CASE TargetPlatform \/ TargetPlatformFails \/ Reopen \/ \E on \in BOOLEAN : SetMode(on)
  <2>1. /\ prog = "open" /\ prog' = "open" /\ UNCHANGED <<product, record>>
        /\ \/ step \in {"platform", "reopen", "off"} /\ step' \in {"platform", "reopen", "off", "readOff"}
           \/ step = "on" /\ step' = "readOn"
    BY <1>4 DEF TargetPlatform, TargetPlatformFails, Reopen, SetMode
  <2>2. PagesRead' = PagesRead
    BY <2>1 DEF PagesRead
  <2> QED BY <1>1, <2>1, <2>2 DEF PagesInv, Recording, record
<1>5. ASSUME NEW on \in BOOLEAN, ReadMode(on)
      PROVE  PagesInv'
  <2>1. /\ prog = "open" /\ prog' = "open" /\ step = (IF on THEN "readOn" ELSE "readOff")
        /\ step' \in IF on THEN {"done", "on"} ELSE {"configure", "off"}
        /\ addChunk(Chunk("poll", last)) /\ UNCHANGED <<product, at, first>>
    BY <1>5 DEF ReadMode
  <2>2. Recording => PagesRead' = PagesRead
    <3>1. ASSUME Recording, ~on PROVE PagesBefore(CallsBefore(product), at) = 0
      <4>1. at = 1
        BY <2>1, <3>1 DEF RecordInv
      <4> QED BY <3>1, <4>1, ScriptReadsPages DEF RecordInv, ReadsPages
    <3> QED BY <2>1, <3>1 DEF PagesRead
  <2>3. /\ first \in 0 .. Len(chunks')
        /\ Recording /\ Numbered(chunks, first, PagesRead, PagesRead) =>
             Numbered(chunks', first, PagesRead, PagesRead)
    <3>1. "poll" \notin PageKinds
      BY DEF PageKinds
    <3> QED BY <2>1, <3>1, AnswerAdded
  <2> QED BY <1>1, <2>1, <2>2, <2>3 DEF PagesInv, Recording
<1>6. CASE setFeature \/ doRead \/ doReadWithRecord \/ orphanProbe \/ write
  BY <1>6, CallKeepsPages
<1>7. CASE SetOnFails \/ ErrorCodeRefused
  <2>1. /\ prog' = "sidecar" /\ status' = 1 /\ UNCHANGED <<at, first>>
        /\ (\E f : addChunk(Chunk("setup_read", f))) \/ UNCHANGED chunks
    BY <1>7 DEF SetOnFails, ErrorCodeRefused, Throw, Abort
  <2>2. first \in 0 .. Len(chunks')
    <3>1. "setup_read" \notin PageKinds
      BY DEF PageKinds
    <3> QED BY <1>1, <2>1, <3>1, AnswerAdded
  <2> QED BY <1>1, <2>1, <2>2 DEF PagesInv
<1>8. CASE StartupSeen
  <2>1. /\ prog = "open" /\ step = "done" /\ prog' = "frames" /\ UNCHANGED <<product, record>>
    BY <1>8 DEF StartupSeen, Opened
  <2>2. PagesRead = Pages
    BY <2>1 DEF PagesRead
  <2> QED BY <1>1, <2>1, <2>2 DEF PagesInv, Recording, record
<1>9. CASE GrabFrame
  <2>1. /\ prog = "frames" /\ prog' = "frames" /\ UNCHANGED <<product, at, first>>
        /\ chunks' = Append(chunks, Frame)
    BY <1>9 DEF GrabFrame
  <2>2. Frame.kind \notin PageKinds
    BY DEF Frame, PageKinds
  <2>3. Recording => Numbered(Append(chunks, Frame), first, Pages, Pages)
    BY <1>0, <1>1, <2>1, <2>2, NoPageAdded DEF PagesInv
  <2>4. first \in 0 .. Len(chunks')
    BY <1>1, <2>1
  <2> QED BY <1>1, <2>1, <2>3, <2>4 DEF PagesInv, Recording
<1>10. CASE FramesDone
  <2>1. /\ prog = "frames" /\ prog' \in {"extra", "close"} /\ at' = 1
        /\ UNCHANGED <<product, first, chunks>>
    BY <1>10 DEF FramesDone
  <2>2. Pages + 1 - 1 = Pages
    BY <1>1
  <2>3. Recording => /\ Numbered(chunks, first, Pages + 1 - 1, Pages + 1 - 1)
                     /\ Numbered(chunks, first, Pages, Pages - 1)
    BY <1>1, <2>1, <2>2, LastMayBeWorthless DEF PagesInv
  <2> QED BY <1>1, <2>1, <2>3 DEF PagesInv, Recording
<1>11. CASE \E note \in {"", "all_zero", "duplicate_of_previous"} : ProbeExtraPage(note)
  <2>1. PICK c :
          /\ prog = "extra" /\ prog' \in {"extra", "close"}
          /\ chunks' = Append(chunks, c) /\ at' = at + 1 /\ UNCHANGED <<product, first>>
          /\ c.kind \in PageKinds /\ c.sent = <<"SET_FACTORY", Page(Pages + at)>>
          /\ prog' = "extra" => ~Worthless(c)
    <3>1. PICK note \in {"", "all_zero", "duplicate_of_previous"} : ProbeExtraPage(note)
      BY <1>11
    <3> DEFINE f == <<"SET_FACTORY", ExtraPage>>
               d == [kind |-> "extra_factory", feature |-> f, sent |-> f, note |-> note]
    <3>2. /\ prog = "extra" /\ prog' = (IF note = "" THEN "extra" ELSE "close")
          /\ chunks' = Append(chunks, d) /\ at' = at + 1 /\ UNCHANGED <<product, first>>
      BY <3>1 DEF ProbeExtraPage
    <3>3. d.kind \in PageKinds /\ d.sent = <<"SET_FACTORY", Page(Pages + at)>> /\ d.note = note
      BY DEF PageKinds, ExtraPage
    <3> HIDE DEF d
    <3>4. note = "" => ~Worthless(d)
      BY <3>3 DEF Worthless
    <3> QED BY <3>2, <3>3, <3>4
  <2> DEFINE k == Pages + at - 1
  <2>2. Recording => /\ k \in Nat /\ k >= Pages /\ k + 1 = Pages + at /\ at >= 1
                     /\ Numbered(chunks, first, k, k)
    BY <1>1, <2>1 DEF PagesInv
  <2> HIDE DEF k
  <2>3. Recording => /\ Numbered(chunks', first, k + 1, k)
                     /\ prog' = "extra" => Numbered(chunks', first, k + 1, k + 1)
    BY <1>0, <1>1, <2>1, <2>2, PageAdded
  <2>4. first \in 0 .. Len(chunks')
    BY <1>1, <2>1
  <2>5. Recording => /\ k + 1 \in Nat /\ k + 1 >= Pages /\ (k + 1) - 1 = k
                     /\ Pages + at' - 1 = k + 1 /\ at' >= 1
    BY <1>1, <2>1, <2>2
  <2>6. CASE prog' = "extra"
    BY <1>1, <2>1, <2>3, <2>4, <2>5, <2>6 DEF PagesInv, Recording
  <2>7. CASE prog' = "close"
    <3>1. Recording => \E j \in Nat : j >= Pages /\ Numbered(chunks', first, j, j - 1)
      BY <2>3, <2>5
    <3> QED BY <1>1, <2>1, <2>4, <2>7, <3>1 DEF PagesInv, Recording
  <2> QED BY <2>1, <2>6, <2>7
<1>12. CASE ProbeEnds
  <2>1. prog = "extra" /\ prog' = "close" /\ UNCHANGED <<product, record>>
    BY <1>12 DEF ProbeEnds
  <2> DEFINE k == Pages + at - 1
  <2>2. Recording => k \in Nat /\ k >= Pages /\ Numbered(chunks, first, k, k)
    BY <1>1, <2>1 DEF PagesInv
  <2> HIDE DEF k
  <2>3. Recording => \E j \in Nat : j >= Pages /\ Numbered(chunks, first, j, j - 1)
    BY <2>2, LastMayBeWorthless
  <2> QED BY <1>1, <2>1, <2>3 DEF PagesInv, Recording, record
<1>13. CASE Close \/ writeSidecar
  <2>1. /\ prog \in {"close", "sidecar"} /\ prog' \in {"sidecar", "exit"} /\ status' \in {status, 1}
        /\ UNCHANGED <<product, record>>
    BY <1>13 DEF Close, writeSidecar
  <2> QED BY <1>1, <2>1 DEF PagesInv, Recording, record
<1>14. CASE UNCHANGED dumpVars
  BY <1>14 DEF dumpVars, setupVars, record, PagesInv, PagesRead, Recording
<1> QED BY <1>2, <1>3, <1>4, <1>5, <1>6, <1>7, <1>8, <1>9, <1>10, <1>11, <1>12, <1>13, <1>14
        DEF DumpNext, SetupStep

\* The factory pages of a camera that was opened lie in the dump one after the other,
\* every one once, each with its own answer, after any number of attempts.
THEOREM PagesLieInOrder == DumpSpec => []PagesInOrder
<1>1. Init => RecordInv /\ ProgramInv /\ PagesInv
  <2> SUFFICES ASSUME Init PROVE PagesInv
    BY InitRecorded DEF Init, ProgramInv
  <2>1. Len(chunks) = 0
    BY DEF Init
  <2> QED BY <2>1 DEF Init, PagesInv
<1>2. RecordInv /\ ProgramInv /\ PagesInv /\ [DumpNext]_dumpVars => RecordInv' /\ ProgramInv' /\ PagesInv'
  BY StepRecorded, StepSimulates, StepKeepsPages
<1>3. RecordInv /\ ProgramInv /\ PagesInv => PagesInOrder
  <2> SUFFICES ASSUME ProgramInv, PagesInv, Recording, status = 0, prog \notin {"start", "open"}
               PROVE  /\ Cardinality(PageChunks) >= Pages
                      /\ \A i \in PageChunks :
                           /\ chunks[i].sent = <<"SET_FACTORY", Page(PageNumber(i))>>
                           /\ PageNumber(i) \in Pages + 1 .. Cardinality(PageChunks) - 1 =>
                                chunks[i].note = ""
    BY DEF PagesInOrder
  <2>1. PageChunks = PlacesOf(chunks, first) /\ \A i : PageNumber(i) = Cardinality(UpTo(PlacesOf(chunks, first), i))
    BY DEF PageChunks, PageNumber, PlacesOf, PageKinds, UpTo
  <2>2. PICK k \in Nat : k >= Pages /\ Numbered(chunks, first, k, k - 1)
    <3>1. CASE prog = "frames"
      <4>1. Pages \in Nat /\ Numbered(chunks, first, Pages, Pages - 1)
        BY <3>1, DumpAssumption, LastMayBeWorthless DEF PagesInv
      <4> QED BY <4>1
    <3>2. CASE prog = "extra"
      <4> DEFINE j == Pages + at - 1
      <4>1. j \in Nat /\ j >= Pages /\ Numbered(chunks, first, j, j)
        BY <3>2, DumpAssumption DEF PagesInv
      <4> HIDE DEF j
      <4> QED BY <4>1, LastMayBeWorthless
    <3>3. CASE prog \in {"close", "sidecar", "exit"}
      BY <3>3 DEF PagesInv
    <3> QED BY <3>1, <3>2, <3>3 DEF ProgramInv
  <2> QED BY <2>1, <2>2 DEF Numbered, Worthless
<1> QED BY <1>1, <1>2, <1>3, PTL DEF DumpSpec
=============================================================================
