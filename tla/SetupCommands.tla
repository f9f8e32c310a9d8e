--------------------------- MODULE SetupCommands ---------------------------
(***************************************************************************)
(* What setupCamera() tells the device and reads from it between its two   *)
(* mode loops: in the production code of the three products, and in the    *)
(* copies of two of them in dump_camera_data, which record what they read. *)
(* A write is a command with its data, a read a command with its size.     *)
(***************************************************************************)
EXTENDS Integers, Sequences

CONSTANT Pages  \* factory pages read during set-up, 80

W(c, data) == <<"write", c, data>>
R(c, size) == <<"read", c, size>>

Page(a) == <<32, 0, a>>
Tail4   == R("GET_ERROR_CODE", 4)
Mode8   == W("SET_IMAGE_PROCESSING_MODE", <<8>>)

PageReads == [i \in 1 .. 2 * Pages |->
  IF i % 2 = 1 THEN W("SET_FACTORY", Page((i + 1) \div 2)) ELSE R("GET_FACTORY", 64)]

Production(p) ==
  CASE p = "Nano300" ->
         <<Mode8, W("SET_FACTORY", <<8, 0, 2, 6>>), R("GET_FACTORY", 16), R("GET_FIRMWARE", 4),
           W("SET_FACTORY", <<8, 0, 2, 6>>), R("GET_FACTORY", 16),
           W("SET_FIRMWARE", <<23>>), R("GET_FIRMWARE", 64), R("GET_FIRMWARE", 4), R("CHIP_ID", 12),
           W("SET_FIRMWARE", <<21>>), R("GET_FIRMWARE", 64), R("CHIP_ID", 12), R("GET_FIRMWARE", 4)>>
         \o PageReads
         \o <<W("SET_FIRMWARE", <<21>>), R("GET_FIRMWARE", 64), Tail4,
              W("TOGGLE_SHUTTER", <<252, 0, 4, 0>>)>>
    [] p = "CompactPro" ->
         <<W("SET_FACTORY", <<6, 0, 8, 0>>), W("SET_FIRMWARE", <<23>>),
           W("SET_FACTORY", <<1, 0, 0, 6>>), W("SET_FACTORY", <<1, 0, 1, 6>>)>>
         \o PageReads
         \o <<W("SET_FIRMWARE", <<21>>), Tail4, Mode8, R("GET_MODE", 2)>>
    [] p = "Compact" ->
         <<W("SET_FACTORY", <<32, 0, 48, 0>>), W("SET_FIRMWARE", <<23>>),
           W("SET_FACTORY", <<32, 0, 80, 0>>), W("SET_FACTORY", <<12, 0, 112, 0>>),
           W("SET_FACTORY", <<6, 0, 8, 0>>), Tail4, Mode8, R("GET_MODE", 2)>>

-----------------------------------------------------------------------------
(* The copies.  An item is what is called for it: setFeature(), write(),   *)
(* doRead(), doReadWithRecord() ("page"), orphanProbe(); clear tells that  *)
(* clearFeature() is called before a read.                                 *)

Item(call, clear, command) == [call |-> call, clear |-> clear, command |-> command]

Feature(c, data) == Item("setFeature", FALSE, W(c, data))
Write(command)   == Item("write", FALSE, command)
Get(c, size)     == Item("doRead", FALSE, R(c, size))
Probe(c)         == Item("orphanProbe", FALSE, R(c, 64))

\* A mutant: the feature of an earlier read is still taken for that of this one.
MutCleared(c, size) == Item("doRead", FALSE, R(c, size))

Cleared(c, size) == Item("doRead", TRUE, R(c, size))

\* A page is asked for, then read.
PageCalls(pages) == [i \in 1 .. 2 * pages |->
  IF i % 2 = 1 THEN Feature("SET_FACTORY", Page((i + 1) \div 2))
               ELSE Item("page", FALSE, R("GET_FACTORY", 64))]

\* A mutant: the loop ends a page early.
MutPageLoop == PageCalls(Pages - 1)

PageLoop == PageCalls(Pages)

Nano300Begins ==
  <<Write(Mode8),
    Feature("SET_FACTORY", <<8, 0, 2, 6>>), Get("GET_FACTORY", 16), Cleared("GET_FIRMWARE", 4),
    Feature("SET_FACTORY", <<8, 0, 2, 6>>), Get("GET_FACTORY", 16),
    Feature("SET_FIRMWARE", <<23>>), Get("GET_FIRMWARE", 64), Cleared("GET_FIRMWARE", 4),
    Get("CHIP_ID", 12),
    Feature("SET_FIRMWARE", <<21>>), Get("GET_FIRMWARE", 64), Cleared("CHIP_ID", 12),
    Get("GET_FIRMWARE", 4)>>

Nano300Ends ==
  <<Feature("SET_FIRMWARE", <<21>>), Get("GET_FIRMWARE", 64), Cleared("GET_ERROR_CODE", 4),
    Write(W("TOGGLE_SHUTTER", <<252, 0, 4, 0>>))>>

DumpingNano300 == Nano300Begins \o PageLoop \o Nano300Ends

CompactProBegins ==
  <<Feature("SET_FACTORY", <<6, 0, 8, 0>>), Probe("GET_FACTORY"),
    Feature("SET_FIRMWARE", <<23>>), Probe("GET_FIRMWARE"),
    Feature("SET_FACTORY", <<1, 0, 0, 6>>), Probe("GET_FACTORY"),
    Feature("SET_FACTORY", <<1, 0, 1, 6>>), Probe("GET_FACTORY")>>

CompactProEnds ==
  <<Feature("SET_FIRMWARE", <<21>>), Probe("GET_FIRMWARE"), Cleared("GET_ERROR_CODE", 4),
    Write(Mode8), Get("GET_MODE", 2)>>

DumpingCompactPro == CompactProBegins \o PageLoop \o CompactProEnds

\* The Compact has no recording subclass: createCamera() makes the stock camera.
StockCamera == [i \in 1 .. Len(Production("Compact")) |->
  LET c == Production("Compact")[i] IN IF c[1] = "write" THEN Write(c) ELSE Get(c[2], c[3])]

Script(p) ==
  CASE p = "Nano300" -> DumpingNano300
    [] p = "CompactPro" -> DumpingCompactPro
    [] p = "Compact" -> StockCamera
=============================================================================
