-------------------------- MODULE BoardBlocksProofs --------------------------
(* Proofs about BoardBlocks.  Operations are nested, and what one of them   *)
(* relies on must survive those inside it: it does, because the blocks it  *)
(* has locked are nobody else's.                                           *)
EXTENDS BoardBlocks, TLAPS

USE NoneAssumption

-----------------------------------------------------------------------------
(* Types *)

LEMMA ShiftedType ==
    ASSUME NEW S \in SUBSET Positions, NEW d \in Int \X Int
    PROVE  Shifted(S, d) \in SUBSET Positions
BY DEF Shifted, Plus, Positions

LEMMA CellsArePositions == Cells \subseteq Positions
BY DEF Cells, Positions

LEMMA DeltaType ==
    ASSUME NEW dir \in DOMAIN Delta
    PROVE  Delta[dir] \in {<<0, -1>>, <<0, 1>>, <<-1, 0>>, <<1, 0>>} /\ Delta[dir] \in Int \X Int
BY DEF Delta

LEMMA Blanks ==
  /\ {"pre", "loop", "post"} \subseteq Phases
  /\ "invalid" \in MgmtTypes \cup {"invalid"}
  /\ {} \in SUBSET Positions /\ <<0, 0>> \in Int \X Int
BY DEF Phases

\* A new operation is a frame, and changing the fields the model changes keeps it one.
LEMMA CallType ==
    ASSUME NEW op \in Ops, NEW b \in Blocks \cup {None}
    PROVE  Call(op, b) \in Frames
BY Blanks DEF Call, Frames

LEMMA ToldType ==
    ASSUME NEW f \in Frames
    PROVE  /\ Told(f) \in Frames
           /\ Told(f).op = f.op /\ Told(f).phase = "post"
           /\ Told(f).block = f.block /\ Told(f).other = f.other
BY Blanks DEF Told, Frames

\* Whoever owns a cell is a block.
LEMMA OwnersType ==
    ASSUME TypeOK, NEW S, NEW b \in Blocks \cup {None}
    PROVE  /\ Clear(owner, S) \in [Cells -> Blocks \cup {None}]
           /\ Set(owner, S, b) \in [Cells -> Blocks \cup {None}]
           /\ \A T : Set(Clear(owner, S), T, b) \in [Cells -> Blocks \cup {None}]
BY DEF TypeOK, Clear, Set

LEMMA InitTypeOK == Init => TypeOK
<1>1. <<>> \in Seq(Frames)
  OBVIOUS
<1> QED
  BY <1>1 DEF Init, TypeOK

\* The fields the model changes.
LEMMA FieldTypes ==
    ASSUME NEW f \in Frames, NEW b \in Blocks \cup {None}, NEW ph \in Phases,
           NEW type \in MgmtTypes \cup {"invalid"},
           NEW S \in SUBSET Positions, NEW G \in SUBSET Positions, NEW d \in Int \X Int
    PROVE  /\ [f EXCEPT !.block = b] \in Frames
           /\ [f EXCEPT !.other = b] \in Frames
           /\ [f EXCEPT !.phase = ph, !.cells = S] \in Frames
           /\ [f EXCEPT !.cells = S, !.other = b] \in Frames
           /\ [f EXCEPT !.type = type, !.cells = S] \in Frames
           /\ [f EXCEPT !.cells = S] \in Frames
           /\ [f EXCEPT !.gone = S] \in Frames
           /\ [f EXCEPT !.by = d] \in Frames
           /\ [f EXCEPT !.cells = S, !.by = d] \in Frames
           /\ [f EXCEPT !.cells = S, !.gone = G] \in Frames
           /\ [f EXCEPT !.gone = G, !.cells = S, !.by = d] \in Frames
BY DEF Frames

LEMMA FieldOfType ==
    ASSUME NEW f \in Frames
    PROVE  /\ f.op \in Ops /\ f.phase \in Phases
           /\ f.block \in Blocks \cup {None} /\ f.other \in Blocks \cup {None}
           /\ f.type \in MgmtTypes \cup {"invalid"}
           /\ f.cells \in SUBSET Positions /\ f.gone \in SUBSET Positions
           /\ f.by \in Int \X Int
BY DEF Frames

-----------------------------------------------------------------------------
(* Frames.  Which blocks an operation has in its fields follows from what  *)
(* it is and how far it is.                                                *)

Loose(f) == f.op = "unfreeze" /\ f.phase = "pre"
FrameOK(f) ==
  /\ f.phase = "loop" => f.op = "scroll"
  /\ f.block = None <=> f.op \in Movers \/ Loose(f)
  /\ f.op = "fuse" => f.other \in Blocks \ {f.block}
  /\ f.op \notin {"fuse", "scroll"} => f.other = None
  /\ f.op = "scroll" /\ f.other # None => f.phase = "loop" /\ f.cells # {}
  /\ f.op = "insert" => f.cells \subseteq Cells
ProperFrames == {f \in Frames : FrameOK(f)}
FramesOK == calls \in Seq(ProperFrames)

LEMMA ProperTop ==
    ASSUME FramesOK, calls # <<>>
    PROVE  /\ Len(calls) \in Nat \ {0}
           /\ DOMAIN calls = 1 .. Len(calls)
           /\ Top = calls[Len(calls)]
           /\ Top \in Frames /\ Top \in ProperFrames /\ FrameOK(Top)
           /\ \A i \in 1 .. Len(calls) : calls[i] \in Frames /\ FrameOK(calls[i])
BY DEF FramesOK, ProperFrames, Top

LEMMA ProperStacks ==
    ASSUME FramesOK, NEW f \in ProperFrames
    PROVE  /\ Append(calls, f) \in Seq(ProperFrames)
           /\ calls # <<>> => /\ [calls EXCEPT ![Len(calls)] = f] \in Seq(ProperFrames)
                              /\ SubSeq(calls, 1, Len(calls) - 1) \in Seq(ProperFrames)
<1>1. calls \in Seq(ProperFrames)
  BY DEF FramesOK
<1>2. Append(calls, f) \in Seq(ProperFrames)
  BY <1>1
<1>3. ASSUME calls # <<>> PROVE SubSeq(calls, 1, Len(calls) - 1) \in Seq(ProperFrames)
  BY <1>1, <1>3
<1>4. [calls EXCEPT ![Len(calls)] = f] \in Seq(ProperFrames)
  <2>1. Len(calls) \in Nat /\ calls \in [1 .. Len(calls) -> ProperFrames]
    BY <1>1
  <2>2. [calls EXCEPT ![Len(calls)] = f] \in [1 .. Len(calls) -> ProperFrames]
    BY <1>1, <2>1
  <2> QED
    BY <2>1, <2>2
<1> QED
  BY <1>2, <1>3, <1>4

\* The frames that operations begin with.
LEMMA CallProper ==
    ASSUME NEW op \in Ops, NEW b \in Blocks \cup {None},
           b = None <=> op \in Movers \cup {"unfreeze"}, op # "fuse"
    PROVE  Call(op, b) \in ProperFrames
<1>1. Call(op, b) \in Frames
  BY CallType
<1>2. FrameOK(Call(op, b))
  BY DEF FrameOK, Loose, Call, Movers
<1> QED
  BY <1>1, <1>2 DEF ProperFrames

LEMMA FuseProper ==
    ASSUME NEW b \in Blocks, NEW v \in Blocks, v # b
    PROVE  [Call("fuse", b) EXCEPT !.other = v] \in ProperFrames
<1>1. Call("fuse", b) \in Frames
  BY CallType DEF Ops
<1>2. [Call("fuse", b) EXCEPT !.other = v] \in Frames
  BY <1>1, FieldTypes, Blanks
<1>3. FrameOK([Call("fuse", b) EXCEPT !.other = v])
  BY DEF FrameOK, Loose, Call, Movers
<1> QED
  BY <1>2, <1>3 DEF ProperFrames

\* The details of what is asked are nobody's block; a scroll looks at cells later.
LEMMA DetailsProper ==
    ASSUME NEW f \in ProperFrames, f.phase = "pre",
           NEW type \in MgmtTypes \cup {"invalid"},
           NEW S \in SUBSET Positions, NEW G \in SUBSET Positions, NEW d \in Int \X Int,
           f.op = "insert" => S \subseteq Cells
    PROVE  /\ [f EXCEPT !.type = type, !.cells = S] \in ProperFrames
           /\ [f EXCEPT !.cells = S] \in ProperFrames
           /\ [f EXCEPT !.gone = S] \in ProperFrames
           /\ [f EXCEPT !.by = d] \in ProperFrames
           /\ [f EXCEPT !.cells = S, !.by = d] \in ProperFrames
           /\ [f EXCEPT !.gone = G, !.cells = S, !.by = d] \in ProperFrames
<1> DEFINE Same(g) == /\ g.op = f.op /\ g.phase = f.phase
                      /\ g.block = f.block /\ g.other = f.other
                      /\ g.cells \in {f.cells, S}
<1>1. f \in Frames /\ FrameOK(f)
  BY DEF ProperFrames
<1>2. ASSUME NEW g \in Frames, Same(g) PROVE g \in ProperFrames
  BY <1>1, <1>2 DEF FrameOK, Loose, ProperFrames
<1>3. /\ Same([f EXCEPT !.type = type, !.cells = S])
      /\ Same([f EXCEPT !.cells = S])
      /\ Same([f EXCEPT !.gone = S])
      /\ Same([f EXCEPT !.by = d])
      /\ Same([f EXCEPT !.cells = S, !.by = d])
      /\ Same([f EXCEPT !.gone = G, !.cells = S, !.by = d])
  BY <1>1 DEF Frames
<1> HIDE DEF Same
<1> QED
  BY <1>1, <1>2, <1>3, FieldTypes, Blanks

\* Who is asked to go, what has been asked, and who has been thawed.
LEMMA ScrollProper ==
    ASSUME NEW f \in ProperFrames, f.op = "scroll", NEW b \in Blocks \cup {None},
           NEW S \in SUBSET Positions
    PROVE  /\ f.phase = "pre" => [f EXCEPT !.phase = "loop", !.cells = S] \in ProperFrames
           /\ f.phase = "loop" => [f EXCEPT !.cells = S, !.other = None] \in ProperFrames
           /\ f.phase = "loop" /\ f.cells # {} => [f EXCEPT !.other = b] \in ProperFrames
<1>1. f \in Frames /\ FrameOK(f)
  BY DEF ProperFrames
<1>2. /\ [f EXCEPT !.phase = "loop", !.cells = S] \in Frames
      /\ [f EXCEPT !.cells = S, !.other = None] \in Frames
      /\ [f EXCEPT !.other = b] \in Frames
  BY <1>1, FieldTypes, Blanks
<1>3. f.phase = "pre" => FrameOK([f EXCEPT !.phase = "loop", !.cells = S])
  BY <1>1 DEF FrameOK, Loose, Frames, Movers
<1>4. f.phase = "loop" => FrameOK([f EXCEPT !.cells = S, !.other = None])
  BY <1>1 DEF FrameOK, Loose, Frames, Movers
<1>5. f.phase = "loop" /\ f.cells # {} => FrameOK([f EXCEPT !.other = b])
  BY <1>1 DEF FrameOK, Loose, Frames, Movers
<1> QED
  BY <1>2, <1>3, <1>4, <1>5 DEF ProperFrames

LEMMA ToldProper ==
    ASSUME NEW f \in ProperFrames, ~Loose(f), f.phase = "loop" => f.cells = {}
    PROVE  Told(f) \in ProperFrames
<1>1. f \in Frames /\ FrameOK(f)
  BY DEF ProperFrames
<1>2. Told(f) \in Frames
  BY <1>1, ToldType
<1>3. FrameOK(Told(f))
  BY <1>1, ToldType DEF FrameOK, Loose, Told, Frames
<1> QED
  BY <1>2, <1>3 DEF ProperFrames

LEMMA ThawedProper ==
    ASSUME NEW f \in ProperFrames, Loose(f), NEW b \in Blocks
    PROVE  Told([f EXCEPT !.block = b]) \in ProperFrames
<1>1. f \in Frames /\ FrameOK(f)
  BY DEF ProperFrames
<1>2. [f EXCEPT !.block = b] \in Frames
  BY <1>1, FieldTypes, Blanks
<1>3. Told([f EXCEPT !.block = b]) \in Frames
  BY <1>2, ToldType
<1>4. FrameOK(Told([f EXCEPT !.block = b]))
  BY <1>1, <1>2, ToldType DEF FrameOK, Loose, Frames, Movers
<1> QED
  BY <1>3, <1>4 DEF ProperFrames

LEMMA BeginProper ==
    ASSUME FramesOK, NEW f \in ProperFrames, Begin(f)
    PROVE  FramesOK'
BY ProperStacks DEF Begin, FramesOK

LEMMA DoneProper ==
    ASSUME FramesOK, NEW op \in Ops \ {"unfreeze"}, Does(op), Done(Top)
    PROVE  FramesOK'
<1>1. calls # <<>> /\ Top \in ProperFrames /\ ~Loose(Top) /\ Top.phase = "pre"
  BY ProperTop DEF Does, Loose
<1>2. Told(Top) \in ProperFrames
  BY <1>1, ToldProper
<1> QED
  BY <1>1, <1>2, ProperStacks DEF Done, FramesOK

LEMMA CarriedProper ==
    ASSUME TypeOK, NEW f \in ProperFrames, NEW d \in Int \X Int
    PROVE  Carried(f, d) \in ProperFrames
<1>1. CASE IsScrolled(f.block)
  <2> DEFINE C == Shifted(f.cells, d)
             G == Shifted(f.gone, d)
             g == [f EXCEPT !.cells = C, !.gone = G]
  <2>1. f \in Frames /\ FrameOK(f)
    BY DEF ProperFrames
  <2>2. C \in SUBSET Positions /\ G \in SUBSET Positions
    BY <2>1, FieldOfType, ShiftedType
  <2>3. g \in Frames
    BY <2>1, <2>2, FieldTypes, Blanks
  <2>4. f.block # None
    BY <1>1 DEF IsScrolled, TypeOK
  <2> HIDE DEF C, G
  <2>5. FrameOK(g)
    BY <2>1, <2>4 DEF FrameOK, Loose, Frames, Movers
  <2>6. Carried(f, d) = g
    BY <1>1, <2>1 DEF Carried, C, G, Frames
  <2> QED
    BY <2>3, <2>5, <2>6 DEF ProperFrames
<1>2. CASE ~IsScrolled(f.block)
  BY <1>2 DEF Carried
<1> QED
  BY <1>1, <1>2

\* A frame that looks at the cells of the board is a scroll's.
LEMMA LookingProper ==
    ASSUME FramesOK, Looking
    PROVE  /\ calls # <<>> /\ Top \in ProperFrames
           /\ Top.phase = "loop" /\ Top.op = "scroll" /\ Top.block = None
           /\ Top.cells \in SUBSET Positions /\ Top.by \in Int \X Int
<1>1. calls # <<>> /\ Top.phase = "loop"
  BY DEF Looking
<1>2. Top \in ProperFrames /\ Top \in Frames /\ FrameOK(Top)
  BY <1>1, ProperTop
<1> QED
  BY <1>1, <1>2, FieldOfType DEF FrameOK, Movers

LEMMA FramesStep == TypeOK /\ FramesOK /\ [Next]_vars => FramesOK'
<1> SUFFICES ASSUME TypeOK, FramesOK, [Next]_vars PROVE FramesOK'
  OBVIOUS
<1>0. CASE UNCHANGED calls
  BY <1>0 DEF FramesOK
<1>1. ASSUME NEW b \in Blocks, NEW type \in Types, NEW S \in Bodies, AddBegin(b, type, S)
      PROVE  FramesOK'
  BY <1>1, CallProper, BeginProper DEF AddBegin, Ops, Movers
<1>2. ASSUME AddDo \/ RemoveDo \/ FreezeDo \/ FuseDo \/ MoveDo \/ ModifyDo \/ DeleteDo \/ InsertDo
      PROVE  FramesOK'
  BY <1>2, DoneProper
     DEF AddDo, RemoveDo, FreezeDo, FuseDo, MoveDo, ModifyDo, DeleteDo, InsertDo, Ops
<1>3. ASSUME NEW type \in Types, NEW S \in Bodies, UnfreezeBegin(type, S) PROVE FramesOK'
  <2>1. /\ Call("unfreeze", None) \in ProperFrames
        /\ Call("unfreeze", None).phase = "pre" /\ Call("unfreeze", None).op # "insert"
    BY CallProper DEF Ops, Movers, Call
  <2>2. type \in MgmtTypes \cup {"invalid"} /\ S \in SUBSET Positions
    BY TypesAssumption, BodiesAssumption
  <2>3. [Call("unfreeze", None) EXCEPT !.type = type, !.cells = S] \in ProperFrames
    BY <2>1, <2>2, DetailsProper, Blanks
  <2> QED
    BY <1>3, <2>3, BeginProper DEF UnfreezeBegin
<1>4. ASSUME NEW b \in Blocks, UnfreezeDo(b) PROVE FramesOK'
  <2>1. calls # <<>> /\ Top \in ProperFrames /\ Loose(Top)
    BY <1>4, ProperTop DEF UnfreezeDo, Does, Loose
  <2>2. Told([Top EXCEPT !.block = b]) \in ProperFrames
    BY <2>1, ThawedProper
  <2>3. Done([Top EXCEPT !.block = b])
    BY <1>4 DEF UnfreezeDo
  <2> QED
    BY <2>1, <2>2, <2>3, ProperStacks DEF Done, FramesOK
<1>5. ASSUME NEW b \in Blocks, RemoveBegin(b) \/ FreezeBegin(b) PROVE FramesOK'
  BY <1>5, CallProper, BeginProper DEF RemoveBegin, FreezeBegin, Ops, Movers
<1>6. ASSUME NEW victim \in Blocks, NEW master \in Blocks, FuseBegin(victim, master)
      PROVE  FramesOK'
  BY <1>6, FuseProper, BeginProper DEF FuseBegin
<1>7. ASSUME NEW b \in Blocks, NEW S \in Bodies, MoveBegin(b, S) PROVE FramesOK'
  <2>1. /\ Call("move", b) \in ProperFrames
        /\ Call("move", b).phase = "pre" /\ Call("move", b).op # "insert"
    BY CallProper DEF Ops, Movers, Call
  <2>2. [Call("move", b) EXCEPT !.cells = S] \in ProperFrames
    BY <2>1, BodiesAssumption, DetailsProper, Blanks
  <2> QED
    BY <1>7, <2>2, BeginProper DEF MoveBegin
<1>8. ASSUME NEW b \in Blocks, NEW new \in Bodies, NEW gone \in SUBSET body[b], NEW d \in Shifts,
             ModifyBegin(b, gone, new, d)
      PROVE  FramesOK'
  <2>1. /\ Call("modify", b) \in ProperFrames
        /\ Call("modify", b).phase = "pre" /\ Call("modify", b).op # "insert"
    BY CallProper DEF Ops, Movers, Call
  <2>2. new \in SUBSET Positions /\ gone \in SUBSET Positions /\ d \in Int \X Int
    BY BodiesAssumption, ShiftsAssumption DEF TypeOK, Positions
  <2>3. [Call("modify", b) EXCEPT !.gone = gone, !.cells = new, !.by = d] \in ProperFrames
    BY <2>1, <2>2, DetailsProper, Blanks
  <2> QED
    BY <1>8, <2>3, BeginProper DEF ModifyBegin
<1>9. ASSUME NEW b \in Blocks, NEW q \in body[b], DeleteBegin(b, q) PROVE FramesOK'
  <2>1. /\ Call("delete", b) \in ProperFrames
        /\ Call("delete", b).phase = "pre" /\ Call("delete", b).op # "insert"
    BY CallProper DEF Ops, Movers, Call
  <2>2. {q} \in SUBSET Positions
    BY DEF TypeOK
  <2>3. [Call("delete", b) EXCEPT !.gone = {q}] \in ProperFrames
    BY <2>1, <2>2, DetailsProper, Blanks
  <2> QED
    BY <1>9, <2>3, BeginProper DEF DeleteBegin
<1>10. ASSUME NEW dir \in Directions, ScrollBegin(dir) PROVE FramesOK'
  <2>1. /\ Call("scroll", None) \in ProperFrames
        /\ Call("scroll", None).phase = "pre" /\ Call("scroll", None).op # "insert"
    BY CallProper DEF Ops, Movers, Call
  <2>2. [Call("scroll", None) EXCEPT !.by = Delta[dir]] \in ProperFrames
    BY <2>1, DirectionsAssumption, DeltaType, DetailsProper, Blanks
  <2> QED
    BY <1>10, <2>2, BeginProper DEF ScrollBegin
<1>11. ASSUME NEW insert \in Inserts, InsertBegin(insert[1], insert[2]) PROVE FramesOK'
  <2>1. Call("insert", None) \in ProperFrames /\ Call("insert", None).phase = "pre"
    BY CallProper DEF Ops, Movers, Call
  <2>2. /\ insert[1] \in SUBSET Positions /\ insert[1] \subseteq Cells
        /\ insert[2] \in DOMAIN Delta
    BY InsertsAssumption, CellsArePositions
  <2>3. [Call("insert", None) EXCEPT !.cells = insert[1], !.by = Delta[insert[2]]] \in ProperFrames
    BY <2>1, <2>2, DeltaType, DetailsProper, Blanks
  <2> QED
    BY <1>11, <2>3, BeginProper DEF InsertBegin
<1>12. ASSUME ScrollLooks PROVE FramesOK'
  <2>1. calls # <<>> /\ Top \in ProperFrames /\ Top.op = "scroll" /\ Top.phase = "pre"
    BY <1>12, ProperTop DEF ScrollLooks, Does
  <2>2. Leaving(Cells, Top.by) \in SUBSET Positions
    BY CellsArePositions DEF Leaving
  <2>3. [Top EXCEPT !.phase = "loop", !.cells = Leaving(Cells, Top.by)] \in ProperFrames
    BY <2>1, <2>2, ScrollProper, Blanks
  <2> QED
    BY <1>12, <2>1, <2>3, ProperStacks DEF ScrollLooks, FramesOK
<1>13. ASSUME ScrollPasses PROVE FramesOK'
  <2>1. PICK c \in Cells : calls' = [calls EXCEPT ![Len(calls)] = Passed(c)]
    BY <1>13 DEF ScrollPasses
  <2>2. Looking
    BY <1>13 DEF ScrollPasses
  <2>3. Top.cells \ {c} \in SUBSET Positions
    BY <2>2, LookingProper
  <2>4. Passed(c) \in ProperFrames
    BY <2>2, <2>3, LookingProper, ScrollProper, Blanks DEF Passed
  <2> QED
    BY <2>1, <2>2, <2>4, LookingProper, ProperStacks DEF FramesOK
<1>14. ASSUME NEW op \in {"freeze", "remove"}, ScrollAsks(op) PROVE FramesOK'
  <2>1. PICK c \in Cells :
          /\ IsNext(c) /\ owner[c] # None
          /\ calls' = Append([calls EXCEPT ![Len(calls)] = [Top EXCEPT !.other = owner[c]]],
                             Call(op, owner[c]))
    BY <1>14 DEF ScrollAsks
  <2>2. Looking
    BY <1>14 DEF ScrollAsks
  <2>3. owner[c] \in Blocks /\ Top.cells # {}
    BY <2>1 DEF IsNext, TypeOK
  <2>4. [Top EXCEPT !.other = owner[c]] \in ProperFrames
    BY <2>2, <2>3, LookingProper, ScrollProper, Blanks
  <2>5. Call(op, owner[c]) \in ProperFrames
    BY <2>3, CallProper DEF Ops, Movers
  <2>6. [calls EXCEPT ![Len(calls)] = [Top EXCEPT !.other = owner[c]]] \in Seq(ProperFrames)
    BY <2>2, <2>4, LookingProper, ProperStacks
  <2> QED
    BY <2>1, <2>5, <2>6 DEF FramesOK
<1>15. ASSUME ScrollGivesUp \/ Return PROVE FramesOK'
  <2>1. calls # <<>> /\ calls' = SubSeq(calls, 1, Len(calls) - 1)
    BY <1>15 DEF ScrollGivesUp, Return, Looking
  <2> QED
    BY <2>1, ProperTop, ProperStacks DEF FramesOK
<1>16. ASSUME ScrollDo PROVE FramesOK'
  <2>1. Looking /\ Top.cells = {}
    BY <1>16 DEF ScrollDo
  <2>2. /\ Len(calls) \in Nat /\ DOMAIN calls = 1 .. Len(calls)
        /\ \A i \in 1 .. Len(calls) : calls[i] \in ProperFrames
    BY <2>1, ProperTop, LookingProper DEF FramesOK
  <2>3. Told(Top) \in ProperFrames
    BY <2>1, LookingProper, ToldProper DEF Loose
  <2>4. calls' = [i \in 1 .. Len(calls) |-> IF i = Len(calls) THEN Told(Top)
                                            ELSE Carried(calls[i], Top.by)]
    BY <1>16, <2>2 DEF ScrollDo
  <2>5. \A i \in 1 .. Len(calls) : Carried(calls[i], Top.by) \in ProperFrames
    BY <2>1, <2>2, CarriedProper, LookingProper
  <2>6. calls' \in [1 .. Len(calls) -> ProperFrames]
    BY <2>3, <2>4, <2>5
  <2> QED
    BY <2>2, <2>6 DEF FramesOK
<1>17. ASSUME NEW c \in Cells, TileChanges(c) PROVE FramesOK'
  BY <1>0, <1>17 DEF TileChanges
<1> QED
  BY <1>0, <1>1, <1>2, <1>3, <1>4, <1>5, <1>6, <1>7, <1>8, <1>9, <1>10, <1>11, <1>12, <1>13,
     <1>14, <1>15, <1>16, <1>17 DEF Next, vars

-----------------------------------------------------------------------------
(* Types are kept. *)

\* What an operation that is about to be done knows of itself.
LEMMA DoesProper ==
    ASSUME FramesOK, NEW op \in Ops, Does(op)
    PROVE  /\ ~Lost /\ calls # <<>> /\ Top \in ProperFrames
           /\ Top.op = op /\ Top.phase = "pre"
           /\ Top.cells \in SUBSET Positions /\ Top.gone \in SUBSET Positions
           /\ Top.by \in Int \X Int /\ Top.type \in MgmtTypes \cup {"invalid"}
           /\ op \notin Movers \cup {"unfreeze"} => Top.block \in Blocks
           /\ op \in Movers \cup {"unfreeze"} => Top.block = None
           /\ op = "fuse" => Top.other \in Blocks \ {Top.block}
           /\ op # "fuse" => Top.other = None
<1>1. ~Lost /\ calls # <<>> /\ Top.op = op /\ Top.phase = "pre"
  BY DEF Does
<1>2. Top \in ProperFrames /\ Top \in Frames /\ FrameOK(Top)
  BY <1>1, ProperTop
<1> QED
  BY <1>1, <1>2, FieldOfType DEF FrameOK, Loose

LEMMA TakeOutTypes ==
    ASSUME TypeOK, NEW b \in Blocks, TakeOut(b)
    PROVE  /\ level' \subseteq Blocks
           /\ mgmt' \in [Blocks -> MgmtTypes \cup {"invalid"}]
           /\ \A v \in Blocks : Cleared(v) \in [Cells -> Blocks \cup {None}]
BY OwnersType DEF TypeOK, TakeOut, Cleared

LEMMA PlacedType ==
    ASSUME TypeOK, NEW b, NEW S, NEW type, Placed(b, S, type)
    PROVE  mishaps' \subseteq {"owners", "covered"}
BY DEF Placed, TypeOK

LEMMA TypeStep == TypeOK /\ FramesOK /\ [Next]_vars => TypeOK'
<1> SUFFICES ASSUME TypeOK, FramesOK, [Next]_vars PROVE TypeOK'
  OBVIOUS
<1>c. calls' \in Seq(Frames)
  <2>1. FramesOK'
    BY FramesStep
  <2> QED
    BY <2>1 DEF FramesOK, ProperFrames
<1>t. \A type \in Types : type \in MgmtTypes
  BY TypesAssumption
<1>b. \A S \in Bodies : S \in SUBSET Positions
  BY BodiesAssumption
<1>0. CASE UNCHANGED vars
  BY <1>0 DEF vars, TypeOK
<1>1. ASSUME NEW b \in Blocks, NEW type \in Types, NEW S \in Bodies, AddBegin(b, type, S)
      PROVE  TypeOK'
  BY <1>1, <1>c, <1>t, <1>b DEF AddBegin, TypeOK
<1>2. ASSUME AddDo PROVE TypeOK'
  <2>1. Top.block \in Blocks
    BY <1>2, DoesProper DEF AddDo, Ops, Movers
  <2> QED
    BY <1>2, <1>c, <2>1, OwnersType, PlacedType DEF AddDo, TypeOK
<1>3. ASSUME NEW type \in Types, NEW S \in Bodies, UnfreezeBegin(type, S) PROVE TypeOK'
  BY <1>3, <1>c DEF UnfreezeBegin, TypeOK
<1>4. ASSUME NEW b \in Blocks, UnfreezeDo(b) PROVE TypeOK'
  <2>1. Top.cells \in SUBSET Positions /\ Top.type \in MgmtTypes \cup {"invalid"}
    BY <1>4, DoesProper DEF UnfreezeDo, Ops
  <2> QED
    BY <1>4, <1>c, <2>1, OwnersType DEF UnfreezeDo, TypeOK
<1>5. ASSUME NEW b \in Blocks, RemoveBegin(b) \/ FreezeBegin(b) PROVE TypeOK'
  BY <1>5, <1>c DEF RemoveBegin, FreezeBegin, TypeOK
<1>6. ASSUME RemoveDo PROVE TypeOK'
  <2>1. Top.block \in Blocks
    BY <1>6, DoesProper DEF RemoveDo, Ops, Movers
  <2> QED
    BY <1>6, <1>c, <2>1, TakeOutTypes DEF RemoveDo, TypeOK
<1>7. ASSUME FreezeDo PROVE TypeOK'
  <2>1. Top.block \in Blocks
    BY <1>7, DoesProper DEF FreezeDo, Ops, Movers
  <2> QED
    BY <1>7, <1>c, <2>1, TakeOutTypes DEF FreezeDo, TypeOK
<1>8. ASSUME NEW victim \in Blocks, NEW master \in Blocks, FuseBegin(victim, master)
      PROVE  TypeOK'
  BY <1>8, <1>c DEF FuseBegin, TypeOK
<1>9. ASSUME FuseDo PROVE TypeOK'
  <2>1. Top.block \in Blocks /\ Top.other \in Blocks
    BY <1>9, DoesProper DEF FuseDo, Ops, Movers
  <2>2. TakeOut(Top.other)
    BY <1>9 DEF FuseDo
  <2>3. owner' \in [Cells -> Blocks \cup {None}]
    BY <1>9, <2>1 DEF FuseDo, TypeOK, Clear, Set
  <2> QED
    BY <1>9, <1>c, <2>1, <2>2, <2>3, TakeOutTypes DEF FuseDo, TypeOK
<1>10. ASSUME NEW b \in Blocks, NEW S \in Bodies, MoveBegin(b, S) PROVE TypeOK'
  BY <1>10, <1>c DEF MoveBegin, TypeOK
<1>11. ASSUME MoveDo PROVE TypeOK'
  <2>1. Top.block \in Blocks /\ Top.cells \in SUBSET Positions
    BY <1>11, DoesProper DEF MoveDo, Ops, Movers
  <2> QED
    BY <1>11, <1>c, <2>1, OwnersType, PlacedType DEF MoveDo, TypeOK
<1>12. ASSUME NEW b \in Blocks, NEW new \in Bodies, NEW gone \in SUBSET body[b], NEW d \in Shifts,
              ModifyBegin(b, gone, new, d)
       PROVE  TypeOK'
  BY <1>12, <1>c DEF ModifyBegin, TypeOK
<1>13. ASSUME ModifyDo PROVE TypeOK'
  <2>1. /\ Top.block \in Blocks /\ Top.cells \in SUBSET Positions
        /\ Top.by \in Int \X Int
    BY <1>13, DoesProper DEF ModifyDo, Ops, Movers
  <2>2. body[Top.block] \ Top.gone \in SUBSET Positions
    BY <2>1 DEF TypeOK
  <2>3. Shifted(body[Top.block] \ Top.gone, Top.by) \in SUBSET Positions
    BY <2>1, <2>2, ShiftedType
  <2> QED
    BY <1>13, <1>c, <2>1, <2>3, OwnersType DEF ModifyDo, TypeOK
<1>14. ASSUME NEW b \in Blocks, NEW q \in body[b], DeleteBegin(b, q) PROVE TypeOK'
  BY <1>14, <1>c DEF DeleteBegin, TypeOK
<1>15. ASSUME DeleteDo PROVE TypeOK'
  <2>1. Top.block \in Blocks
    BY <1>15, DoesProper DEF DeleteDo, Ops, Movers
  <2> QED
    BY <1>15, <1>c, <2>1, OwnersType DEF DeleteDo, TypeOK
<1>16. ASSUME NEW dir \in Directions, ScrollBegin(dir) PROVE TypeOK'
  BY <1>16, <1>c DEF ScrollBegin, TypeOK
<1>17. ASSUME NEW insert \in Inserts, InsertBegin(insert[1], insert[2]) PROVE TypeOK'
  BY <1>17, <1>c DEF InsertBegin, TypeOK
<1>18. CASE ScrollLooks \/ ScrollPasses
  BY <1>18, <1>c DEF ScrollLooks, ScrollPasses, TypeOK
<1>19. ASSUME NEW op \in {"freeze", "remove"}, ScrollAsks(op) PROVE TypeOK'
  BY <1>19, <1>c DEF ScrollAsks, TypeOK
<1>20. CASE ScrollGivesUp \/ Return
  BY <1>20, <1>c DEF ScrollGivesUp, Return, TypeOK
<1>21. ASSUME ScrollDo PROVE TypeOK'
  <2>1. Top.by \in Int \X Int
    BY <1>21, LookingProper DEF ScrollDo
  <2>2. owner' \in [Cells -> Blocks \cup {None}]
    BY <1>21 DEF ScrollDo, TypeOK, Entering
  <2>3. tiles' \subseteq Cells
    BY <1>21 DEF ScrollDo, Entering
  <2>4. \A b \in Blocks : Shifted(body[b], Top.by) \in SUBSET Positions
    BY <2>1, ShiftedType DEF TypeOK
  <2>5. body' \in [Blocks -> SUBSET Positions]
    BY <1>21, <2>4 DEF ScrollDo, TypeOK
  <2>6. mishaps' \subseteq {"owners", "covered"}
    BY <1>21 DEF ScrollDo, TypeOK
  <2> QED
    BY <1>21, <1>c, <2>2, <2>3, <2>5, <2>6 DEF ScrollDo, TypeOK
<1>22. ASSUME InsertDo PROVE TypeOK'
  <2>1. calls # <<>> /\ Top.op = "insert"
    BY <1>22 DEF InsertDo, Does
  <2>2. Top.cells \subseteq Cells
    BY <2>1, ProperTop DEF FrameOK
  <2> QED
    BY <1>22, <1>c, <2>2 DEF InsertDo, TilesChange, TypeOK, Entering
<1>23. ASSUME NEW c \in Cells, TileChanges(c) PROVE TypeOK'
  BY <1>23, <1>c DEF TileChanges, TilesChange, TypeOK
<1> QED
  BY <1>0, <1>1, <1>2, <1>3, <1>4, <1>5, <1>6, <1>7, <1>8, <1>9, <1>10, <1>11, <1>12, <1>13,
     <1>14, <1>15, <1>16, <1>17, <1>18, <1>19, <1>20, <1>21, <1>22, <1>23 DEF Next

-----------------------------------------------------------------------------
(* One scroll at a time. *)

\* The operations under way stay what they are.
SameOps ==
  /\ DOMAIN calls' = DOMAIN calls
  /\ \A i \in DOMAIN calls : calls'[i].op = calls[i].op

LEMMA SameOpsOneScroll ==
    ASSUME OneScroll, SameOps, UNCHANGED <<onlyModify, technical>>
    PROVE  OneScroll'
BY DEF OneScroll, SameOps

LEMMA DoneSameOps ==
    ASSUME FramesOK, calls # <<>>, NEW f \in Frames, f.op = Top.op, Done(f)
    PROVE  SameOps
<1>1. Told(f).op = f.op
  BY ToldType
<1>2. calls' = [calls EXCEPT ![Len(calls)] = Told(f)]
  BY DEF Done
<1> QED
  BY <1>1, <1>2, ProperTop DEF SameOps

LEMMA AppendFacts ==
    ASSUME NEW T, NEW s \in Seq(T), NEW f
    PROVE  LET c == Append(s, f)
           IN  /\ Len(s) \in Nat /\ DOMAIN s = 1 .. Len(s)
               /\ Len(c) = Len(s) + 1 /\ DOMAIN c = 1 .. Len(s) + 1
               /\ \A i \in 1 .. Len(s) : c[i] = s[i]
               /\ c[Len(s) + 1] = f
OBVIOUS

LEMMA BeginAppends ==
    ASSUME FramesOK, NEW f
    PROVE  LET c == Append(calls, f)
           IN  /\ Len(calls) \in Nat /\ DOMAIN calls = 1 .. Len(calls)
               /\ Len(c) = Len(calls) + 1 /\ DOMAIN c = 1 .. Len(calls) + 1
               /\ \A i \in 1 .. Len(calls) : c[i] = calls[i]
               /\ c[Len(calls) + 1] = f
BY DEF FramesOK

LEMMA PopShortens ==
    ASSUME FramesOK, calls # <<>>
    PROVE  LET c == SubSeq(calls, 1, Len(calls) - 1)
           IN  /\ DOMAIN c = 1 .. Len(calls) - 1 /\ Len(c) = Len(calls) - 1
               /\ \A i \in 1 .. Len(calls) - 1 : c[i] = calls[i]
<1>1. Len(calls) \in Nat \ {0} /\ DOMAIN calls = 1 .. Len(calls)
  BY ProperTop
<1>2. calls \in Seq(ProperFrames)
  BY DEF FramesOK
<1> QED
  BY <1>1, <1>2

\* An operation that moves no tiles by itself begins.
LEMMA BeginOneScroll ==
    ASSUME FramesOK, OneScroll, NEW f, f.op \notin Movers, calls' = Append(calls, f),
           UNCHANGED <<onlyModify, technical>>
    PROVE  OneScroll'
<1> DEFINE n == Len(calls)
<1>1. /\ n \in Nat /\ DOMAIN calls = 1 .. n /\ DOMAIN calls' = 1 .. n + 1
      /\ \A i \in 1 .. n : calls'[i] = calls[i]
      /\ calls'[n + 1] = f
  BY BeginAppends
<1> HIDE DEF n
<1>2. {i \in DOMAIN calls' : calls'[i].op \in Movers}
        = {i \in DOMAIN calls : calls[i].op \in Movers}
  <2>1. \A i \in 1 .. n + 1 : i \in 1 .. n \/ i = n + 1
    BY <1>1
  <2>2. 1 .. n \subseteq 1 .. n + 1
    BY <1>1
  <2> QED
    BY <1>1, <2>1, <2>2
<1> QED
  BY <1>2 DEF OneScroll

LEMMA MoverOneScroll ==
    ASSUME FramesOK, OneScroll, NEW f, f.op \in Movers, calls' = Append(calls, f),
           ~onlyModify, onlyModify' = TRUE, technical' = technical
    PROVE  OneScroll'
<1> DEFINE n == Len(calls)
<1>1. /\ n \in Nat /\ DOMAIN calls = 1 .. n /\ DOMAIN calls' = 1 .. n + 1
      /\ \A i \in 1 .. n : calls'[i] = calls[i]
      /\ calls'[n + 1] = f
  BY BeginAppends
<1>2. \A i \in 1 .. n : calls[i].op \notin Movers
  BY <1>1 DEF OneScroll
<1> HIDE DEF n
<1>3. \A i \in DOMAIN calls' : calls'[i].op \in Movers <=> i = n + 1
  BY <1>1, <1>2
<1>4. n + 1 \in DOMAIN calls'
  BY <1>1
<1> QED
  BY <1>3, <1>4 DEF OneScroll

LEMMA OneScrollStep == FramesOK /\ OneScroll /\ [Next]_vars => OneScroll'
<1> SUFFICES ASSUME FramesOK, OneScroll, [Next]_vars PROVE OneScroll'
  OBVIOUS
<1>0. CASE UNCHANGED <<calls, onlyModify, technical>>
  BY <1>0 DEF OneScroll
<1>a. ASSUME NEW f, Begin(f), f.op \notin Movers, UNCHANGED <<onlyModify, technical>>
      PROVE  OneScroll'
  BY <1>a, BeginOneScroll DEF Begin
<1>d. ASSUME NEW op \in Ops, Does(op), Done(Top), UNCHANGED <<onlyModify, technical>>
      PROVE  OneScroll'
  BY <1>d, ProperTop, DoneSameOps, SameOpsOneScroll DEF Does
<1>1. ASSUME NEW b \in Blocks, NEW type, NEW S, AddBegin(b, type, S) PROVE OneScroll'
  BY <1>1, <1>a DEF AddBegin, Call, Movers
<1>2. ASSUME NEW type, NEW S, UnfreezeBegin(type, S) PROVE OneScroll'
  BY <1>2, <1>a DEF UnfreezeBegin, Call, Movers
<1>3. ASSUME NEW b \in Blocks, RemoveBegin(b) \/ FreezeBegin(b) PROVE OneScroll'
  BY <1>3, <1>a DEF RemoveBegin, FreezeBegin, Call, Movers
<1>4. ASSUME NEW victim, NEW master, FuseBegin(victim, master) PROVE OneScroll'
  BY <1>4, <1>a DEF FuseBegin, Call, Movers
<1>5. ASSUME NEW b, NEW S, MoveBegin(b, S) PROVE OneScroll'
  BY <1>5, <1>a DEF MoveBegin, Call, Movers
<1>6. ASSUME NEW b, NEW gone, NEW new, NEW d, ModifyBegin(b, gone, new, d) PROVE OneScroll'
  BY <1>6, <1>a DEF ModifyBegin, Call, Movers
<1>7. ASSUME NEW b, NEW q, DeleteBegin(b, q) PROVE OneScroll'
  BY <1>7, <1>a DEF DeleteBegin, Call, Movers
<1>8. ASSUME AddDo \/ RemoveDo \/ FreezeDo \/ FuseDo \/ MoveDo \/ ModifyDo \/ DeleteDo \/ InsertDo
      PROVE  OneScroll'
  BY <1>8, <1>d DEF AddDo, RemoveDo, FreezeDo, FuseDo, MoveDo, ModifyDo, DeleteDo, InsertDo, Ops
<1>9. ASSUME NEW b \in Blocks, UnfreezeDo(b) PROVE OneScroll'
  <2>1. calls # <<>> /\ Top \in Frames
    BY <1>9, ProperTop DEF UnfreezeDo, Does
  <2>2. [Top EXCEPT !.block = b] \in Frames /\ [Top EXCEPT !.block = b].op = Top.op
    BY <2>1, FieldTypes, Blanks DEF Frames
  <2>3. Done([Top EXCEPT !.block = b]) /\ UNCHANGED <<onlyModify, technical>>
    BY <1>9 DEF UnfreezeDo
  <2> QED
    BY <2>1, <2>2, <2>3, DoneSameOps, SameOpsOneScroll
<1>10. ASSUME NEW dir, ScrollBegin(dir) PROVE OneScroll'
  <2> DEFINE f == [Call("scroll", None) EXCEPT !.by = Delta[dir]]
  <2>1. f.op \in Movers
    BY DEF Call, Movers
  <2> HIDE DEF f
  <2>2. calls' = Append(calls, f)
    BY <1>10 DEF ScrollBegin, Begin, f
  <2> QED
    BY <1>10, <2>1, <2>2, MoverOneScroll DEF ScrollBegin
<1>11. ASSUME NEW A, NEW dir, InsertBegin(A, dir) PROVE OneScroll'
  <2> DEFINE f == [Call("insert", None) EXCEPT !.cells = A, !.by = Delta[dir]]
  <2>1. f.op \in Movers
    BY DEF Call, Movers
  <2> HIDE DEF f
  <2>2. calls' = Append(calls, f)
    BY <1>11 DEF InsertBegin, Begin, f
  <2> QED
    BY <1>11, <2>1, <2>2, MoverOneScroll DEF InsertBegin
<1>12. ASSUME ScrollLooks \/ ScrollPasses PROVE OneScroll'
  <2>1. calls # <<>>
    BY <1>12 DEF ScrollLooks, ScrollPasses, Does, Looking
  <2>2. Top \in Frames /\ DOMAIN calls = 1 .. Len(calls) /\ Top = calls[Len(calls)]
    BY <2>1, ProperTop
  <2>3. PICK f : f.op = Top.op /\ calls' = [calls EXCEPT ![Len(calls)] = f]
    <3>1. [Top EXCEPT !.phase = "loop", !.cells = Leaving(Cells, Top.by)].op = Top.op
      BY <2>2 DEF Frames
    <3>2. \A c : Passed(c).op = Top.op
      BY <2>2 DEF Frames, Passed
    <3> QED
      BY <1>12, <3>1, <3>2 DEF ScrollLooks, ScrollPasses
  <2>4. SameOps
    BY <2>2, <2>3 DEF SameOps
  <2> QED
    BY <1>12, <2>4, SameOpsOneScroll DEF ScrollLooks, ScrollPasses
<1>13. ASSUME NEW op \in {"freeze", "remove"}, ScrollAsks(op) PROVE OneScroll'
  <2>1. PICK c \in Cells :
          /\ calls' = Append([calls EXCEPT ![Len(calls)] = [Top EXCEPT !.other = owner[c]]],
                             Call(op, owner[c]))
    BY <1>13 DEF ScrollAsks
  <2>2. /\ Top \in Frames /\ DOMAIN calls = 1 .. Len(calls) /\ Top = calls[Len(calls)]
        /\ Len(calls) \in Nat \ {0}
    BY <1>13, ProperTop DEF ScrollAsks, Looking
  <2> DEFINE n == Len(calls)
             half == [calls EXCEPT ![n] = [Top EXCEPT !.other = owner[c]]]
  <2>3. half \in Seq(Frames \cup {[Top EXCEPT !.other = owner[c]]}) /\ Len(half) = n
    <3>1. \A i \in 1 .. n : half[i] \in Frames \cup {[Top EXCEPT !.other = owner[c]]}
      BY <2>2, ProperTop, <1>13 DEF ScrollAsks, Looking
    <3>2. half \in [1 .. n -> Frames \cup {[Top EXCEPT !.other = owner[c]]}]
      BY <2>2, <3>1
    <3> QED
      BY <2>2, <3>2
  <2>4. \A i \in 1 .. n : half[i].op = calls[i].op
    BY <2>2 DEF Frames
  <2>h. calls' = Append(half, Call(op, owner[c]))
    BY <2>1
  <2>n. n \in Nat /\ DOMAIN calls = 1 .. n
    BY <2>2
  <2> HIDE DEF half, n
  <2>5. /\ DOMAIN calls' = 1 .. n + 1
        /\ \A i \in 1 .. n : calls'[i] = half[i]
        /\ calls'[n + 1] = Call(op, owner[c])
    BY <2>3, <2>h, AppendFacts
  <2>6. calls'[n + 1].op \notin Movers
    BY <2>5 DEF Call, Movers
  <2>7. {i \in DOMAIN calls' : calls'[i].op \in Movers}
          = {i \in DOMAIN calls : calls[i].op \in Movers}
    <3>1. \A i \in 1 .. n + 1 : i \in 1 .. n \/ i = n + 1
      BY <2>n
    <3>2. 1 .. n \subseteq 1 .. n + 1
      BY <2>n
    <3>3. \A i \in 1 .. n : calls'[i].op = calls[i].op
      BY <2>4, <2>5
    <3> QED
      BY <2>n, <2>5, <2>6, <3>1, <3>2, <3>3
  <2> QED
    BY <1>13, <2>7 DEF OneScroll, ScrollAsks
<1>14. ASSUME ScrollGivesUp PROVE OneScroll'
  <2>1. calls # <<>> /\ calls' = SubSeq(calls, 1, Len(calls) - 1)
    BY <1>14 DEF ScrollGivesUp, Looking
  <2>2. /\ \A i \in DOMAIN calls' : i \in DOMAIN calls /\ calls'[i] = calls[i]
        /\ technical' /\ onlyModify' = onlyModify
    BY <1>14, <2>1, PopShortens, ProperTop DEF ScrollGivesUp
  <2> QED
    BY <2>2 DEF OneScroll
<1>15. ASSUME Return PROVE OneScroll'
  <2>1. calls # <<>> /\ calls' = SubSeq(calls, 1, Len(calls) - 1)
    BY <1>15 DEF Return
  <2>2. /\ Len(calls) \in Nat \ {0} /\ DOMAIN calls = 1 .. Len(calls) /\ Top = calls[Len(calls)]
        /\ DOMAIN calls' = 1 .. Len(calls) - 1
        /\ \A i \in 1 .. Len(calls) - 1 : calls'[i] = calls[i]
    BY <2>1, PopShortens, ProperTop
  <2> DEFINE n == Len(calls)
  <2> HIDE DEF n
  <2>3. \A i \in DOMAIN calls' : i \in DOMAIN calls /\ i # n /\ calls'[i] = calls[i]
    BY <2>2 DEF n
  <2>4. \A i \in DOMAIN calls : i # n => i \in DOMAIN calls' /\ calls'[i] = calls[i]
    BY <2>2 DEF n
  <2>5. n \in DOMAIN calls /\ Top = calls[n]
    BY <2>2 DEF n
  <2>6. CASE Top.op \in Movers
    <3>1. \A i \in DOMAIN calls' : calls'[i].op \notin Movers
      BY <2>3, <2>5, <2>6 DEF OneScroll
    <3>2. ~onlyModify'
      BY <1>15, <2>6 DEF Return
    <3> QED
      BY <3>1, <3>2 DEF OneScroll
  <2>7. CASE Top.op \notin Movers
    <3>1. {i \in DOMAIN calls' : calls'[i].op \in Movers}
            = {i \in DOMAIN calls : calls[i].op \in Movers}
      BY <2>3, <2>4, <2>5, <2>7
    <3>2. (onlyModify' <=> onlyModify) /\ technical' = technical
      BY <1>15, <2>7 DEF Return
    <3> QED
      BY <3>1, <3>2 DEF OneScroll
  <2> QED
    BY <2>6, <2>7
<1>16. ASSUME ScrollDo PROVE OneScroll'
  <2>1. calls # <<>> /\ Top \in Frames
    BY <1>16, ProperTop DEF ScrollDo, Looking
  <2>2. \A i \in DOMAIN calls : Carried(calls[i], Top.by).op = calls[i].op
    BY <2>1, ProperTop DEF Carried, Frames
  <2>3. SameOps
    BY <1>16, <2>1, <2>2, ToldType, ProperTop DEF ScrollDo, SameOps
  <2> QED
    BY <1>16, <2>3, SameOpsOneScroll DEF ScrollDo
<1>17. ASSUME NEW c, TileChanges(c) PROVE OneScroll'
  BY <1>0, <1>17 DEF TileChanges
<1> QED
  BY <1>0, <1>1, <1>2, <1>3, <1>4, <1>5, <1>6, <1>7, <1>8, <1>9, <1>10, <1>11, <1>12, <1>13,
     <1>14, <1>15, <1>16, <1>17 DEF Next, vars

-----------------------------------------------------------------------------
(* Operations and locks.  Whatever happens inside an operation happens to  *)
(* other blocks, those it has not locked.                                  *)

Fits(c, locks, lev, bricks) ==
  /\ locks = UNION {Involved(c[i]) : i \in DOMAIN c}
  /\ \A i, j \in DOMAIN c : i # j => Involved(c[i]) \cap Involved(c[j]) = {}
  /\ \A i \in DOMAIN c : Ready(c[i], lev, bricks)

\* The level and the blocks are as before, but for the blocks X.
SameBut(X, lev, bricks, lev2, bricks2) ==
  lev \ X = lev2 \ X /\ \A b \in Blocks \ X : bricks2[b] = bricks[b]

LEMMA ReadyElsewhere ==
    ASSUME NEW f \in ProperFrames, NEW X, Involved(f) \cap X = {},
           NEW lev, NEW bricks, NEW lev2, NEW bricks2,
           SameBut(X, lev, bricks, lev2, bricks2), Ready(f, lev, bricks)
    PROVE  Ready(f, lev2, bricks2)
<1>1. f \in Frames /\ FrameOK(f)
  BY DEF ProperFrames
<1>2. Involved(f) \subseteq lev => Involved(f) \subseteq lev2
  BY DEF SameBut
<1>3. f.op \in {"add", "modify", "delete"} => f.block \in Involved(f) /\ f.block \in Blocks
  BY <1>1 DEF FrameOK, Loose, Movers, Involved, Frames
<1>4. f.op = "add" /\ f.block \notin lev => f.block \notin lev2
  BY <1>3 DEF SameBut
<1>5. f.op \in {"modify", "delete"} => bricks2[f.block] = bricks[f.block]
  BY <1>3 DEF SameBut
<1> QED
  BY <1>2, <1>4, <1>5 DEF Ready

LEMMA InvolvedLocked ==
    ASSUME NEW c, NEW locks, NEW lev, NEW bricks, Fits(c, locks, lev, bricks), NEW i \in DOMAIN c
    PROVE  Involved(c[i]) \subseteq locks
BY DEF Fits

LEMMA PushFits ==
    ASSUME NEW c \in Seq(ProperFrames), NEW f \in ProperFrames, NEW X,
           NEW locks, NEW lev, NEW bricks, NEW lev2, NEW bricks2,
           Fits(c, locks, lev, bricks), SameBut(X, lev, bricks, lev2, bricks2),
           X \cap locks = {}, Involved(f) \cap locks = {}, Ready(f, lev2, bricks2)
    PROVE  Fits(Append(c, f), locks \cup Involved(f), lev2, bricks2)
<1> DEFINE n == Len(c)
           d == Append(c, f)
<1>1. /\ n \in Nat /\ DOMAIN c = 1 .. n /\ DOMAIN d = 1 .. n + 1
      /\ \A i \in 1 .. n : d[i] = c[i]
      /\ d[n + 1] = f
  BY AppendFacts
<1>2. \A i \in 1 .. n : c[i] \in ProperFrames
  OBVIOUS
<1>3. \A i \in 1 .. n + 1 : i \in 1 .. n \/ i = n + 1
  BY <1>1
<1>4. 1 .. n \subseteq 1 .. n + 1 /\ n + 1 \in 1 .. n + 1
  BY <1>1
<1> HIDE DEF n, d
<1>5. \A i \in 1 .. n : Involved(c[i]) \subseteq locks
  BY <1>1, InvolvedLocked
<1>6. locks \cup Involved(f) = UNION {Involved(d[i]) : i \in DOMAIN d}
  <2>1. locks = UNION {Involved(c[i]) : i \in 1 .. n}
    BY <1>1 DEF Fits
  <2>2. ASSUME NEW x \in locks PROVE \E i \in 1 .. n + 1 : x \in Involved(d[i])
    BY <2>1, <2>2, <1>1, <1>4
  <2>3. Involved(f) = Involved(d[n + 1])
    BY <1>1
  <2>4. ASSUME NEW i \in 1 .. n + 1 PROVE Involved(d[i]) \subseteq locks \cup Involved(f)
    BY <1>1, <1>3, <1>5
  <2> QED
    BY <1>1, <1>4, <2>2, <2>3, <2>4
<1>7. ASSUME NEW i \in DOMAIN d, NEW j \in DOMAIN d, i # j
      PROVE  Involved(d[i]) \cap Involved(d[j]) = {}
  <2>1. CASE i \in 1 .. n /\ j \in 1 .. n
    BY <1>1, <1>7, <2>1 DEF Fits
  <2>2. CASE i = n + 1 /\ j \in 1 .. n
    BY <1>1, <1>5, <2>2
  <2>3. CASE j = n + 1 /\ i \in 1 .. n
    BY <1>1, <1>5, <2>3
  <2> QED
    BY <1>1, <1>3, <1>7, <2>1, <2>2, <2>3
<1>8. ASSUME NEW i \in DOMAIN d PROVE Ready(d[i], lev2, bricks2)
  <2>1. CASE i \in 1 .. n
    <3>1. Involved(c[i]) \cap X = {} /\ Ready(c[i], lev, bricks)
      BY <1>1, <1>5, <2>1 DEF Fits
    <3>2. Ready(c[i], lev2, bricks2)
      BY <1>2, <2>1, <3>1, ReadyElsewhere
    <3> QED
      BY <1>1, <2>1, <3>2
  <2> QED
    BY <1>1, <1>3, <2>1
<1>9. Fits(d, locks \cup Involved(f), lev2, bricks2)
  BY <1>6, <1>7, <1>8 DEF Fits
<1> QED
  BY <1>9 DEF d

LEMMA TopFits ==
    ASSUME NEW c \in Seq(ProperFrames), c # <<>>, NEW f \in ProperFrames, NEW X,
           NEW locks, NEW lev, NEW bricks, NEW lev2, NEW bricks2,
           Fits(c, locks, lev, bricks), f.phase # "pre",
           Involved(f) = Involved(c[Len(c)]) \cup X, X \cap locks = {},
           SameBut(Involved(f), lev, bricks, lev2, bricks2)
    PROVE  Fits([c EXCEPT ![Len(c)] = f], locks \cup X, lev2, bricks2)
<1> DEFINE n == Len(c)
           d == [c EXCEPT ![n] = f]
<1>1. /\ n \in Nat \ {0} /\ DOMAIN c = 1 .. n /\ DOMAIN d = DOMAIN c /\ n \in DOMAIN c
      /\ \A i \in DOMAIN c : i # n => d[i] = c[i]
      /\ d[n] = f
  OBVIOUS
<1>2. \A i \in DOMAIN c : c[i] \in ProperFrames
  OBVIOUS
<1>a. Involved(f) = Involved(c[n]) \cup X
  OBVIOUS
<1> HIDE DEF n, d
<1>5. \A i \in DOMAIN c : Involved(c[i]) \subseteq locks
  BY InvolvedLocked
<1>o. ASSUME NEW i \in DOMAIN c, i # n PROVE Involved(c[i]) \cap Involved(f) = {}
  <2>1. Involved(c[i]) \cap Involved(c[n]) = {}
    BY <1>1, <1>o DEF Fits
  <2> QED
    BY <1>5, <1>a, <2>1
<1>6. locks \cup X = UNION {Involved(d[i]) : i \in DOMAIN d}
  <2>1. locks = UNION {Involved(c[i]) : i \in DOMAIN c}
    BY DEF Fits
  <2>2. ASSUME NEW x \in locks PROVE \E i \in DOMAIN c : x \in Involved(d[i])
    <3>1. PICK i \in DOMAIN c : x \in Involved(c[i])
      BY <2>1, <2>2
    <3> QED
      BY <1>1, <1>a, <3>1
  <2>3. X \subseteq Involved(d[n])
    BY <1>1, <1>a
  <2>4. ASSUME NEW i \in DOMAIN c PROVE Involved(d[i]) \subseteq locks \cup X
    BY <1>1, <1>5, <1>a
  <2> QED
    BY <1>1, <2>2, <2>3, <2>4
<1>7. ASSUME NEW i \in DOMAIN d, NEW j \in DOMAIN d, i # j
      PROVE  Involved(d[i]) \cap Involved(d[j]) = {}
  <2>1. CASE i # n /\ j # n
    BY <1>1, <1>7, <2>1 DEF Fits
  <2>2. CASE i = n
    BY <1>1, <1>7, <1>o, <2>2
  <2>3. CASE j = n
    BY <1>1, <1>7, <1>o, <2>3
  <2> QED
    BY <2>1, <2>2, <2>3
<1>8. ASSUME NEW i \in DOMAIN d PROVE Ready(d[i], lev2, bricks2)
  <2>1. CASE i # n
    <3>1. Involved(c[i]) \cap Involved(f) = {} /\ Ready(c[i], lev, bricks)
      BY <1>1, <1>o, <2>1 DEF Fits
    <3>2. Ready(c[i], lev2, bricks2)
      BY <1>1, <1>2, <3>1, ReadyElsewhere
    <3> QED
      BY <1>1, <2>1, <3>2
  <2>2. CASE i = n
    BY <1>1, <2>2 DEF Ready
  <2> QED
    BY <2>1, <2>2
<1>9. Fits(d, locks \cup X, lev2, bricks2)
  BY <1>6, <1>7, <1>8 DEF Fits
<1> QED
  BY <1>9 DEF d, n

LEMMA PopFits ==
    ASSUME NEW c \in Seq(ProperFrames), c # <<>>, NEW locks, NEW lev, NEW bricks,
           Fits(c, locks, lev, bricks)
    PROVE  Fits(SubSeq(c, 1, Len(c) - 1), locks \ Involved(c[Len(c)]), lev, bricks)
<1> DEFINE n == Len(c)
           d == SubSeq(c, 1, n - 1)
<1>1. /\ n \in Nat \ {0} /\ DOMAIN c = 1 .. n /\ DOMAIN d = 1 .. n - 1
      /\ \A i \in 1 .. n - 1 : d[i] = c[i]
  OBVIOUS
<1> HIDE DEF n, d
<1>2. /\ n \in DOMAIN c
      /\ \A i \in DOMAIN c : i # n => i \in DOMAIN d
      /\ \A i \in DOMAIN d : i \in DOMAIN c /\ i # n /\ d[i] = c[i]
  BY <1>1
<1>3. locks \ Involved(c[n]) = UNION {Involved(d[i]) : i \in DOMAIN d}
  <2>1. locks = UNION {Involved(c[i]) : i \in DOMAIN c}
    BY DEF Fits
  <2>2. ASSUME NEW x \in locks \ Involved(c[n]) PROVE \E i \in DOMAIN d : x \in Involved(d[i])
    <3>1. PICK i \in DOMAIN c : x \in Involved(c[i])
      BY <2>1, <2>2
    <3> QED
      BY <1>2, <2>2, <3>1
  <2>3. ASSUME NEW i \in DOMAIN d PROVE Involved(d[i]) \subseteq locks \ Involved(c[n])
    <3>1. Involved(c[i]) \cap Involved(c[n]) = {}
      BY <1>2 DEF Fits
    <3> QED
      BY <1>2, <2>1, <3>1
  <2> QED
    BY <2>2, <2>3
<1>4. /\ \A i, j \in DOMAIN d : i # j => Involved(d[i]) \cap Involved(d[j]) = {}
      /\ \A i \in DOMAIN d : Ready(d[i], lev, bricks)
  BY <1>2 DEF Fits
<1>5. Fits(d, locks \ Involved(c[n]), lev, bricks)
  BY <1>3, <1>4 DEF Fits
<1> QED
  BY <1>5 DEF d, n

\* What is pushed, or put on top, is a frame as it should be.
LEMMA PushedProper ==
    ASSUME FramesOK, FramesOK', NEW f, calls' = Append(calls, f)
    PROVE  f \in ProperFrames
<1>1. /\ Len(calls) \in Nat /\ DOMAIN calls' = 1 .. Len(calls) + 1
      /\ calls'[Len(calls) + 1] = f
  BY BeginAppends
<1>2. \A i \in DOMAIN calls' : calls'[i] \in ProperFrames
  BY DEF FramesOK
<1> QED
  BY <1>1, <1>2

LEMMA ToppedProper ==
    ASSUME FramesOK, FramesOK', calls # <<>>, NEW f, calls' = [calls EXCEPT ![Len(calls)] = f]
    PROVE  f \in ProperFrames
<1>1. Len(calls) \in DOMAIN calls'
  BY ProperTop
<1>2. calls'[Len(calls)] = f
  BY <1>1, ProperTop
<1>3. \A i \in DOMAIN calls' : calls'[i] \in ProperFrames
  BY DEF FramesOK
<1> QED
  BY <1>1, <1>2, <1>3

AllFit == Fits(calls, locked, level, body)

LEMMA BeginFits ==
    ASSUME FramesOK, FramesOK', AllFit, NEW f, calls' = Append(calls, f), NEW X,
           SameBut(X, level, body, level', body'), X \cap locked = {},
           Involved(f) \cap locked = {}, locked' = locked \cup Involved(f),
           Ready(f, level', body')
    PROVE  AllFit'
<1>1. f \in ProperFrames /\ calls \in Seq(ProperFrames)
  BY PushedProper DEF FramesOK
<1> QED
  BY <1>1, PushFits DEF AllFit

\* An operation is done and changes nothing but its own blocks.
LEMMA DoneFits ==
    ASSUME FramesOK, FramesOK', AllFit, NEW op \in Ops \ {"unfreeze"}, Does(op), Done(Top),
           locked' = locked, SameBut(Involved(Top), level, body, level', body')
    PROVE  AllFit'
<1>1. /\ calls # <<>> /\ Top \in Frames /\ calls \in Seq(ProperFrames) /\ Top = calls[Len(calls)]
      /\ calls' = [calls EXCEPT ![Len(calls)] = Told(Top)]
  BY ProperTop DEF Does, Done, FramesOK
<1>2. Told(Top) \in ProperFrames
  BY <1>1, ToppedProper
<1>3. Involved(Told(Top)) = Involved(Top) \cup {} /\ Told(Top).phase # "pre"
  BY <1>1, ToldType DEF Involved
<1>4. Fits([calls EXCEPT ![Len(calls)] = Told(Top)], locked \cup {}, level', body')
  BY <1>1, <1>2, <1>3, TopFits DEF AllFit
<1> QED
  BY <1>1, <1>4 DEF AllFit

\* The blocks of an operation that is about to be done are where it needs them.
LEMMA DoesInvolves ==
    ASSUME FramesOK, AllFit, NEW op \in Ops \ {"scroll"}, Does(op)
    PROVE  /\ Involved(Top) = {Top.block, Top.other} \ {None}
           /\ Ready(Top, level, body)
           /\ Involved(Top) \subseteq locked
<1>1. calls # <<>> /\ Top.op = op
  BY DEF Does
<1>2. Len(calls) \in DOMAIN calls /\ Top = calls[Len(calls)]
  BY <1>1, ProperTop
<1> QED
  BY <1>1, <1>2 DEF Involved, AllFit, Fits

LEMMA FitsStep == TypeOK /\ FramesOK /\ AllFit /\ OwnersMatch /\ [Next]_vars => AllFit'
<1> SUFFICES ASSUME TypeOK, FramesOK, AllFit, OwnersMatch, [Next]_vars PROVE AllFit'
  OBVIOUS
<1>f. FramesOK'
  BY FramesStep
<1>n. None \notin locked /\ \A b \in Blocks : b # None
  BY DEF TypeOK
<1>0. CASE UNCHANGED <<calls, locked, level, body>>
  BY <1>0 DEF AllFit
<1>s. SameBut({}, level, body, level, body)
  BY DEF SameBut
<1>1. ASSUME NEW b \in Blocks, NEW type, NEW S, AddBegin(b, type, S) PROVE AllFit'
  <2> DEFINE f == Call("add", b)
  <2>1. Involved(f) = {b} /\ Ready(f, level, body') /\ f.block = b
    BY <1>1, <1>n DEF Involved, Ready, Call, AddBegin
  <2>2. SameBut({b}, level, body, level', body')
    BY <1>1 DEF AddBegin, SameBut, TypeOK
  <2>3. calls' = Append(calls, f) /\ {b} \cap locked = {} /\ locked' = locked \cup {b}
        /\ level' = level
    BY <1>1 DEF AddBegin, Begin
  <2> HIDE DEF f
  <2> QED
    BY <1>f, <2>1, <2>2, <2>3, BeginFits
<1>2. ASSUME NEW type, NEW S, UnfreezeBegin(type, S) PROVE AllFit'
  <2> DEFINE f == [Call("unfreeze", None) EXCEPT !.type = type, !.cells = S]
  <2>1. Involved(f) = {} /\ Ready(f, level, body)
    BY DEF Involved, Ready, Call
  <2>2. /\ calls' = Append(calls, f) /\ locked' = locked \cup {}
        /\ level' = level /\ body' = body
    BY <1>2 DEF UnfreezeBegin, Begin
  <2> HIDE DEF f
  <2> QED
    BY <1>f, <1>s, <2>1, <2>2, BeginFits
<1>3. ASSUME NEW b \in Blocks, NEW op \in {"remove", "freeze"}, CanChange(b), Begin(Call(op, b)),
             locked' = locked \cup {b}, UNCHANGED <<level, body>>
      PROVE  AllFit'
  <2> DEFINE f == Call(op, b)
  <2>1. Involved(f) = {b} /\ Ready(f, level, body)
    BY <1>3, <1>n DEF Involved, Ready, Call, CanChange
  <2>2. calls' = Append(calls, f) /\ {b} \cap locked = {} /\ level' = level /\ body' = body
    BY <1>3 DEF Begin, CanChange
  <2> HIDE DEF f
  <2> QED
    BY <1>f, <1>s, <1>3, <2>1, <2>2, BeginFits
<1>4. ASSUME NEW victim \in Blocks, NEW master \in Blocks, FuseBegin(victim, master) PROVE AllFit'
  <2> DEFINE f == [Call("fuse", master) EXCEPT !.other = victim]
  <2>1. Involved(f) = {master, victim} /\ Ready(f, level, body)
    BY <1>4, <1>n DEF Involved, Ready, Call, CanChange, FuseBegin
  <2>2. /\ calls' = Append(calls, f) /\ {master, victim} \cap locked = {}
        /\ locked' = locked \cup {master, victim} /\ level' = level /\ body' = body
    BY <1>4 DEF Begin, CanChange, FuseBegin
  <2> HIDE DEF f
  <2> QED
    BY <1>f, <1>s, <2>1, <2>2, BeginFits
<1>5. ASSUME NEW b \in Blocks, NEW S, MoveBegin(b, S) PROVE AllFit'
  <2> DEFINE f == [Call("move", b) EXCEPT !.cells = S]
  <2>1. Involved(f) = {b} /\ Ready(f, level, body)
    BY <1>5, <1>n DEF Involved, Ready, Call, CanChange, MoveBegin
  <2>2. /\ calls' = Append(calls, f) /\ {b} \cap locked = {}
        /\ locked' = locked \cup {b} /\ level' = level /\ body' = body
    BY <1>5 DEF Begin, CanChange, MoveBegin
  <2> HIDE DEF f
  <2> QED
    BY <1>f, <1>s, <2>1, <2>2, BeginFits
<1>6. ASSUME NEW b \in Blocks, NEW new, NEW gone, NEW d, ModifyBegin(b, gone, new, d) PROVE AllFit'
  <2> DEFINE f == [Call("modify", b) EXCEPT !.gone = gone, !.cells = new, !.by = d]
  <2>1. Involved(f) = {b} /\ Ready(f, level, body)
    BY <1>6, <1>n DEF Involved, Ready, Call, CanChange, ModifyBegin
  <2>2. /\ calls' = Append(calls, f) /\ {b} \cap locked = {}
        /\ locked' = locked \cup {b} /\ level' = level /\ body' = body
    BY <1>6 DEF Begin, CanChange, ModifyBegin
  <2> HIDE DEF f
  <2> QED
    BY <1>f, <1>s, <2>1, <2>2, BeginFits
<1>7. ASSUME NEW b \in Blocks, NEW q, DeleteBegin(b, q) PROVE AllFit'
  <2> DEFINE f == [Call("delete", b) EXCEPT !.gone = {q}]
  <2>1. Involved(f) = {b} /\ Ready(f, level, body)
    BY <1>7, <1>n DEF Involved, Ready, Call, CanChange, DeleteBegin
  <2>2. /\ calls' = Append(calls, f) /\ {b} \cap locked = {}
        /\ locked' = locked \cup {b} /\ level' = level /\ body' = body
    BY <1>7 DEF Begin, CanChange, DeleteBegin
  <2> HIDE DEF f
  <2> QED
    BY <1>f, <1>s, <2>1, <2>2, BeginFits
<1>8. ASSUME NEW dir, ScrollBegin(dir) PROVE AllFit'
  <2> DEFINE f == [Call("scroll", None) EXCEPT !.by = Delta[dir]]
  <2>1. Involved(f) = {} /\ Ready(f, level, body)
    BY DEF Involved, Ready, Call
  <2>2. /\ calls' = Append(calls, f) /\ locked' = locked \cup {}
        /\ level' = level /\ body' = body
    BY <1>8 DEF ScrollBegin, Begin
  <2> HIDE DEF f
  <2> QED
    BY <1>f, <1>s, <2>1, <2>2, BeginFits
<1>9. ASSUME NEW A, NEW dir, InsertBegin(A, dir) PROVE AllFit'
  <2> DEFINE f == [Call("insert", None) EXCEPT !.cells = A, !.by = Delta[dir]]
  <2>1. Involved(f) = {} /\ Ready(f, level, body)
    BY DEF Involved, Ready, Call
  <2>2. /\ calls' = Append(calls, f) /\ locked' = locked \cup {}
        /\ level' = level /\ body' = body
    BY <1>9 DEF InsertBegin, Begin
  <2> HIDE DEF f
  <2> QED
    BY <1>f, <1>s, <2>1, <2>2, BeginFits
<1>10. ASSUME AddDo \/ RemoveDo \/ FreezeDo \/ MoveDo \/ ModifyDo \/ DeleteDo PROVE AllFit'
  <2>1. PICK op \in {"add", "remove", "freeze", "move", "modify", "delete"} : Does(op)
    BY <1>10 DEF AddDo, RemoveDo, FreezeDo, MoveDo, ModifyDo, DeleteDo
  <2>2. Top.block \in Blocks /\ Top.other = None
    BY <2>1, DoesProper DEF Ops, Movers
  <2>3. Involved(Top) = {Top.block}
    BY <2>1, <2>2, <1>n, DoesInvolves DEF Ops
  <2>4. Done(Top) /\ locked' = locked
    BY <1>10 DEF AddDo, RemoveDo, FreezeDo, MoveDo, ModifyDo, DeleteDo
  <2>5. SameBut({Top.block}, level, body, level', body')
    BY <1>10, <2>2 DEF AddDo, RemoveDo, FreezeDo, MoveDo, ModifyDo, DeleteDo, TakeOut,
                          SameBut, TypeOK
  <2> QED
    BY <1>f, <2>1, <2>3, <2>4, <2>5, DoneFits DEF Ops
<1>11. ASSUME FuseDo PROVE AllFit'
  <2>1. Does("fuse") /\ Done(Top) /\ locked' = locked
    BY <1>11 DEF FuseDo
  <2>2. Top.block \in Blocks /\ Top.other \in Blocks
    BY <2>1, DoesProper DEF Ops, Movers
  <2>3. Involved(Top) = {Top.block, Top.other}
    BY <2>1, <2>2, <1>n, DoesInvolves DEF Ops
  <2>4. SameBut({Top.block, Top.other}, level, body, level', body')
    BY <1>11, <2>2 DEF FuseDo, TakeOut, SameBut, TypeOK
  <2> QED
    BY <1>f, <2>1, <2>3, <2>4, DoneFits DEF Ops
<1>12. ASSUME InsertDo PROVE AllFit'
  <2>1. Does("insert") /\ Done(Top) /\ locked' = locked /\ level' = level /\ body' = body
    BY <1>12 DEF InsertDo
  <2>2. SameBut(Involved(Top), level, body, level', body')
    BY <2>1 DEF SameBut
  <2> QED
    BY <1>f, <2>1, <2>2, DoneFits DEF Ops
<1>13. ASSUME NEW b \in Blocks, UnfreezeDo(b) PROVE AllFit'
  <2> DEFINE f == Told([Top EXCEPT !.block = b])
  <2>1. /\ calls # <<>> /\ Top \in Frames /\ Top = calls[Len(calls)] /\ calls \in Seq(ProperFrames)
        /\ Top.op = "unfreeze" /\ Top.block = None /\ Top.other = None
    BY <1>13, DoesProper, ProperTop DEF UnfreezeDo, Ops, FramesOK
  <2>2. [Top EXCEPT !.block = b] \in Frames
    BY <2>1, FieldTypes, Blanks
  <2>3. /\ f.op = "unfreeze" /\ f.phase # "pre" /\ f.block = b /\ f.other = None
    BY <2>1, <2>2, ToldType DEF Frames
  <2>4. calls' = [calls EXCEPT ![Len(calls)] = f]
    BY <1>13 DEF UnfreezeDo, Done
  <2>5. f \in ProperFrames
    BY <1>f, <2>1, <2>4, ToppedProper
  <2>6. Involved(f) = Involved(Top) \cup {b} /\ Involved(f) = {b}
    BY <2>1, <2>3, <1>n DEF Involved
  <2>7. {b} \cap locked = {} /\ locked' = locked \cup {b}
    BY <1>13 DEF UnfreezeDo
  <2>8. SameBut({b}, level, body, level', body')
    BY <1>13 DEF UnfreezeDo, SameBut, TypeOK
  <2> HIDE DEF f
  <2>9. Fits([calls EXCEPT ![Len(calls)] = f], locked \cup {b}, level', body')
    BY <2>1, <2>3, <2>5, <2>6, <2>7, <2>8, TopFits DEF AllFit
  <2> QED
    BY <2>4, <2>7, <2>9 DEF AllFit
<1>14. ASSUME ScrollLooks \/ ScrollPasses PROVE AllFit'
  <2>1. /\ calls # <<>> /\ Top \in Frames /\ Top = calls[Len(calls)] /\ calls \in Seq(ProperFrames)
        /\ Top.op = "scroll"
    BY <1>14, LookingProper, ProperTop DEF ScrollLooks, ScrollPasses, Does, FramesOK
  <2>2. PICK f : f.op = "scroll" /\ f.phase = "loop" /\ calls' = [calls EXCEPT ![Len(calls)] = f]
    <3>1. CASE ScrollLooks
      <4> DEFINE g == [Top EXCEPT !.phase = "loop", !.cells = Leaving(Cells, Top.by)]
      <4>1. g.op = "scroll" /\ g.phase = "loop"
        BY <2>1 DEF Frames
      <4> QED
        BY <3>1, <4>1 DEF ScrollLooks
    <3>2. CASE ScrollPasses
      <4>1. Top.phase = "loop"
        BY <3>2 DEF ScrollPasses, Looking
      <4>2. \A c : Passed(c).op = "scroll" /\ Passed(c).phase = "loop"
        BY <2>1, <4>1 DEF Frames, Passed
      <4> QED
        BY <3>2, <4>2 DEF ScrollPasses
    <3> QED
      BY <1>14, <3>1, <3>2
  <2>3. f \in ProperFrames
    BY <1>f, <2>1, <2>2, ToppedProper
  <2>4. Involved(f) = Involved(Top) \cup {} /\ Involved(f) = {}
    BY <2>1, <2>2 DEF Involved
  <2>5. locked' = locked /\ level' = level /\ body' = body
    BY <1>14 DEF ScrollLooks, ScrollPasses
  <2>6. Fits([calls EXCEPT ![Len(calls)] = f], locked \cup {}, level', body')
    BY <2>1, <2>2, <2>3, <2>4, <2>5, <1>s, TopFits DEF AllFit
  <2> QED
    BY <2>2, <2>5, <2>6 DEF AllFit
<1>15. ASSUME NEW op \in {"freeze", "remove"}, ScrollAsks(op) PROVE AllFit'
  <2>1. PICK c \in Cells :
          /\ IsNext(c) /\ owner[c] # None /\ owner[c] \notin locked
          /\ calls' = Append([calls EXCEPT ![Len(calls)] = [Top EXCEPT !.other = owner[c]]],
                             Call(op, owner[c]))
          /\ locked' = locked \cup {owner[c]}
    BY <1>15 DEF ScrollAsks
  <2> DEFINE v == owner[c]
             f == [Top EXCEPT !.other = v]
             g == Call(op, v)
             half == [calls EXCEPT ![Len(calls)] = f]
  <2>2. Looking /\ level' = level /\ body' = body
    BY <1>15 DEF ScrollAsks
  <2>3. /\ calls # <<>> /\ Top \in Frames /\ Top = calls[Len(calls)] /\ calls \in Seq(ProperFrames)
        /\ Top.op = "scroll" /\ Top.phase = "loop"
    BY <2>2, LookingProper, ProperTop DEF FramesOK
  <2>4. v \in Blocks /\ Top.cells # {}
    BY <2>1 DEF IsNext, TypeOK
  <2>5. f \in ProperFrames
    BY <2>2, <2>3, <2>4, LookingProper, ScrollProper, Blanks
  <2>6. f.op = "scroll" /\ f.phase # "pre"
    BY <2>3 DEF Frames
  <2>7. Involved(f) = Involved(Top) \cup {} /\ Involved(f) = {}
    BY <2>3, <2>6 DEF Involved
  <2>8. half \in Seq(ProperFrames)
    BY <2>3, <2>5, ProperStacks
  <2>9. g \in ProperFrames
    BY <2>4, <1>n, CallProper DEF Ops, Movers
  <2>10. Involved(g) = {v} /\ (v \in level => Ready(g, level, body))
    BY <2>4, <1>n DEF Involved, Call, Ready
  <2>11. v \in level
    BY <2>1, <2>2, <2>4 DEF OwnersMatch, Looking
  <2> HIDE DEF f, v, g
  <2>12. Fits(half, locked \cup {}, level, body)
    BY <1>s, <2>3, <2>5, <2>6, <2>7, TopFits DEF AllFit
  <2> HIDE DEF half
  <2>13. Fits(Append(half, g), locked \cup {v}, level, body)
    BY <1>s, <2>1, <2>8, <2>9, <2>10, <2>11, <2>12, PushFits DEF v
  <2> QED
    BY <2>1, <2>2, <2>13 DEF AllFit, half, g, v, f
<1>16. ASSUME ScrollGivesUp PROVE AllFit'
  <2>1. Looking /\ calls' = SubSeq(calls, 1, Len(calls) - 1)
        /\ locked' = locked /\ level' = level /\ body' = body
    BY <1>16 DEF ScrollGivesUp
  <2>2. calls # <<>> /\ Top = calls[Len(calls)] /\ Top.op = "scroll" /\ calls \in Seq(ProperFrames)
    BY <2>1, LookingProper, ProperTop DEF FramesOK
  <2>3. locked \ Involved(calls[Len(calls)]) = locked
    BY <2>2 DEF Involved
  <2> QED
    BY <2>1, <2>2, <2>3, PopFits DEF AllFit
<1>17. ASSUME Return PROVE AllFit'
  <2>1. /\ calls # <<>> /\ Top.phase = "post" /\ calls' = SubSeq(calls, 1, Len(calls) - 1)
        /\ locked' = locked \ {Top.block, Top.other} /\ level' = level /\ body' = body
    BY <1>17 DEF Return
  <2>2. /\ Top = calls[Len(calls)] /\ FrameOK(Top) /\ calls \in Seq(ProperFrames)
    BY <2>1, ProperTop DEF FramesOK
  <2>3. locked \ Involved(Top) = locked'
    BY <2>1, <2>2, <1>n DEF Involved, FrameOK, Loose, Movers
  <2> QED
    BY <2>1, <2>2, <2>3, PopFits DEF AllFit
<1>18. ASSUME ScrollDo PROVE AllFit'
  <2> DEFINE d == Top.by
  <2>1. /\ Looking /\ locked' = locked /\ level' = level
        /\ body' = [b \in Blocks |-> IF IsScrolled(b) THEN Shifted(body[b], d) ELSE body[b]]
        /\ calls' = [i \in DOMAIN calls |-> IF i = Len(calls) THEN Told(Top)
                                            ELSE Carried(calls[i], d)]
    BY <1>18 DEF ScrollDo
  <2>2. /\ Len(calls) \in DOMAIN calls /\ Top = calls[Len(calls)] /\ Top \in Frames
        /\ Top.op = "scroll" /\ \A i \in DOMAIN calls : calls[i] \in Frames /\ FrameOK(calls[i])
    BY <2>1, LookingProper, ProperTop
  <2> HIDE DEF d
  <2>3. Involved(Told(Top)) = Involved(Top) /\ Told(Top).phase = "post"
    BY <2>2, ToldType DEF Involved
  <2>4. ASSUME NEW i \in DOMAIN calls
        PROVE  /\ Involved(Carried(calls[i], d)) = Involved(calls[i])
               /\ Ready(Carried(calls[i], d), level, body')
    <3> DEFINE f == calls[i]
    <3>1. f \in Frames /\ FrameOK(f) /\ Ready(f, level, body)
      BY <2>2 DEF AllFit, Fits
    <3> HIDE DEF f
    <3>2. CASE IsScrolled(f.block)
      <4> DEFINE g == [f EXCEPT !.cells = Shifted(f.cells, d), !.gone = Shifted(f.gone, d)]
      <4>1. Carried(f, d) = g
        BY <3>1, <3>2 DEF Carried, Frames
      <4>2. /\ g.op = f.op /\ g.phase = f.phase /\ g.block = f.block /\ g.other = f.other
            /\ g.gone = Shifted(f.gone, d)
        BY <3>1 DEF Frames
      <4> HIDE DEF g
      <4>3. Involved(g) = Involved(f)
        BY <4>2 DEF Involved
      <4>4. ASSUME f.gone \subseteq body[f.block] PROVE g.gone \subseteq body'[f.block]
        <5>1. f.block \in Blocks
          BY <3>2 DEF IsScrolled, TypeOK
        <5> QED
          BY <2>1, <3>2, <4>2, <4>4, <5>1 DEF Shifted
      <4>5. Ready(g, level, body')
        BY <3>1, <4>2, <4>3, <4>4 DEF Ready
      <4> QED
        BY <4>1, <4>3, <4>5 DEF f
    <3>3. CASE ~IsScrolled(f.block)
      <4>1. Carried(f, d) = f
        BY <3>3 DEF Carried
      <4>2. f.op \in {"modify", "delete"} => body'[f.block] = body[f.block]
        <5>1. f.op \in {"modify", "delete"} => f.block \in Blocks
          BY <3>1 DEF FrameOK, Loose, Movers, Frames
        <5> QED
          BY <2>1, <3>3, <5>1
      <4>3. Ready(f, level, body')
        BY <3>1, <4>2 DEF Ready
      <4> QED
        BY <4>1, <4>3 DEF f
    <3> QED
      BY <3>2, <3>3
  <2>5. /\ DOMAIN calls' = DOMAIN calls
        /\ \A i \in DOMAIN calls : Involved(calls'[i]) = Involved(calls[i])
    BY <2>1, <2>2, <2>3, <2>4
  <2>6. \A i \in DOMAIN calls : Ready(calls'[i], level, body')
    BY <2>1, <2>3, <2>4 DEF Ready
  <2> QED
    BY <2>1, <2>5, <2>6 DEF AllFit, Fits
<1>19. ASSUME NEW c, TileChanges(c) PROVE AllFit'
  BY <1>0, <1>19 DEF TileChanges
<1>20. ASSUME NEW b \in Blocks, RemoveBegin(b) \/ FreezeBegin(b) PROVE AllFit'
  BY <1>3, <1>20 DEF RemoveBegin, FreezeBegin
<1> QED
  BY <1>0, <1>1, <1>2, <1>4, <1>5, <1>6, <1>7, <1>8, <1>9, <1>10, <1>11, <1>12, <1>13, <1>14,
     <1>15, <1>16, <1>17, <1>18, <1>19, <1>20 DEF Next, vars

-----------------------------------------------------------------------------
(* Owners.  Each operation says what it does to the cells of one block, or *)
(* of two; the others own what they owned. *)

Owned(own, b) == {c \in Cells : own[c] = b}
Home(lev, types, bricks, b) == IF b \in lev /\ types[b] \in Owning THEN bricks[b] ELSE {}

LEMMA OwnersHome ==
    /\ OwnersMatch /\ ~Lost => \A b \in Blocks : Owned(owner, b) = Home(level, mgmt, body, b)
    /\ (\A b \in Blocks : Owned(owner, b) = Home(level, mgmt, body, b)) => OwnersMatch
BY DEF OwnersMatch, Owned, Home, Owns

LEMMA OwnersHomeNext ==
    (\A b \in Blocks : Owned(owner', b) = Home(level', mgmt', body', b)) => OwnersMatch'
BY DEF OwnersMatch, Owned, Home, Owns

LEMMA OwnedDisjoint ==
    ASSUME NEW b, NEW v, b # v
    PROVE  Owned(owner, b) \cap Owned(owner, v) = {}
BY DEF Owned

\* Where b may be put no other block is.
LEMMA FreeOwned ==
    ASSUME NEW b \in Blocks, NEW S, Free(b, S), NEW v \in Blocks, v # b
    PROVE  S \subseteq Cells /\ Owned(owner, v) \cap S = {}
BY DEF Free, Owned

\* A board that is moved: the owner of each cell moves with it.
LEMMA ShiftOwned ==
    ASSUME TypeOK, NEW d \in Int \X Int, NEW b \in Blocks,
           \A c \in Leaving(Cells, d) : owner[c] = None,
           owner' = [c \in Cells |-> IF c \in Entering(Cells, d) THEN None ELSE owner[Minus(c, d)]]
    PROVE  Owned(owner', b) = Shifted(Owned(owner, b), d)
<1>1. \A c \in Cells : c \in Int \X Int
  BY DEF Cells
<1>2. ASSUME NEW c \in Cells PROVE Plus(Minus(c, d), d) = c /\ Minus(Plus(c, d), d) = c
  BY <1>1 DEF Plus, Minus
<1>3. ASSUME NEW c \in Owned(owner', b) PROVE c \in Shifted(Owned(owner, b), d)
  <2>1. c \in Cells /\ c \notin Entering(Cells, d) /\ owner[Minus(c, d)] = b
    BY <1>3 DEF Owned
  <2>2. Minus(c, d) \in Cells
    BY <2>1 DEF Entering
  <2> QED
    BY <1>2, <2>1, <2>2 DEF Owned, Shifted
<1>4. ASSUME NEW c \in Shifted(Owned(owner, b), d) PROVE c \in Owned(owner', b)
  <2>1. PICK o \in Cells : owner[o] = b /\ c = Plus(o, d)
    BY <1>4 DEF Shifted, Owned
  <2>2. c \in Cells
    BY <2>1 DEF Leaving
  <2>3. Minus(c, d) = o
    BY <1>2, <2>1
  <2>4. c \notin Entering(Cells, d)
    BY <2>1, <2>3 DEF Entering
  <2> QED
    BY <2>1, <2>2, <2>3, <2>4 DEF Owned
<1> QED
  BY <1>3, <1>4

\* What an operation on a block in the level may rely on when it is done.
LEMMA InLevel ==
    ASSUME TypeOK, FramesOK, AllFit, NEW op \in Ops \ (Movers \cup {"add", "unfreeze"}), Does(op)
    PROVE  /\ Top.block \in Blocks /\ Top.block \in level
           /\ op = "fuse" => Top.other \in Blocks \ {Top.block} /\ Top.other \in level
           /\ op \in {"modify", "delete"} => Top.gone \subseteq body[Top.block]
<1>1. /\ Top.phase = "pre" /\ Top.op = op /\ Top.block \in Blocks
      /\ op = "fuse" => Top.other \in Blocks \ {Top.block}
  BY DoesProper
<1>2. Involved(Top) = {Top.block, Top.other} \ {None} /\ Ready(Top, level, body)
  BY DoesInvolves DEF Movers
<1>3. Top.block \in Involved(Top) /\ (op = "fuse" => Top.other \in Involved(Top))
  BY <1>1, <1>2
<1>4. Involved(Top) \subseteq level
  BY <1>1, <1>2 DEF Ready
<1> QED
  BY <1>1, <1>2, <1>3, <1>4 DEF Ready

\* While the callers keep to the board, what is put is put on free cells.
LEMMA PlacedFree ==
    ASSUME NEW b, NEW S, NEW type, Placed(b, S, type), ~Lost'
    PROVE  type \in Owning => Free(b, S)
BY DEF Placed, Lost

LEMMA OwnersStep == TypeOK /\ FramesOK /\ AllFit /\ OwnersMatch /\ [Next]_vars => OwnersMatch'
<1> SUFFICES ASSUME TypeOK, FramesOK, AllFit, OwnersMatch, [Next]_vars, ~Lost'
             PROVE  OwnersMatch'
  BY DEF OwnersMatch
<1>0. CASE UNCHANGED <<owner, level, mgmt, body, mishaps>>
  BY <1>0 DEF OwnersMatch, Owns, Lost
<1>l. UNCHANGED mishaps \/ ~Lost => \A v \in Blocks : Owned(owner, v) = Home(level, mgmt, body, v)
  BY OwnersHome DEF Lost
<1>1. ASSUME NEW b \in Blocks, NEW type, NEW S, AddBegin(b, type, S) PROVE OwnersMatch'
  <2>1. \A v \in Blocks : Home(level', mgmt', body', v) = Home(level, mgmt, body, v)
    BY <1>1 DEF AddBegin, Home, TypeOK
  <2> QED
    BY <1>1, <1>l, <2>1, OwnersHomeNext DEF AddBegin
<1>2. ASSUME AddDo PROVE OwnersMatch'
  <2> DEFINE b == Top.block
  <2>1. /\ b \in Blocks /\ ~Lost
    BY <1>2, DoesProper DEF AddDo, Ops, Movers
  <2>2. /\ level' = level \cup {b} /\ mgmt' = mgmt /\ body' = body
        /\ owner' = IF Owns(b) THEN Set(owner, body[b], b) ELSE owner
        /\ Owns(b) => Free(b, body[b])
    BY <1>2, PlacedFree DEF AddDo, Owns
  <2> HIDE DEF b
  <2>s. ASSUME NEW v \in Blocks
        PROVE  Owned(owner', v) = IF ~Owns(b) THEN Owned(owner, v)
                               ELSE IF v = b
                                    THEN Owned(owner, v) \cup body[b]
                                    ELSE Owned(owner, v) \ body[b]
    BY <2>1, <2>2, <2>s DEF Owned, Set, Free, TypeOK
  <2>3. ASSUME NEW v \in Blocks PROVE Owned(owner', v) = Home(level', mgmt', body', v)
    <3>1. Owned(owner, v) = Home(level, mgmt, body, v)
      BY <1>l, <2>1
    <3>2. CASE ~Owns(b)
      BY <2>2, <3>1, <3>2 DEF Home, Owns
    <3>3. CASE Owns(b) /\ v = b
      BY <2>1, <2>2, <3>1, <3>3, <2>s DEF Home, Owns
    <3>4. CASE Owns(b) /\ v # b
      <4>1. body[b] \subseteq Cells /\ Owned(owner, v) \cap body[b] = {}
        BY <2>1, <2>2, <3>4, FreeOwned
      <4> QED
        BY <2>1, <2>2, <3>1, <3>4, <4>1, <2>s DEF Home
    <3> QED
      BY <3>2, <3>3, <3>4
  <2> QED
    BY <2>3, OwnersHomeNext
<1>3. ASSUME NEW b \in Blocks, UnfreezeDo(b) PROVE OwnersMatch'
  <2> DEFINE S == Top.cells
             type == Top.type
  <2>1. b \notin level /\ ~Lost
    BY <1>3 DEF UnfreezeDo, Does
  <2>2. /\ level' = level \cup {b} /\ mgmt' = [mgmt EXCEPT ![b] = type]
        /\ body' = [body EXCEPT ![b] = S]
        /\ owner' = IF type \in Owning THEN Set(owner, S, b) ELSE owner
        /\ type \in Owning => Free(b, S)
    BY <1>3 DEF UnfreezeDo, Lost
  <2> HIDE DEF S, type
  <2>s. ASSUME NEW v \in Blocks
        PROVE  Owned(owner', v) = IF type \notin Owning THEN Owned(owner, v)
                               ELSE IF v = b
                                    THEN Owned(owner, v) \cup S
                                    ELSE Owned(owner, v) \ S
    BY <2>1, <2>2, <2>s DEF Owned, Set, Free, TypeOK
  <2>3. ASSUME NEW v \in Blocks PROVE Owned(owner', v) = Home(level', mgmt', body', v)
    <3>1. Owned(owner, v) = Home(level, mgmt, body, v)
      BY <1>l, <2>1
    <3>2. CASE v = b
      <4>1. Owned(owner, b) = {}
        BY <2>1, <3>1, <3>2 DEF Home
      <4>2. Home(level', mgmt', body', b) = IF type \in Owning THEN S ELSE {}
        BY <2>2 DEF Home, TypeOK
      <4> QED
        BY <2>2, <3>2, <4>1, <4>2, <2>s
    <3>3. CASE v # b
      <4>1. Home(level', mgmt', body', v) = Home(level, mgmt, body, v)
        BY <2>2, <3>3 DEF Home, TypeOK
      <4>2. type \in Owning => S \subseteq Cells /\ Owned(owner, v) \cap S = {}
        BY <2>2, <3>3, FreeOwned
      <4> QED
        BY <2>2, <3>1, <3>3, <4>1, <4>2, <2>s
    <3> QED
      BY <3>2, <3>3
  <2> QED
    BY <2>3, OwnersHomeNext
<1>4. ASSUME RemoveDo \/ FreezeDo PROVE OwnersMatch'
  <2> DEFINE b == Top.block
  <2>1. b \in Blocks /\ b \in level /\ ~Lost
    BY <1>4, InLevel DEF RemoveDo, FreezeDo, Ops, Movers, Does
  <2>2. /\ level' = level \ {b} /\ mgmt' = [mgmt EXCEPT ![b] = "invalid"]
        /\ body' = [body EXCEPT ![b] = {}]
        /\ owner' = IF Owns(b) THEN Clear(owner, body[b]) ELSE owner
    BY <1>4 DEF RemoveDo, FreezeDo, TakeOut, Cleared
  <2> HIDE DEF b
  <2>s. ASSUME NEW v \in Blocks
        PROVE  Owned(owner', v) = IF Owns(b) THEN Owned(owner, v) \ body[b] ELSE Owned(owner, v)
    BY <2>1, <2>2, <2>s DEF Owned, Clear, TypeOK
  <2>3. Owned(owner, b) = IF Owns(b) THEN body[b] ELSE {}
    BY <1>l, <2>1 DEF Home, Owns
  <2>4. ASSUME NEW v \in Blocks PROVE Owned(owner', v) = Home(level', mgmt', body', v)
    <3>1. Owned(owner, v) = Home(level, mgmt, body, v)
      BY <1>l, <2>1
    <3>2. CASE v = b
      BY <2>1, <2>2, <2>3, <3>2, <2>s DEF Home
    <3>3. CASE v # b
      <4>1. Home(level', mgmt', body', v) = Home(level, mgmt, body, v)
        BY <2>2, <3>3 DEF Home, TypeOK
      <4>2. Owned(owner, b) \cap Owned(owner, v) = {}
        BY <3>3, OwnedDisjoint
      <4> QED
        BY <2>1, <2>2, <2>3, <3>1, <3>3, <4>1, <4>2, <2>s
    <3> QED
      BY <3>2, <3>3
  <2> QED
    BY <2>4, OwnersHomeNext
<1>5. ASSUME MoveDo PROVE OwnersMatch'
  <2> DEFINE b == Top.block
             S == Top.cells
  <2>1. b \in Blocks /\ b \in level /\ ~Lost
    BY <1>5, InLevel DEF MoveDo, Ops, Movers, Does
  <2>2. /\ level' = level /\ mgmt' = mgmt /\ body' = [body EXCEPT ![b] = S]
        /\ owner' = IF Owns(b) THEN Set(Clear(owner, body[b]), S, b) ELSE owner
        /\ Owns(b) => Free(b, S)
    BY <1>5, PlacedFree DEF MoveDo, Owns
  <2> HIDE DEF b, S
  <2>s. ASSUME NEW v \in Blocks
        PROVE  Owned(owner', v) = IF ~Owns(b) THEN Owned(owner, v)
                               ELSE IF v = b
                                    THEN (Owned(owner, v) \ body[b]) \cup S
                                    ELSE (Owned(owner, v) \ body[b]) \ S
    BY <2>1, <2>2, <2>s DEF Owned, Set, Clear, Free, TypeOK
  <2>3. Owned(owner, b) = IF Owns(b) THEN body[b] ELSE {}
    BY <1>l, <2>1 DEF Home, Owns
  <2>4. ASSUME NEW v \in Blocks PROVE Owned(owner', v) = Home(level', mgmt', body', v)
    <3>1. Owned(owner, v) = Home(level, mgmt, body, v)
      BY <1>l, <2>1
    <3>2. CASE v = b
      <4>1. Home(level', mgmt', body', b) = IF Owns(b) THEN S ELSE {}
        BY <2>1, <2>2 DEF Home, Owns, TypeOK
      <4> QED
        BY <2>1, <2>2, <2>3, <3>2, <4>1, <2>s
    <3>3. CASE v # b
      <4>1. Home(level', mgmt', body', v) = Home(level, mgmt, body, v)
        BY <2>2, <3>3 DEF Home, TypeOK
      <4>2. Owned(owner, b) \cap Owned(owner, v) = {}
        BY <3>3, OwnedDisjoint
      <4>3. Owns(b) => S \subseteq Cells /\ Owned(owner, v) \cap S = {}
        BY <2>1, <2>2, <3>3, FreeOwned
      <4>4. Owns(b) => (Owned(owner, v) \ body[b]) \ S = Owned(owner, v)
        BY <2>1, <2>3, <4>2, <4>3
      <4> QED
        BY <2>s, <3>1, <3>3, <4>1, <4>4
    <3> QED
      BY <3>2, <3>3
  <2> QED
    BY <2>4, OwnersHomeNext
<1>6. ASSUME ModifyDo PROVE OwnersMatch'
  <2> DEFINE b == Top.block
             new == Top.cells
             gone == Top.gone
             rest == body[b] \ gone
  <2>1. b \in Blocks /\ b \in level /\ gone \subseteq body[b] /\ ~Lost
    BY <1>6, InLevel DEF ModifyDo, Ops, Movers, Does
  <2>2. /\ level' = level /\ mgmt' = mgmt
        /\ body' = [body EXCEPT ![b] = Shifted(rest, Top.by) \cup new]
        /\ owner' = IF Owns(b) THEN Set(Clear(owner, gone), new, b) ELSE owner
        /\ Owns(b) => Free(b, new) /\ Shifted(rest, Top.by) = rest
    BY <1>6 DEF ModifyDo, Lost
  <2> HIDE DEF b, new, gone
  <2>s. ASSUME NEW v \in Blocks
        PROVE  Owned(owner', v) = IF ~Owns(b) THEN Owned(owner, v)
                               ELSE IF v = b
                                    THEN (Owned(owner, v) \ gone) \cup new
                                    ELSE (Owned(owner, v) \ gone) \ new
    BY <2>1, <2>2, <2>s DEF Owned, Set, Clear, Free, TypeOK
  <2>3. Owned(owner, b) = IF Owns(b) THEN body[b] ELSE {}
    BY <1>l, <2>1 DEF Home, Owns
  <2>4. ASSUME NEW v \in Blocks PROVE Owned(owner', v) = Home(level', mgmt', body', v)
    <3>1. Owned(owner, v) = Home(level, mgmt, body, v)
      BY <1>l, <2>1
    <3>2. CASE v = b
      <4>1. Home(level', mgmt', body', b) = IF Owns(b) THEN rest \cup new ELSE {}
        BY <2>1, <2>2 DEF Home, Owns, TypeOK
      <4> QED
        BY <2>1, <2>2, <2>3, <3>2, <4>1, <2>s
    <3>3. CASE v # b
      <4>1. Home(level', mgmt', body', v) = Home(level, mgmt, body, v)
        BY <2>2, <3>3 DEF Home, TypeOK
      <4>2. Owned(owner, b) \cap Owned(owner, v) = {}
        BY <3>3, OwnedDisjoint
      <4>3. Owns(b) => new \subseteq Cells /\ Owned(owner, v) \cap new = {}
        BY <2>1, <2>2, <3>3, FreeOwned
      <4>4. Owns(b) => (Owned(owner, v) \ gone) \ new = Owned(owner, v)
        BY <2>1, <2>3, <4>2, <4>3
      <4> QED
        BY <2>s, <3>1, <3>3, <4>1, <4>4
    <3> QED
      BY <3>2, <3>3
  <2> QED
    BY <2>4, OwnersHomeNext
<1>7. ASSUME DeleteDo PROVE OwnersMatch'
  <2> DEFINE b == Top.block
             rest == body[b] \ Top.gone
  <2>1. b \in Blocks /\ b \in level /\ ~Lost
    BY <1>7, InLevel DEF DeleteDo, Ops, Movers, Does
  <2>2. /\ level' = level /\ mgmt' = mgmt /\ body' = [body EXCEPT ![b] = rest]
        /\ owner' = IF Owns(b) THEN Set(Clear(owner, body[b]), rest, b) ELSE owner
    BY <1>7 DEF DeleteDo
  <2>r. rest \subseteq body[b]
    OBVIOUS
  <2> HIDE DEF b, rest
  <2>3. Owned(owner, b) = (IF Owns(b) THEN body[b] ELSE {}) /\ Owned(owner, b) \subseteq Cells
    BY <1>l, <2>1 DEF Home, Owns, Owned
  <2>s. ASSUME NEW v \in Blocks
        PROVE  Owned(owner', v) = IF ~Owns(b) THEN Owned(owner, v)
                               ELSE IF v = b
                                    THEN (Owned(owner, v) \ body[b]) \cup (rest \cap Cells)
                                    ELSE (Owned(owner, v) \ body[b]) \ rest
    BY <2>1, <2>2, <2>s DEF Owned, Set, Clear, TypeOK
  <2>4. ASSUME NEW v \in Blocks PROVE Owned(owner', v) = Home(level', mgmt', body', v)
    <3>1. Owned(owner, v) = Home(level, mgmt, body, v)
      BY <1>l, <2>1
    <3>2. CASE v = b
      <4>1. Home(level', mgmt', body', b) = IF Owns(b) THEN rest ELSE {}
        BY <2>1, <2>2 DEF Home, Owns, TypeOK
      <4>2. Owns(b) => (Owned(owner, b) \ body[b]) \cup (rest \cap Cells) = rest
        BY <2>3, <2>r
      <4>3. ~Owns(b) => Owned(owner, b) = {}
        BY <2>3
      <4> QED
        BY <2>s, <3>2, <4>1, <4>2, <4>3
    <3>3. CASE v # b
      <4>1. Home(level', mgmt', body', v) = Home(level, mgmt, body, v)
        BY <2>2, <3>3 DEF Home, TypeOK
      <4>2. Owned(owner, b) \cap Owned(owner, v) = {}
        BY <3>3, OwnedDisjoint
      <4>3. Owns(b) => (Owned(owner, v) \ body[b]) \ rest = Owned(owner, v)
        BY <2>3, <2>r, <4>2
      <4> QED
        BY <2>s, <3>1, <3>3, <4>1, <4>3
    <3> QED
      BY <3>2, <3>3
  <2> QED
    BY <2>4, OwnersHomeNext
<1>8. ASSUME FuseDo PROVE OwnersMatch'
  <2> DEFINE m == Top.block
             w == Top.other
             B == body[m]
             X == IF Owns(w) THEN body[w] ELSE {}
             both == body[m] \cup body[w]
             cleared == Clear(Clear(owner, B), X)
  <2>1. /\ m \in Blocks /\ m \in level /\ w \in Blocks /\ w \in level /\ w # m /\ ~Lost
    BY <1>8, InLevel DEF FuseDo, Ops, Movers, Does
  <2>2. /\ level' = level \ {w} /\ mgmt' = [mgmt EXCEPT ![w] = "invalid"]
        /\ body' = [body EXCEPT ![m] = both, ![w] = {}]
        /\ owner' = IF Owns(m) THEN Set(cleared, both, m) ELSE cleared
    BY <1>8 DEF FuseDo, TakeOut
  <2>3. /\ \A c \in B : c \in Cells /\ owner[c] \in {None, m}
        /\ Owns(m) => \A c \in both : c \in Cells /\ owner[c] \in {None, m, w}
    BY <1>8 DEF FuseDo, Lost
  <2> HIDE DEF m, w, B, X
  <2>4. /\ Owned(owner, m) = IF Owns(m) THEN body[m] ELSE {}
        /\ Owned(owner, w) = X
    BY <1>l, <2>1 DEF Home, Owns, X
  <2>5. ASSUME NEW v \in Blocks PROVE Owned(cleared, v) = (Owned(owner, v) \ B) \ X
    BY <2>5 DEF Owned, Clear, TypeOK
  <2>6. ASSUME NEW v \in Blocks, Owns(m)
        PROVE  Owned(Set(cleared, both, m), v)
                 = IF v = m THEN Owned(cleared, v) \cup both ELSE Owned(cleared, v) \ both
    <3>1. both \subseteq Cells
      BY <2>3, <2>6
    <3> HIDE DEF cleared, both
    <3> QED
      BY <2>1, <3>1 DEF Owned, Set
  <2>7. ASSUME NEW v \in Blocks PROVE Owned(owner', v) = Home(level', mgmt', body', v)
    <3>1. Owned(owner, v) = Home(level, mgmt, body, v)
      BY <1>l, <2>1
    <3>2. CASE v = m
      <4>1. Home(level', mgmt', body', m) = IF Owns(m) THEN both ELSE {}
        BY <2>1, <2>2 DEF Home, Owns, TypeOK
      <4>2. Owned(owner, m) \subseteq both
        BY <2>4
      <4> HIDE DEF both, cleared
      <4> QED
        BY <2>1, <2>2, <2>4, <2>5, <2>6, <3>2, <4>1, <4>2
    <3>3. CASE v = w
      <4>1. Home(level', mgmt', body', w) = {}
        BY <2>2 DEF Home
      <4>2. Owned(cleared, w) = {}
        BY <2>1, <2>4, <2>5
      <4> QED
        BY <2>1, <2>2, <2>6, <3>3, <4>1, <4>2
    <3>4. CASE v # m /\ v # w
      <4>1. Home(level', mgmt', body', v) = Home(level, mgmt, body, v)
        BY <2>2, <3>4 DEF Home, TypeOK
      <4>2. Owned(owner, v) \cap B = {}
        BY <2>3, <3>4 DEF Owned
      <4>3. Owned(owner, v) \cap X = {}
        BY <2>4, <3>4, OwnedDisjoint
      <4>4. Owns(m) => Owned(owner, v) \cap both = {}
        BY <2>3, <3>4 DEF Owned
      <4>5. Owned(cleared, v) = Owned(owner, v)
        BY <2>5, <4>2, <4>3
      <4> HIDE DEF both, cleared
      <4> QED
        BY <2>1, <2>2, <2>6, <3>1, <3>4, <4>1, <4>4, <4>5
    <3> QED
      BY <3>2, <3>3, <3>4
  <2> QED
    BY <2>7, OwnersHomeNext
<1>9. ASSUME ScrollDo PROVE OwnersMatch'
  <2> DEFINE d == Top.by
  <2>1. /\ d \in Int \X Int /\ ~Lost /\ level' = level /\ mgmt' = mgmt
        /\ body' = [b \in Blocks |-> IF IsScrolled(b) THEN Shifted(body[b], d) ELSE body[b]]
        /\ owner' = [c \in Cells |-> IF c \in Entering(Cells, d) THEN None
                                     ELSE owner[Minus(c, d)]]
        /\ \A c \in Leaving(Cells, d) : owner[c] = None
    BY <1>9, LookingProper DEF ScrollDo, Looking, Lost
  <2> HIDE DEF d
  <2>2. ASSUME NEW v \in Blocks PROVE Owned(owner', v) = Home(level', mgmt', body', v)
    <3>1. Owned(owner, v) = Home(level, mgmt, body, v)
      BY <1>l, <2>1
    <3>2. Owned(owner', v) = Shifted(Owned(owner, v), d)
      BY <2>1, ShiftOwned
    <3>3. CASE v \in level /\ mgmt[v] \in Owning
      <4>1. IsScrolled(v)
        BY <3>3 DEF IsScrolled, Owning, AutoScrolled
      <4> QED
        BY <2>1, <3>1, <3>2, <3>3, <4>1 DEF Home
    <3>4. CASE ~(v \in level /\ mgmt[v] \in Owning)
      <4>1. Shifted({}, d) = {}
        BY DEF Shifted
      <4> QED
        BY <2>1, <3>1, <3>2, <3>4, <4>1 DEF Home
    <3> QED
      BY <3>3, <3>4
  <2> QED
    BY <2>2, OwnersHomeNext
<1>10. ASSUME InsertDo \/ \E c \in Cells : TileChanges(c) PROVE OwnersMatch'
  <2>1. ~Lost /\ UNCHANGED <<owner, level, mgmt, body>>
    BY <1>10 DEF InsertDo, TileChanges, Does, CanCall
  <2> QED
    BY <2>1 DEF OwnersMatch, Owns
<1>11. ASSUME NEW b \in Blocks, RemoveBegin(b) \/ FreezeBegin(b) PROVE OwnersMatch'
  BY <1>0, <1>11 DEF RemoveBegin, FreezeBegin
<1>12. ASSUME NEW b, NEW S, NEW G, NEW d,
              UnfreezeBegin(b, S) \/ FuseBegin(b, S) \/ MoveBegin(b, S) \/ DeleteBegin(b, S)
                \/ ModifyBegin(b, S, G, d) \/ InsertBegin(b, S)
       PROVE  OwnersMatch'
  BY <1>0, <1>12 DEF UnfreezeBegin, FuseBegin, MoveBegin, DeleteBegin, ModifyBegin, InsertBegin
<1>13. ASSUME NEW x, ScrollBegin(x) \/ ScrollLooks \/ ScrollPasses \/ ScrollAsks(x) \/ ScrollGivesUp
                       \/ Return
       PROVE  OwnersMatch'
  BY <1>0, <1>13 DEF ScrollBegin, ScrollLooks, ScrollPasses, ScrollAsks, ScrollGivesUp, Return
<1> QED
  BY <1>0, <1>1, <1>2, <1>3, <1>4, <1>5, <1>6, <1>7, <1>8, <1>9, <1>10, <1>11, <1>12, <1>13
     DEF Next, vars

-----------------------------------------------------------------------------
(* Strict owners.  Histories only grow, so as long as nobody has covered a *)
(* block each operation has kept tiles and strict owners apart.            *)

Bare(own, types, board) ==
  \A c \in Cells : own[c] # None /\ types[own[c]] = "strict" => c \notin board

LEMMA StrictIsBare == StrictCellsEmpty <=> (mishaps = {} => Bare(owner, mgmt, tiles))
BY DEF StrictCellsEmpty, Bare

LEMMA StrictStep ==
    TypeOK /\ FramesOK /\ AllFit /\ OwnersMatch /\ StrictCellsEmpty /\ [Next]_vars
      => StrictCellsEmpty'
<1> SUFFICES ASSUME TypeOK, FramesOK, AllFit, OwnersMatch, StrictCellsEmpty, [Next]_vars,
                    mishaps' = {}
             PROVE  Bare(owner', mgmt', tiles')
  BY DEF StrictCellsEmpty, Bare
<1>0. CASE UNCHANGED <<owner, mgmt, tiles, mishaps>>
  BY <1>0, StrictIsBare
<1>b. ASSUME mishaps = {} PROVE ~Lost /\ Bare(owner, mgmt, tiles)
  BY <1>b, StrictIsBare DEF Lost
<1>h. ASSUME ~Lost, NEW c \in Cells, owner[c] # None PROVE owner[c] \in Blocks /\ owner[c] \in level
  BY <1>h DEF OwnersMatch, TypeOK
<1>1. ASSUME NEW b \in Blocks, NEW type, NEW S, AddBegin(b, type, S)
      PROVE  Bare(owner', mgmt', tiles')
  <2>1. /\ ~Lost /\ Bare(owner, mgmt, tiles) /\ b \notin level
        /\ mgmt' = [mgmt EXCEPT ![b] = type] /\ owner' = owner /\ tiles' = tiles
    BY <1>1, <1>b DEF AddBegin
  <2> QED
    BY <1>h, <2>1 DEF Bare, TypeOK
<1>2. ASSUME AddDo PROVE Bare(owner', mgmt', tiles')
  <2> DEFINE b == Top.block
  <2>1. /\ Placed(b, body[b], mgmt[b]) /\ mgmt' = mgmt /\ tiles' = tiles
        /\ owner' = IF Owns(b) THEN Set(owner, body[b], b) ELSE owner
    BY <1>2 DEF AddDo
  <2> HIDE DEF b
  <2>2. mishaps = {} /\ (mgmt[b] = "strict" => body[b] \cap tiles = {})
    BY <2>1 DEF Placed
  <2> QED
    BY <1>b, <2>1, <2>2 DEF Bare, Set
<1>3. ASSUME NEW b \in Blocks, UnfreezeDo(b) PROVE Bare(owner', mgmt', tiles')
  <2> DEFINE S == Top.cells
             type == Top.type
  <2>1. /\ b \notin level /\ mgmt' = [mgmt EXCEPT ![b] = type] /\ tiles' = tiles \ S
        /\ owner' = IF type \in Owning THEN Set(owner, S, b) ELSE owner
        /\ mishaps = {}
    BY <1>3 DEF UnfreezeDo
  <2> HIDE DEF S, type
  <2>2. ~Lost /\ Bare(owner, mgmt, tiles)
    BY <1>b, <2>1
  <2>3. ASSUME NEW c \in Cells, owner'[c] # None, mgmt'[owner'[c]] = "strict" PROVE c \notin tiles'
    <3>1. CASE c \in S
      BY <2>1, <3>1
    <3>2. CASE c \notin S
      <4>1. owner'[c] = owner[c]
        BY <2>1, <3>2 DEF Set
      <4>2. owner[c] \in level /\ owner[c] \in Blocks
        BY <1>h, <2>2, <2>3, <4>1
      <4>3. mgmt'[owner[c]] = mgmt[owner[c]]
        BY <2>1, <4>2 DEF TypeOK
      <4> QED
        BY <2>1, <2>2, <2>3, <4>1, <4>2, <4>3 DEF Bare
    <3> QED
      BY <3>1, <3>2
  <2> QED
    BY <2>3 DEF Bare
<1>4. ASSUME RemoveDo \/ FreezeDo PROVE Bare(owner', mgmt', tiles')
  <2> DEFINE b == Top.block
             covers == \E c \in body[b] \cap Cells :
                         owner[c] \notin {None, b} /\ mgmt[owner[c]] = "strict"
  <2>1. /\ b \in Blocks /\ mgmt' = [mgmt EXCEPT ![b] = "invalid"]
        /\ owner' = IF Owns(b) THEN Clear(owner, body[b]) ELSE owner
        /\ tiles' = tiles \/ (tiles' = tiles \cup (body[b] \cap Cells) /\ ~covers)
        /\ mishaps = {}
    BY <1>4, InLevel DEF RemoveDo, FreezeDo, TakeOut, Cleared, Ops, Movers
  <2> HIDE DEF b
  <2>2. Bare(owner, mgmt, tiles)
    BY <1>b, <2>1
  <2>3. ASSUME NEW c \in Cells, owner'[c] # None, mgmt'[owner'[c]] = "strict" PROVE c \notin tiles'
    <3>1. owner'[c] = owner[c]
      BY <2>1, <2>3 DEF Clear
    <3>2. owner[c] \in Blocks /\ owner[c] # b /\ mgmt[owner[c]] = "strict"
      BY <2>1, <2>3, <3>1 DEF TypeOK
    <3>3. c \notin tiles
      BY <2>2, <2>3, <3>1, <3>2 DEF Bare
    <3> QED
      BY <2>1, <2>3, <3>1, <3>2, <3>3
  <2> QED
    BY <2>3 DEF Bare
<1>5. ASSUME MoveDo PROVE Bare(owner', mgmt', tiles')
  <2> DEFINE b == Top.block
             S == Top.cells
  <2>1. /\ Placed(b, S, mgmt[b]) /\ mgmt' = mgmt /\ tiles' = tiles
        /\ owner' = IF Owns(b) THEN Set(Clear(owner, body[b]), S, b) ELSE owner
    BY <1>5 DEF MoveDo
  <2> HIDE DEF b, S
  <2>2. mishaps = {} /\ (mgmt[b] = "strict" => S \cap tiles = {})
    BY <2>1 DEF Placed
  <2> QED
    BY <1>b, <2>1, <2>2 DEF Bare, Set, Clear
<1>6. ASSUME ModifyDo PROVE Bare(owner', mgmt', tiles')
  <2> DEFINE b == Top.block
             new == Top.cells
             gone == Top.gone
  <2>1. /\ mishaps = {} /\ mgmt' = mgmt /\ tiles' = tiles
        /\ owner' = IF Owns(b) THEN Set(Clear(owner, gone), new, b) ELSE owner
        /\ mgmt[b] = "strict" => new \cap tiles = {}
    BY <1>6 DEF ModifyDo
  <2> HIDE DEF b, new, gone
  <2> QED
    BY <1>b, <2>1 DEF Bare, Set, Clear
<1>7. ASSUME DeleteDo PROVE Bare(owner', mgmt', tiles')
  <2> DEFINE b == Top.block
             rest == body[b] \ Top.gone
  <2>1. /\ mishaps = {} /\ mgmt' = mgmt /\ tiles' = tiles /\ rest \subseteq body[b]
        /\ owner' = IF Owns(b) THEN Set(Clear(owner, body[b]), rest, b) ELSE owner
        /\ b \in Blocks /\ b \in level
    BY <1>7, InLevel DEF DeleteDo, Ops, Movers
  <2> HIDE DEF b, rest
  <2>2. ~Lost /\ Bare(owner, mgmt, tiles)
    BY <1>b, <2>1
  <2>3. Owns(b) => \A c \in Cells : c \in body[b] => owner[c] = b
    BY <2>1, <2>2 DEF OwnersMatch
  <2>4. ASSUME NEW c \in Cells, owner'[c] # None, mgmt'[owner'[c]] = "strict" PROVE c \notin tiles'
    <3>1. owner'[c] = owner[c]
      BY <2>1, <2>3, <2>4 DEF Set, Clear
    <3> QED
      BY <2>1, <2>2, <2>4, <3>1 DEF Bare
  <2> QED
    BY <2>4 DEF Bare
<1>8. ASSUME FuseDo PROVE Bare(owner', mgmt', tiles')
  <2> DEFINE m == Top.block
             w == Top.other
             X == IF Owns(w) THEN body[w] ELSE {}
             both == body[m] \cup body[w]
             cleared == Clear(Clear(owner, body[m]), X)
  <2>1. /\ m \in Blocks /\ m \in level /\ w \in Blocks /\ w # m
        /\ mgmt' = [mgmt EXCEPT ![w] = "invalid"] /\ tiles' = tiles /\ mishaps = {}
        /\ owner' = IF Owns(m) THEN Set(cleared, both, m) ELSE cleared
        /\ mgmt[m] = "strict" => body[w] \cap tiles = {}
    BY <1>8, InLevel DEF FuseDo, TakeOut, Ops, Movers
  <2> HIDE DEF m, w
  <2>2. ~Lost /\ Bare(owner, mgmt, tiles)
    BY <1>b, <2>1
  <2>3. Owns(m) => \A c \in Cells : c \in body[m] => owner[c] = m
    BY <2>1, <2>2 DEF OwnersMatch
  <2>4. ASSUME NEW c \in Cells, owner'[c] # None, mgmt'[owner'[c]] = "strict" PROVE c \notin tiles'
    <3>1. owner'[c] = owner[c] \/ (owner'[c] = m /\ Owns(m) /\ c \in both)
      BY <2>1, <2>4 DEF Set, Clear
    <3>2. CASE owner'[c] = owner[c]
      <4>1. owner[c] \in Blocks /\ mgmt[owner[c]] = "strict"
        BY <2>1, <2>4, <3>2 DEF TypeOK
      <4> QED
        BY <2>1, <2>2, <2>4, <3>2, <4>1 DEF Bare
    <3>3. CASE owner'[c] = m /\ Owns(m) /\ c \in both
      <4>1. mgmt[m] = "strict"
        BY <2>1, <2>4, <3>3 DEF TypeOK
      <4>2. CASE c \in body[w]
        BY <2>1, <4>1, <4>2
      <4>3. CASE c \in body[m]
        <5>1. owner[c] = m
          BY <2>3, <3>3, <4>3
        <5> QED
          BY <2>1, <2>2, <2>4, <3>3, <4>1, <5>1 DEF Bare
      <4> QED
        BY <3>3, <4>2, <4>3
    <3> QED
      BY <3>1, <3>2, <3>3
  <2> QED
    BY <2>4 DEF Bare
<1>9. ASSUME ScrollDo PROVE Bare(owner', mgmt', tiles')
  <2> DEFINE d == Top.by
  <2>1. /\ d \in Int \X Int /\ mishaps = {} /\ mgmt' = mgmt
        /\ owner' = [c \in Cells |-> IF c \in Entering(Cells, d) THEN None
                                     ELSE owner[Minus(c, d)]]
    BY <1>9, LookingProper DEF ScrollDo
  <2>2. PICK new \in SUBSET Entering(Cells, d) : tiles' = new \cup (Shifted(tiles, d) \cap Cells)
    BY <1>9 DEF ScrollDo
  <2> HIDE DEF d
  <2>3. Bare(owner, mgmt, tiles)
    BY <1>b, <2>1
  <2>4. ASSUME NEW c \in Cells, owner'[c] # None, mgmt'[owner'[c]] = "strict" PROVE c \notin tiles'
    <3>1. c \notin Entering(Cells, d) /\ owner'[c] = owner[Minus(c, d)]
      BY <2>1, <2>4
    <3>2. Minus(c, d) \in Cells
      BY <3>1 DEF Entering
    <3>3. Minus(c, d) \notin tiles
      BY <2>1, <2>3, <2>4, <3>1, <3>2 DEF Bare
    <3>4. ASSUME NEW q \in tiles, c = Plus(q, d) PROVE FALSE
      <4>1. q \in Int \X Int
        BY DEF TypeOK, Cells
      <4>2. Minus(c, d) = q
        BY <2>1, <3>4, <4>1 DEF Plus, Minus
      <4> QED
        BY <3>3, <4>2
    <3> QED
      BY <2>2, <3>1, <3>4 DEF Shifted
  <2> QED
    BY <2>4 DEF Bare
<1>10. ASSUME NEW new, TilesChange(new), UNCHANGED <<owner, mgmt>> PROVE Bare(owner', mgmt', tiles')
  <2>1. mishaps = {} /\ \A c \in new \ tiles : ~(owner[c] # None /\ mgmt[owner[c]] = "strict")
    BY <1>10 DEF TilesChange
  <2> QED
    BY <1>10, <1>b, <2>1 DEF Bare, TilesChange
<1>11. ASSUME InsertDo \/ \E c \in Cells : TileChanges(c) PROVE Bare(owner', mgmt', tiles')
  BY <1>10, <1>11 DEF InsertDo, TileChanges
<1>12. ASSUME NEW b \in Blocks, RemoveBegin(b) \/ FreezeBegin(b) PROVE Bare(owner', mgmt', tiles')
  BY <1>0, <1>12 DEF RemoveBegin, FreezeBegin
<1>13. ASSUME NEW b, NEW S, NEW G, NEW d,
              UnfreezeBegin(b, S) \/ FuseBegin(b, S) \/ MoveBegin(b, S) \/ DeleteBegin(b, S)
                \/ ModifyBegin(b, S, G, d) \/ InsertBegin(b, S)
       PROVE  Bare(owner', mgmt', tiles')
  BY <1>0, <1>13 DEF UnfreezeBegin, FuseBegin, MoveBegin, DeleteBegin, ModifyBegin, InsertBegin
<1>14. ASSUME NEW x, ScrollBegin(x) \/ ScrollLooks \/ ScrollPasses \/ ScrollAsks(x) \/ ScrollGivesUp
                       \/ Return
       PROVE  Bare(owner', mgmt', tiles')
  BY <1>0, <1>14 DEF ScrollBegin, ScrollLooks, ScrollPasses, ScrollAsks, ScrollGivesUp, Return
<1> QED
  BY <1>0, <1>1, <1>2, <1>3, <1>4, <1>5, <1>6, <1>7, <1>8, <1>9, <1>11, <1>12, <1>13, <1>14
     DEF Next, vars

-----------------------------------------------------------------------------
(* The inductive invariant and what follows from it. *)

IInv == TypeOK /\ FramesOK /\ AllFit /\ OwnersMatch /\ OneScroll /\ StrictCellsEmpty

LEMMA InitIInv == Init => IInv
<1> SUFFICES ASSUME Init PROVE IInv
  OBVIOUS
<1>1. calls = <<>> /\ DOMAIN calls = {} /\ calls \in Seq(ProperFrames)
  BY DEF Init
<1>2. TypeOK
  BY InitTypeOK
<1>3. AllFit
  BY <1>1 DEF AllFit, Fits, Init
<1>4. OwnersMatch
  BY DEF OwnersMatch, Init
<1>5. OneScroll
  BY <1>1 DEF OneScroll, Init
<1>6. StrictCellsEmpty
  BY DEF StrictCellsEmpty, Init
<1> QED
  BY <1>1, <1>2, <1>3, <1>4, <1>5, <1>6 DEF IInv, FramesOK

LEMMA IInvStep == IInv /\ [Next]_vars => IInv'
BY TypeStep, FramesStep, FitsStep, OwnersStep, OneScrollStep, StrictStep DEF IInv

THEOREM Invariance == Spec => []IInv
<1>1. Init => IInv
  BY InitIInv
<1>2. IInv /\ [Next]_vars => IInv'
  BY IInvStep
<1> QED
  BY <1>1, <1>2, PTL DEF Spec

(* Types, for any board, any blocks and any depth of nesting. *)
THEOREM TypeCorrect == Spec => []TypeOK
<1>1. IInv => TypeOK
  BY DEF IInv
<1> QED
  BY <1>1, Invariance, PTL

(* The matrix of owners and the blocks in the level never disagree. *)
THEOREM OwnersAlwaysMatch == Spec => []OwnersMatch
<1>1. IInv => OwnersMatch
  BY DEF IInv
<1> QED
  BY <1>1, Invariance, PTL

(* Tiles do not get under strict owners unless somebody puts them there. *)
THEOREM StrictStaysEmpty == Spec => []StrictCellsEmpty
<1>1. IInv => StrictCellsEmpty
  BY DEF IInv
<1> QED
  BY <1>1, Invariance, PTL

(* What an operation needs to find when its listeners have returned, it    *)
(* finds: the locks keep the operations inside it away from its blocks.    *)
THEOREM OperationsAlwaysFit == Spec => []OperationsFit
<1>1. IInv => OperationsFit
  BY DEF IInv, AllFit, Fits, OperationsFit
<1> QED
  BY <1>1, Invariance, PTL

(* Never two scrolls or insertions, one inside another. *)
THEOREM AlwaysOneScroll == Spec => []OneScroll
<1>1. IInv => OneScroll
  BY DEF IInv
<1> QED
  BY <1>1, Invariance, PTL
=============================================================================
