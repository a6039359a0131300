----------------------------- MODULE BoardBlocks -----------------------------
(***************************************************************************)
(* The board of a level and the blocks on it (level.cc, levelblock.cc).    *)
(* The level keeps a matrix that tells which block owns which cell, next   *)
(* to what the blocks themselves know: where they are, their visible       *)
(* bricks and how they are managed.  Every operation changes both sides    *)
(* and tells listeners before and after; the listeners, the blocks and the *)
(* events behind them may start other operations meanwhile.                *)
(***************************************************************************)
EXTENDS Integers, Sequences

CONSTANTS
  Blocks,       \* the LevelBlock instances
  None,         \* no block: nullptr
  Width,        \* m_nW
  Height,       \* m_nH
  Types,        \* the management types in use, see MgmtTypes
  Directions,   \* the directions scrolled to
  Inserts,      \* the areas of the board inserted into, each with the direction
  Shifts,       \* the steps by which blockModify moves a block
  Bodies,       \* the sets of cells that blocks are given, or move to
  MaxDepth,     \* bound: operations on blocks under way, one inside another
  MaxDrift      \* bound: cells that a block may be outside the board when it scrolls

ASSUME NoneAssumption == None \notin Blocks
ASSUME SizeAssumption == Width \in Nat \ {0} /\ Height \in Nat \ {0}
ASSUME DepthAssumption == MaxDepth \in Nat /\ MaxDrift \in Nat

\* LevelBlock::MGMT_TYPE of a block in the level
MgmtTypes == {"normal", "scroll", "owner", "strict"}
ASSUME TypesAssumption == Types \subseteq MgmtTypes
Owning == {"owner", "strict"}
AutoScrolled == {"scroll", "owner", "strict"}

Positions == Int \X Int
ASSUME BodiesAssumption == Bodies \subseteq SUBSET Positions
Cells == (0 .. Width - 1) \X (0 .. Height - 1)
Near == (-MaxDrift .. Width + MaxDrift - 1) \X (-MaxDrift .. Height + MaxDrift - 1)

\* Direction::deltaX and deltaY
Delta == [UP |-> <<0, -1>>, DOWN |-> <<0, 1>>, LEFT |-> <<-1, 0>>, RIGHT |-> <<1, 0>>]
ASSUME DirectionsAssumption == Directions \subseteq DOMAIN Delta
Plus(p, d) == <<p[1] + d[1], p[2] + d[2]>>
Minus(p, d) == <<p[1] - d[1], p[2] - d[2]>>
Shifted(body, d) == {Plus(p, d) : p \in body}
ASSUME InsertsAssumption == Inserts \subseteq (SUBSET Cells) \X DOMAIN Delta
ASSUME ShiftsAssumption == Shifts \subseteq Positions
\* The cells that moving an area pushes out of it, and those it fills.
Leaving(A, d) == {c \in A : Plus(c, d) \notin A}
Entering(A, d) == {c \in A : Minus(c, d) \notin A}

VARIABLES
  owner,       \* m_aOwner: the block that owns each cell, or None
  tiles,       \* m_aBoard: the cells whose tile is not empty
  level,       \* m_oAllLevelBlocks
  mgmt,        \* m_eMgmtType of each block
  body,        \* the positions of its visible bricks in its current shape
  locked,      \* the blocks with m_bNestedModificationLock
  onlyModify,  \* m_bBoardAllowOnlyModify
  calls,       \* the operations under way, the innermost last
  technical,   \* a scroll has been given up: gameStatusTechnical
  mishaps      \* history: what the callers did that the code does not defend against

vars == <<owner, tiles, level, mgmt, body, locked, onlyModify, calls, technical, mishaps>>

(* An operation under way: it is telling its Pre listeners, looking at the *)
(* cells that are scrolled out, or telling its Post listeners.             *)
Phases == {"pre", "loop", "post"}
Ops == {"add", "unfreeze", "remove", "freeze", "fuse", "move", "modify", "delete",
        "scroll", "insert"}
Movers == {"scroll", "insert"}
Frames ==
  [op : Ops, phase : Phases, block : Blocks \cup {None}, other : Blocks \cup {None},
   type : MgmtTypes \cup {"invalid"}, cells : SUBSET Positions, gone : SUBSET Positions,
   by : Int \X Int]
Call(op, b) ==
  [op |-> op, phase |-> "pre", block |-> b, other |-> None, type |-> "invalid",
   cells |-> {}, gone |-> {}, by |-> <<0, 0>>]

(* Two things the callers can do that nothing defends against:             *)
(*   owners   the place of a block has been taken, or a cell outside the   *)
(*            board is addressed, when the operation comes to use it; only *)
(*            assertions look, and nothing goes on from there in the model *)
(*   covered  a tile has been put under a block that shall have none       *)
Lost == "owners" \in mishaps

Top == calls[Len(calls)]
CanCall == ~Lost /\ (calls # <<>> => Top.phase # "loop")
Changing == SelectSeq(calls, LAMBDA f : f.op \notin Movers)
Begin(frame) ==
  /\ CanCall /\ (frame.op \notin Movers => Len(Changing) < MaxDepth)
  /\ calls' = Append(calls, frame)
\* The Pre listeners of the innermost operation have returned.
Does(op) == ~Lost /\ calls # <<>> /\ Top.op = op /\ Top.phase = "pre"
\* The operation is done, tells its Post listeners and forgets what was asked.
Told(frame) == [frame EXCEPT !.phase = "post", !.type = "invalid", !.cells = {},
                             !.gone = {}, !.by = <<0, 0>>]
Done(frame) == calls' = [calls EXCEPT ![Len(calls)] = Told(frame)]

Owns(b) == mgmt[b] \in Owning
CanChange(b) == b \in level /\ b \notin locked
Clear(own, S) == [c \in Cells |-> IF c \in S THEN None ELSE own[c]]
Set(own, S, b) == [c \in Cells |-> IF c \in S THEN b ELSE own[c]]

\* The cells S are on the board and nobody's but b's.
Free(b, S) == S \subseteq Cells /\ \A c \in S : owner[c] \in {None, b}
\* blockCanPlaceOnBoard
CanPlace(b, S, type) == Free(b, S) /\ (type = "strict" => S \cap tiles = {})
\* What happens when b, managed as type, comes to be on the cells S.
Placed(b, S, type) ==
  mishaps' = mishaps \cup (IF type \in Owning /\ ~Free(b, S) THEN {"owners"} ELSE {})
                     \cup (IF type = "strict" /\ S \cap tiles # {} THEN {"covered"} ELSE {})

Init ==
  /\ owner = [c \in Cells |-> None]
  /\ tiles \in SUBSET Cells
  /\ level = {} /\ locked = {}
  /\ mgmt = [b \in Blocks |-> "invalid"]
  /\ body = [b \in Blocks |-> {}]
  /\ onlyModify = FALSE /\ calls = <<>> /\ technical = FALSE /\ mishaps = {}

-----------------------------------------------------------------------------
(* blockAdd: the place is checked before the Pre listeners are called and  *)
(* taken after them.                                                       *)
AddBegin(b, type, S) ==
  /\ b \notin level /\ b \notin locked
  /\ type \in Owning => CanPlace(b, S, type)
  /\ Begin(Call("add", b))
  /\ mgmt' = [mgmt EXCEPT ![b] = type]
  /\ body' = [body EXCEPT ![b] = S]
  /\ locked' = locked \cup {b}
  /\ UNCHANGED <<owner, tiles, level, onlyModify, technical, mishaps>>

AddDo ==
  /\ Does("add") /\ Done(Top)
  /\ LET b == Top.block
     IN  /\ level' = level \cup {b}
         /\ owner' = IF Owns(b) THEN Set(owner, body[b], b) ELSE owner
         /\ Placed(b, body[b], mgmt[b])
  /\ UNCHANGED <<tiles, mgmt, body, locked, onlyModify, technical>>

(* boabloUnfreeze: tiles become a block, which is created after the Pre    *)
(* listeners; strict or not, the tiles are what it is made of.             *)
UnfreezeBegin(type, S) ==
  /\ S # {} /\ S \subseteq tiles
  /\ type \in Owning => \A c \in S : owner[c] = None
  /\ Begin([Call("unfreeze", None) EXCEPT !.type = type, !.cells = S])
  /\ UNCHANGED <<owner, tiles, level, mgmt, body, locked, onlyModify, technical, mishaps>>

\* A faulty variant: the tiles that have become a block stay on the board.
UnfreezeDoKeepingTiles(b) ==
  /\ Does("unfreeze") /\ b \notin level /\ b \notin locked
  /\ Done([Top EXCEPT !.block = b])
  /\ level' = level \cup {b}
  /\ mgmt' = [mgmt EXCEPT ![b] = Top.type]
  /\ body' = [body EXCEPT ![b] = Top.cells]
  /\ owner' = IF Top.type \in Owning THEN Set(owner, Top.cells, b) ELSE owner
  /\ mishaps' = mishaps \cup
       IF Top.cells \subseteq tiles /\ (Top.type \in Owning => Free(b, Top.cells))
       THEN {} ELSE {"owners"}
  /\ locked' = locked \cup {b}
  /\ UNCHANGED <<tiles, onlyModify, technical>>

UnfreezeDo(b) ==
  /\ Does("unfreeze") /\ b \notin level /\ b \notin locked
  /\ LET S == Top.cells
         type == Top.type
     IN  /\ Done([Top EXCEPT !.block = b])
         /\ level' = level \cup {b}
         /\ mgmt' = [mgmt EXCEPT ![b] = type]
         /\ body' = [body EXCEPT ![b] = S]
         /\ tiles' = tiles \ S
         /\ owner' = IF type \in Owning THEN Set(owner, S, b) ELSE owner
         /\ mishaps' = mishaps \cup
              IF S \subseteq tiles /\ (type \in Owning => Free(b, S)) THEN {} ELSE {"owners"}
  /\ locked' = locked \cup {b}
  /\ UNCHANGED <<onlyModify, technical>>

-----------------------------------------------------------------------------
(* Operations that take a block out of the level.                          *)

\* blockRemoveCommon; what the block still contains no longer matters
TakeOut(b) ==
  /\ level' = level \ {b}
  /\ mgmt' = [mgmt EXCEPT ![b] = "invalid"]
Cleared(b) == IF Owns(b) THEN Clear(owner, body[b]) ELSE owner

\* blockRemove and blockDestroy
RemoveBegin(b) ==
  /\ CanChange(b)
  /\ Begin(Call("remove", b))
  /\ locked' = locked \cup {b}
  /\ UNCHANGED <<owner, tiles, level, mgmt, body, onlyModify, technical, mishaps>>

RemoveDo ==
  /\ Does("remove") /\ Done(Top)
  /\ TakeOut(Top.block)
  /\ owner' = Cleared(Top.block)
  /\ body' = [body EXCEPT ![Top.block] = {}]
  /\ UNCHANGED <<tiles, locked, onlyModify, technical, mishaps>>

FreezeBegin(b) ==
  /\ CanChange(b)
  /\ Begin(Call("freeze", b))
  /\ locked' = locked \cup {b}
  /\ UNCHANGED <<owner, tiles, level, mgmt, body, onlyModify, technical, mishaps>>

\* A faulty variant: bricks that are not on the board become tiles, too.
FreezeDoAnywhere ==
  /\ Does("freeze") /\ Done(Top)
  /\ TakeOut(Top.block)
  /\ owner' = Cleared(Top.block)
  /\ tiles' = tiles \cup body[Top.block]
  /\ body' = [body EXCEPT ![Top.block] = {}]
  /\ UNCHANGED <<locked, onlyModify, technical, mishaps>>

(* blockFreeze: the bricks become tiles.  A block that does not own its    *)
(* cells may be outside the board, or over cells of other blocks.          *)
FreezeDo ==
  /\ Does("freeze") /\ Done(Top)
  /\ LET b == Top.block
         covers == \E c \in body[b] \cap Cells :
                     owner[c] \notin {None, b} /\ mgmt[owner[c]] = "strict"
     IN  /\ TakeOut(b)
         /\ owner' = Cleared(b)
         /\ tiles' = tiles \cup (body[b] \cap Cells)
         /\ body' = [body EXCEPT ![b] = {}]
         /\ mishaps' = mishaps \cup (IF body[b] \subseteq Cells THEN {} ELSE {"owners"})
                               \cup (IF covers THEN {"covered"} ELSE {})
  /\ UNCHANGED <<locked, onlyModify, technical>>

\* A faulty variant: the block that will be fused is not locked.
FuseBeginLockingMaster(victim, master) ==
  /\ CanChange(victim) /\ CanChange(master) /\ victim # master
  /\ Begin([Call("fuse", master) EXCEPT !.other = victim])
  /\ locked' = locked \cup {master}
  /\ UNCHANGED <<owner, tiles, level, mgmt, body, onlyModify, technical, mishaps>>

\* fuseTo
FuseBegin(victim, master) ==
  /\ CanChange(victim) /\ CanChange(master) /\ victim # master
  /\ Begin([Call("fuse", master) EXCEPT !.other = victim])
  /\ locked' = locked \cup {master, victim}
  /\ UNCHANGED <<owner, tiles, level, mgmt, body, onlyModify, technical, mishaps>>

(* blockFuse: the cells of the master are cleared whether it owns them or  *)
(* not; a victim that does not own its cells can be anywhere.              *)
FuseDo ==
  /\ Does("fuse") /\ Done(Top)
  /\ LET master == Top.block
         victim == Top.other
         both == body[master] \cup body[victim]
         cleared == Clear(Clear(owner, body[master]),
                          IF Owns(victim) THEN body[victim] ELSE {})
         fits == /\ body[master] \subseteq Cells
                 /\ \A c \in body[master] : owner[c] \in {None, master}
                 /\ Owns(master) => /\ both \subseteq Cells
                                    /\ \A c \in both : owner[c] \in {None, master, victim}
     IN  /\ TakeOut(victim)
         /\ body' = [body EXCEPT ![master] = both, ![victim] = {}]
         /\ owner' = IF Owns(master) THEN Set(cleared, both, master) ELSE cleared
         /\ mishaps' = mishaps
              \cup (IF fits THEN {} ELSE {"owners"})
              \cup (IF mgmt[master] = "strict" /\ body[victim] \cap tiles # {}
                    THEN {"covered"} ELSE {})
  /\ UNCHANGED <<tiles, locked, onlyModify, technical>>

-----------------------------------------------------------------------------
(* blockModify and the callbacks it is called with.                        *)

\* blockMoveRotate by a block that has looked, as the blocks of the games do
MoveBegin(b, S) ==
  /\ CanChange(b)
  /\ Owns(b) => CanPlace(b, S, mgmt[b])
  /\ Begin([Call("move", b) EXCEPT !.cells = S])
  /\ locked' = locked \cup {b}
  /\ UNCHANGED <<owner, tiles, level, mgmt, body, onlyModify, technical, mishaps>>

\* A faulty variant: the cells the block leaves are not cleared.
MoveDoLeavingTrail ==
  /\ Does("move") /\ Done(Top)
  /\ LET b == Top.block
         S == Top.cells
     IN  /\ body' = [body EXCEPT ![b] = S]
         /\ owner' = IF Owns(b) THEN Set(owner, S, b) ELSE owner
         /\ Placed(b, S, mgmt[b])
  /\ UNCHANGED <<tiles, level, mgmt, locked, onlyModify, technical>>

\* callbackMoveRotate: clear the cells of the old shape and place, set the new
MoveDo ==
  /\ Does("move") /\ Done(Top)
  /\ LET b == Top.block
         S == Top.cells
     IN  /\ body' = [body EXCEPT ![b] = S]
         /\ owner' = IF Owns(b) THEN Set(Clear(owner, body[b]), S, b) ELSE owner
         /\ Placed(b, S, mgmt[b])
  /\ UNCHANGED <<tiles, level, mgmt, locked, onlyModify, technical>>

(* LevelBlock::blockModify moves the block by d, takes away or moves the   *)
(* bricks at "gone" and leaves bricks at the cells "new".                  *)
ModifyBegin(b, gone, new, d) ==
  LET rest == Shifted(body[b] \ gone, d)
  IN  /\ CanChange(b) /\ gone \subseteq body[b] /\ rest \cap new = {}
      /\ rest \subseteq Near
      /\ Owns(b) => CanPlace(b, new, mgmt[b])
      /\ Begin([Call("modify", b) EXCEPT !.gone = gone, !.cells = new, !.by = d])
      /\ locked' = locked \cup {b}
      /\ UNCHANGED <<owner, tiles, level, mgmt, body, onlyModify, technical, mishaps>>

(* callbackModify: only the cells of the bricks it is told about change    *)
(* their owner; bricks that move with the block alone lose theirs.         *)
ModifyDo ==
  /\ Does("modify") /\ Done(Top)
  /\ LET b == Top.block
         new == Top.cells
         rest == body[b] \ Top.gone
         moved == Shifted(rest, Top.by)
     IN  /\ body' = [body EXCEPT ![b] = moved \cup new]
         /\ owner' = IF Owns(b) THEN Set(Clear(owner, Top.gone), new, b) ELSE owner
         /\ mishaps' = mishaps
              \cup (IF Owns(b) /\ (moved # rest \/ ~Free(b, new)) THEN {"owners"} ELSE {})
              \cup (IF mgmt[b] = "strict" /\ new \cap tiles # {} THEN {"covered"} ELSE {})
  /\ UNCHANGED <<tiles, level, mgmt, locked, onlyModify, technical>>

\* removeBrick and destroyBrick
DeleteBegin(b, p) ==
  /\ CanChange(b) /\ p \in body[b]
  /\ Begin([Call("delete", b) EXCEPT !.gone = {p}])
  /\ locked' = locked \cup {b}
  /\ UNCHANGED <<owner, tiles, level, mgmt, body, onlyModify, technical, mishaps>>

\* callbackDeleteBrick: clear all cells, set those of the remaining bricks
DeleteDo ==
  /\ Does("delete") /\ Done(Top)
  /\ LET b == Top.block
         rest == body[b] \ Top.gone
     IN  /\ body' = [body EXCEPT ![b] = rest]
         /\ owner' = IF Owns(b) THEN Set(Clear(owner, body[b]), rest, b) ELSE owner
  /\ UNCHANGED <<tiles, level, mgmt, locked, onlyModify, technical, mishaps>>

-----------------------------------------------------------------------------
(* boardScroll, boardInsert and the operations on tiles.                   *)

ScrollBegin(dir) ==
  /\ ~onlyModify
  /\ \A b \in level : body[b] \subseteq Near
  /\ \A i \in DOMAIN calls : calls[i].cells \subseteq Near
  /\ Begin([Call("scroll", None) EXCEPT !.by = Delta[dir]])
  /\ onlyModify' = TRUE
  /\ UNCHANGED <<owner, tiles, level, mgmt, body, locked, technical, mishaps>>

\* The Pre listeners have returned: now the cells that will be scrolled out.
ScrollLooks ==
  /\ Does("scroll")
  /\ calls' = [calls EXCEPT ![Len(calls)] = [Top EXCEPT !.phase = "loop",
                                                       !.cells = Leaving(Cells, Top.by)]]
  /\ UNCHANGED <<owner, tiles, level, mgmt, body, locked, onlyModify, technical, mishaps>>

Looking == ~Lost /\ calls # <<>> /\ Top.phase = "loop"
\* The cells are looked at one by one, to the right or down.
IsNext(c) == c \in Top.cells /\ \A d \in Top.cells : c[1] + c[2] <= d[1] + d[2]
Passed(c) == [Top EXCEPT !.cells = @ \ {c}, !.other = None]

ScrollPasses ==
  /\ Looking
  /\ \E c \in Cells : /\ IsNext(c) /\ owner[c] = None
                      /\ calls' = [calls EXCEPT ![Len(calls)] = Passed(c)]
  /\ UNCHANGED <<owner, tiles, level, mgmt, body, locked, onlyModify, technical, mishaps>>

(* The owner of the cell is frozen, or removed if it refuses to freeze.    *)
(* The frame remembers in "other" which block has been asked.              *)
ScrollAsks(op) ==
  /\ Looking /\ Top.other = None /\ Len(Changing) < MaxDepth
  /\ \E c \in Cells :
       /\ IsNext(c) /\ owner[c] # None /\ owner[c] \notin locked
       /\ calls' = Append([calls EXCEPT ![Len(calls)] = [Top EXCEPT !.other = owner[c]]],
                          Call(op, owner[c]))
       /\ locked' = locked \cup {owner[c]}
  /\ UNCHANGED <<owner, tiles, level, mgmt, body, onlyModify, technical, mishaps>>

(* The cell is owned although a block has been asked to go, or the owner   *)
(* refuses everything or is locked: boardScroll returns at once.           *)
ScrollGivesUp ==
  /\ Looking
  /\ \E c \in Cells : IsNext(c) /\ owner[c] # None
  /\ technical' = TRUE
  /\ calls' = SubSeq(calls, 1, Len(calls) - 1)
  /\ UNCHANGED <<owner, tiles, level, mgmt, body, locked, onlyModify, mishaps>>

\* What is asked of a block is relative to it, and moves with it.
IsScrolled(b) == b \in level /\ mgmt[b] \in AutoScrolled
Carried(frame, d) ==
  IF IsScrolled(frame.block)
  THEN [frame EXCEPT !.cells = Shifted(@, d), !.gone = Shifted(@, d)] ELSE frame

(* Board, owners and the blocks that are scrolled with it move by one. A   *)
(* block that has come back to a cell that was looked at loses it.         *)
ScrollDo ==
  /\ Looking /\ Top.cells = {}
  /\ LET d == Top.by
     IN  /\ calls' = [i \in DOMAIN calls |-> IF i = Len(calls) THEN Told(Top)
                                            ELSE Carried(calls[i], d)]
         /\ owner' = [c \in Cells |-> IF c \in Entering(Cells, d) THEN None
                                    ELSE owner[Minus(c, d)]]
         /\ \E new \in SUBSET Entering(Cells, d) :
              tiles' = new \cup (Shifted(tiles, d) \cap Cells)
         /\ body' = [b \in Blocks |-> IF IsScrolled(b) THEN Shifted(body[b], d) ELSE body[b]]
         /\ mishaps' = mishaps \cup
              IF \E c \in Leaving(Cells, d) : owner[c] # None THEN {"owners"} ELSE {}
  /\ UNCHANGED <<level, mgmt, locked, onlyModify, technical>>

InsertBegin(A, dir) ==
  /\ ~onlyModify
  /\ Begin([Call("insert", None) EXCEPT !.cells = A, !.by = Delta[dir]])
  /\ onlyModify' = TRUE
  /\ UNCHANGED <<owner, tiles, level, mgmt, body, locked, technical, mishaps>>

\* Tiles change and the owners do not: what if a cell is strictly owned?
TilesChange(new) ==
  /\ tiles' = new
  /\ mishaps' = mishaps \cup
       IF \E c \in new \ tiles : owner[c] # None /\ mgmt[owner[c]] = "strict"
       THEN {"covered"} ELSE {}

\* boardInsert: the tiles of the area move, and those inserted come in
InsertDo ==
  /\ Does("insert") /\ Done(Top)
  /\ LET A == Top.cells
         d == Top.by
     IN  \E new \in SUBSET Entering(A, d) :
           TilesChange(new \cup (tiles \ A) \cup (Shifted(tiles \cap A, d) \cap A))
  /\ UNCHANGED <<owner, level, mgmt, body, locked, onlyModify, technical>>

\* boardModify, boardDestroy, boardSetTile
TileChanges(c) ==
  /\ CanCall
  /\ \/ c \notin tiles /\ TilesChange(tiles \cup {c})
     \/ c \in tiles /\ TilesChange(tiles \ {c})
  /\ UNCHANGED <<owner, level, mgmt, body, locked, onlyModify, calls, technical>>

\* A faulty variant: whatever operation returns, the board may be scrolled again.
ReturnAllowingScroll ==
  /\ ~Lost /\ calls # <<>> /\ Top.phase = "post"
  /\ calls' = SubSeq(calls, 1, Len(calls) - 1)
  /\ locked' = locked \ {Top.block, Top.other}
  /\ onlyModify' = FALSE
  /\ UNCHANGED <<owner, tiles, level, mgmt, body, technical, mishaps>>

(* The Post listeners have returned: the operation unlocks its blocks and  *)
(* is over.  onAdded, onScrolled and the like follow: code of the blocks,  *)
(* which starts operations of its own.                                     *)
Return ==
  /\ ~Lost /\ calls # <<>> /\ Top.phase = "post"
  /\ calls' = SubSeq(calls, 1, Len(calls) - 1)
  /\ locked' = locked \ {Top.block, Top.other}
  /\ onlyModify' = (onlyModify /\ Top.op \notin Movers)
  /\ UNCHANGED <<owner, tiles, level, mgmt, body, technical, mishaps>>

Next ==
  \/ \E b \in Blocks, type \in Types, S \in Bodies : AddBegin(b, type, S)
  \/ AddDo
  \/ \E type \in Types, S \in Bodies : UnfreezeBegin(type, S)
  \/ \E b \in Blocks : UnfreezeDo(b)
  \/ \E b \in Blocks : RemoveBegin(b)
  \/ RemoveDo
  \/ \E b \in Blocks : FreezeBegin(b)
  \/ FreezeDo
  \/ \E victim, master \in Blocks : FuseBegin(victim, master)
  \/ FuseDo
  \/ \E b \in Blocks, S \in Bodies : MoveBegin(b, S)
  \/ MoveDo
  \/ \E b \in Blocks, new \in Bodies : \E gone \in SUBSET body[b] :
       \E d \in Shifts : ModifyBegin(b, gone, new, d)
  \/ ModifyDo
  \/ \E b \in Blocks : \E p \in body[b] : DeleteBegin(b, p)
  \/ DeleteDo
  \/ \E dir \in Directions : ScrollBegin(dir)
  \/ ScrollLooks \/ ScrollPasses \/ ScrollGivesUp \/ ScrollDo
  \/ \E op \in {"freeze", "remove"} : ScrollAsks(op)
  \/ \E insert \in Inserts : InsertBegin(insert[1], insert[2])
  \/ InsertDo
  \/ \E c \in Cells : TileChanges(c)
  \/ Return

Spec == Init /\ [][Next]_vars

-----------------------------------------------------------------------------
TypeOK ==
  /\ owner \in [Cells -> Blocks \cup {None}]
  /\ tiles \subseteq Cells
  /\ level \subseteq Blocks /\ locked \subseteq Blocks
  /\ mgmt \in [Blocks -> MgmtTypes \cup {"invalid"}]
  /\ body \in [Blocks -> SUBSET Positions]
  /\ onlyModify \in BOOLEAN /\ technical \in BOOLEAN
  /\ calls \in Seq(Frames)
  /\ mishaps \subseteq {"owners", "covered"}

(* The matrix m_aOwner and the blocks tell the same: a cell is owned by    *)
(* the block in the level that manages its cells and has a visible brick   *)
(* there, by any nesting of adding, moving, modifying, fusing, freezing    *)
(* and scrolling; no two such blocks overlap or leave the board.           *)
OwnersMatch ==
  ~Lost => \A b \in Blocks :
    {c \in Cells : owner[c] = b} = IF b \in level /\ Owns(b) THEN body[b] ELSE {}

(* levelblock.h says of MGMT_TYPE_AUTO_STRICT_OWNER that the tiles of its  *)
(* cells are enforced to be empty: so they stay, as long as nobody puts    *)
(* a tile there, with or without a block around it.                        *)
StrictCellsEmpty ==
  mishaps = {} => \A c \in Cells :
    owner[c] # None /\ mgmt[owner[c]] = "strict" => c \notin tiles

\* The blocks an operation has locked, and what it relies on before it is done.
Involved(f) == IF f.op = "scroll" THEN {} ELSE {f.block, f.other} \ {None}
Ready(f, lev, bricks) ==
  f.phase = "pre" =>
    /\ f.op = "add" => f.block \notin lev
    /\ f.op # "add" => Involved(f) \subseteq lev
    /\ f.op \in {"modify", "delete"} => f.gone \subseteq bricks[f.block]

(* The operations under way agree with the locks of the blocks and with    *)
(* the level: no block is in two of them, and each will find its block     *)
(* where blockAddCommon and blockRemoveCommon assert it to be, with the    *)
(* bricks it has been asked to change.                                     *)
OperationsFit ==
  /\ locked = UNION {Involved(calls[i]) : i \in DOMAIN calls}
  /\ \A i, j \in DOMAIN calls : i # j => Involved(calls[i]) \cap Involved(calls[j]) = {}
  /\ \A i \in DOMAIN calls : Ready(calls[i], level, body)

(* m_bBoardAllowOnlyModify is set exactly while the board is scrolled or   *)
(* inserted into, by one operation at a time, and for ever once a scroll   *)
(* has been given up.                                                      *)
OneScroll ==
  LET Moving == {i \in DOMAIN calls : calls[i].op \in Movers}
  IN  /\ \A i, j \in Moving : i = j
      /\ Moving # {} => onlyModify
      /\ onlyModify /\ ~technical => Moving # {}
=============================================================================
