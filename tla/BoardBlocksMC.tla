---- MODULE BoardBlocksMC ----
EXTENDS BoardBlocks, TLC
SomeBodies == {{<<0, -1>>}, {<<0, 0>>}}
SomeInserts == {<<{<<0, 0>>, <<0, 1>>}, "DOWN">>}
SomeShifts == {<<0, 0>>}
Symmetric == Permutations(Blocks)
====
