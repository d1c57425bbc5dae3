---------------------------- MODULE MCDedupBench ----------------------------
(* Small instances of DedupBench: pairs of versions of three small files. *)
EXTENDS DedupBench, TLC

F(c, s) == [c |-> c, s |-> s]
Curtos == UNION {[1..n -> {0, 1}] : n \in 0..3}
MCPares == {<<<<F(0, a)>>, <<F(0, b), F(1, a)>>>> : a \in Curtos \ {<<>>}, b \in Curtos} \cup {
    \* an edit inside, a file moved, an empty one
    <<<<F(0, <<0, 1, 2, 0, 1, 2>>), F(1, <<2, 2, 1>>), F(2, <<>>)>>,
      <<F(0, <<0, 1, 2, 2, 0, 1, 2>>), F(1, <<>>), F(2, <<2, 2, 1>>)>>>>,
    \* an insertion in front, a copy within the second version
    <<<<F(0, <<0, 0, 1, 1, 2, 2, 0>>), F(1, <<1>>)>>,
      <<F(0, <<2, 0, 0, 1, 1, 2, 2, 0>>), F(1, <<2>>), F(2, <<2, 0, 0, 1, 1, 2, 2, 0>>)>>>>
}
MCGear == [b \in 0..2 |-> <<5, 3, 8>>[b + 1]]
MCChunkers == {[tipo |-> "fixo", alvo |-> 2], [tipo |-> "cdc", alvo |-> 2], [tipo |-> "cdc", alvo |-> 3]}
==============================================================================
