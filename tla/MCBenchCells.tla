---------------------------- MODULE MCBenchCells ----------------------------
(* A small instance of BenchCells: a file over the slice, and a smaller one. *)
EXTENDS BenchCells

A == [nome |-> "a", classe |-> "texto", tam |-> 6, sintetico |-> FALSE]
Z == [nome |-> "b", classe |-> "binario", tam |-> 3, sintetico |-> FALSE]
MCArquivos == {A, Z}
MCSelecoes == {{Z}}
MCConfigsDe == [m \in {"inteiro", "bloco"} |-> IF m = "inteiro" THEN {"zstd-3-long27"} ELSE {"zstd-19"}]
MCVelocidade == [c \in {"zstd-3", "zstd-3-long27", "zstd-19"} |-> IF c = "zstd-19" THEN 1 ELSE 3]
MCEcore == [arquivos |-> {"a"}, modos |-> {"inteiro"}, configs |-> {"zstd-3"}]
MCOrdem == <<0>>
MCNs == <<1>>
MCConfigsEscala == <<"zstd-3">>
MCGrupos == {[lista |-> <<<<4, 5>>>>, ns |-> <<2>>], [lista |-> <<<<4, 5>>, <<5, 5>>>>, ns |-> <<2>>]}
==============================================================================
