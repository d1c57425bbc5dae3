----------------------------- MODULE ProfileScan -----------------------------
(***************************************************************************)
(* The walk, the reader and the duplicate search of bench/perfil_dataset.py *)
(* over a tree that other programs change meanwhile.  The walk lists a      *)
(* directory in one step and opens each subdirectory in another; a worker   *)
(* opens the ancestors it has not cached, opens the file, and reads it, in  *)
(* three kinds of steps.  Names in the code's words.                        *)
(*                                                                         *)
(* A name is its rank in the byte order, a hash is what was hashed, and a   *)
(* stamp (mtime) is never given twice.  An inode may be reused.             *)
(***************************************************************************)
EXTENDS Naturals, Sequences, FiniteSets, SequencesExt

CONSTANTS
    MaxNome,            \* the names are 1..MaxNome
    Root,
    Nodes,              \* the inodes
    Kind,               \* "dir", "file", "link" or "other", by inode
    Dev,                \* the device of each inode
    Perm,               \* by inode: "rx", "r" (the entries cannot be examined),
                        \* "none" (cannot be opened) or "io" (cannot be listed)
    Trees, Bytes,       \* the trees, and the bytes of the files, a run may begin with
    Datas,              \* what a file may hold, a sequence of windows
    Workers,
    CacheMax,           \* directories a reader keeps open (48)
    ProfMax, MaxArquivos, HashCompleto,
    MaxEdits            \* how often other programs change the tree

None == 0
ASSUME NodesAssumption ==
    Nodes \subseteq Nat \ {None} /\ IsFiniteSet(Nodes) /\ Root \in Nodes
ASSUME BoundsAssumption ==
    /\ CacheMax \in Nat \ {0} /\ MaxEdits \in Nat
    /\ MaxNome \in Nat /\ ProfMax \in Nat \ {0} /\ MaxArquivos \in Nat

Names == 1..MaxNome
Dirs == {d \in Nodes : Kind[d] = "dir"}
Files == {f \in Nodes : Kind[f] = "file"}
ASSUME TreesAssumption ==
    /\ Kind \in [Nodes -> {"dir", "file", "link", "other"}] /\ Kind[Root] = "dir"
    /\ Trees \subseteq [Dirs -> [Names -> Nodes \cup {None}]]
    /\ Bytes \subseteq [Files -> Seq(Nat)] /\ Datas \subseteq Seq(Nat)
\* The root was opened before the walk (abrir_raiz); a directory has one name.
ASSUME RootAssumption ==
    /\ Perm \in [Nodes -> {"rx", "r", "none", "io"}] /\ Perm[Root] # "none"
    /\ \A t \in Trees : \A d, e \in Dirs, m, n \in Names :
          t[d][m] \in Dirs => t[d][m] # Root /\ (t[e][n] = t[d][m] => e = d /\ n = m)

VARIABLES
    tree,       \* the entries of each directory
    node,       \* the bytes and the stamp of each file
    edits,
    v,          \* Varredura, with the stack of open directories and the hardlinks met
    fase,       \* the step of the pipeline
    todo,       \* the tasks of this step not yet given to a worker
    job,        \* what each worker is doing
    cache,      \* Leitor.cache of each worker, oldest first
    res,        \* h_amostra, h_completo: the hash of each file
    grupos,     \* the groups of duplicates found so far
    lidos       \* history: the pairs of a record and the inode read for it

fsVars == <<tree, node, edits>>
taskVars == <<job, cache, res>>
vars == <<fsVars, v, fase, todo, taskVars, grupos, lidos>>

Entries == {e \in Dirs \X Names : tree[e[1]][e[2]] # None}
NLink(i) == Cardinality({e \in Entries : tree[e[1]][e[2]] = i})
Arqs == 1..Len(v.arquivos)
Tam(i) == v.arquivos[i].tam

\* An Arq: the entry as it was when its directory was listed.
Arq(did, n, i) ==
    [dir |-> did, nome |-> n, tam |-> Len(node[i].data), mtime |-> node[i].mtime,
     ino |-> i, classe |-> "?", status |-> "-"]

Varredura == [arquivos |-> <<>>, dirs |-> <<<<0, 0>>>>, ignorados |-> <<>>,
              vistos |-> {}, truncada |-> FALSE, pilha |-> <<>>]

NoJob == [i |-> 0, at |-> "idle", ino |-> None]
NoHash == [h |-> <<>>, completo |-> FALSE, ok |-> FALSE]

Init ==
    /\ tree \in Trees
    /\ node \in {[f \in Files |-> [data |-> b[f], mtime |-> 0]] : b \in Bytes}
    /\ edits = 0
    /\ v = Varredura
    /\ fase = "inicio"
    /\ todo = {}
    /\ job = [w \in Workers |-> NoJob]
    /\ cache = [w \in Workers |-> <<>>]
    /\ res = <<>>
    /\ grupos = {}
    /\ lidos = {}

----------------------------------------------------------------------------
(***************************************************************************)
(* Other programs: new bytes in a file, an entry that is removed, or leads  *)
(* to something else: another file (a hard link, or an inode that was free),*)
(* a symbolic link, another directory.                                      *)
(***************************************************************************)
Edit == edits < MaxEdits /\ edits' = edits + 1
        /\ UNCHANGED <<v, fase, todo, taskVars, grupos, lidos>>

Rewrite(i, x) ==
    /\ Edit
    /\ node' = [node EXCEPT ![i] = [data |-> x, mtime |-> edits']]
    /\ UNCHANGED tree

Relink(d, n, i) ==
    /\ Edit
    /\ i # tree[d][n] /\ i # Root
    /\ i \in Dirs => NLink(i) = 0
    /\ tree' = [tree EXCEPT ![d][n] = i]
    /\ IF i \in Files /\ NLink(i) = 0
          THEN \E x \in Datas : node' = [node EXCEPT ![i] = [data |-> x, mtime |-> edits']]
          ELSE UNCHANGED node

----------------------------------------------------------------------------
(***************************************************************************)
(* varrer_arvore.                                                          *)
(***************************************************************************)
\* The type listar_dir gives an entry of directory d.
Tipo(d, n) ==
    LET i == tree[d][n] IN
    IF Kind[i] = "link" THEN "l"
    ELSE IF Kind[i] = "other" THEN "o"
    ELSE IF Perm[d] = "r" THEN "e"
    ELSE IF Kind[i] = "dir" THEN "d" ELSE "f"

\* The elements of s that are in ns, in their order.
Filtrar(s, ns) ==
    LET passa(r, n) == IF n \in ns THEN Append(r, n) ELSE r IN FoldLeft(passa, <<>>, s)

listar_dir(d) == Filtrar([n \in Names |-> n], {n \in Names : tree[d][n] # None})

Ignorar(x, motivo, did, n) == [x EXCEPT !.ignorados = Append(@, <<motivo, did, n>>)]

\* The bug a check of it must find: hard links are inventoried again.
InventariarSemVistos(x, did, n, i) ==
    IF MaxArquivos > 0 /\ Len(x.arquivos) >= MaxArquivos THEN [x EXCEPT !.truncada = TRUE]
    ELSE [x EXCEPT !.arquivos = Append(@, Arq(did, n, i)), !.vistos = @ \cup {i}]

Inventariar(x, did, n, i) ==
    IF MaxArquivos > 0 /\ Len(x.arquivos) >= MaxArquivos THEN [x EXCEPT !.truncada = TRUE]
    ELSE IF NLink(i) > 1 /\ i \in x.vistos THEN Ignorar(x, "hardlink_repetido", did, n)
    ELSE [x EXCEPT !.arquivos = Append(@, Arq(did, n, i)),
                   !.vistos = IF NLink(i) > 1 THEN @ \cup {i} ELSE @]

Descida(d, prof, n) ==
    IF prof + 1 > ProfMax THEN "profundidade_maxima"
    ELSE IF Dev[tree[d][n]] # Dev[Root] THEN "outro_dispositivo"
    ELSE "entra"

Entrada(x, d, did, prof, n) ==
    CASE Tipo(d, n) = "l" -> Ignorar(x, "link_simbolico", did, n)
      [] Tipo(d, n) = "o" -> Ignorar(x, "nao_regular", did, n)
      [] Tipo(d, n) = "e" -> Ignorar(x, "erro_stat", did, n)
      [] Tipo(d, n) = "f" -> Inventariar(x, did, n, tree[d][n])
      [] OTHER -> IF Descida(d, prof, n) = "entra" THEN x
                  ELSE Ignorar(x, Descida(d, prof, n), did, n)

Subdirs(d, prof) ==
    Filtrar(listar_dir(d), {n \in Names : /\ tree[d][n] # None /\ Tipo(d, n) = "d"
                                         /\ Descida(d, prof, n) = "entra"})

Entradas(x, d, did, prof) ==
    LET lista(y, n) == Entrada(y, d, did, prof, n) IN FoldLeft(lista, x, listar_dir(d))

entrar(x, did, d, prof) ==
    IF Perm[d] = "io"
    THEN Ignorar(x, "erro_io", x.dirs[did][1], x.dirs[did][2])
    ELSE LET frame == [did |-> did, dir |-> d, prof |-> prof, subdirs |-> Subdirs(d, prof)]
         IN  [Entradas(x, d, did, prof) EXCEPT !.pilha = Append(@, frame)]

VarrerRaiz ==
    /\ fase = "inicio"
    /\ fase' = "varrer"
    /\ v' = entrar(v, 1, Root, 0)
    /\ UNCHANGED <<fsVars, todo, taskVars, grupos, lidos>>

\* What open(nome, FLAGS_DIR, dir_fd) answers now.
AbreDir(d, n) ==
    LET i == tree[d][n] IN
    IF i = None THEN "removido_durante_leitura"
    ELSE IF Kind[i] # "dir" THEN "nao_regular"
    ELSE IF Perm[i] = "none" THEN "sem_permissao_diretorio" ELSE "aberto"

Descer ==
    /\ fase = "varrer" /\ v.pilha # <<>>
    /\ LET fr == Last(v.pilha)
           n  == Head(fr.subdirs)
           x  == [v EXCEPT !.pilha[Len(v.pilha)].subdirs = Tail(fr.subdirs)]
       IN  /\ fr.subdirs # <<>>
           /\ v' = IF AbreDir(fr.dir, n) # "aberto"
                   THEN Ignorar(x, AbreDir(fr.dir, n), fr.did, n)
                   ELSE entrar([x EXCEPT !.dirs = Append(@, <<fr.did, n>>)],
                               Len(v.dirs) + 1, tree[fr.dir][n], fr.prof + 1)
    /\ UNCHANGED <<fsVars, fase, todo, taskVars, grupos, lidos>>

Subir ==
    /\ fase = "varrer" /\ v.pilha # <<>>
    /\ Last(v.pilha).subdirs = <<>>
    /\ v' = [v EXCEPT !.pilha = Front(@)]
    /\ UNCHANGED <<fsVars, fase, todo, taskVars, grupos, lidos>>

----------------------------------------------------------------------------
(***************************************************************************)
(* The reader and the tasks of the pool (executar: fork and imap_unordered; *)
(* with one process the reader, and its cache, outlive the step).           *)
(***************************************************************************)
ComecarFase(f, tarefas) ==
    /\ fase' = f
    /\ todo' = tarefas
    /\ cache' = IF Cardinality(Workers) > 1 THEN [w \in Workers |-> <<>>] ELSE cache
    /\ UNCHANGED <<fsVars, job, lidos>>

Classificar ==
    /\ fase = "varrer" /\ v.pilha = <<>>
    /\ ComecarFase("classificar", Arqs)
    /\ res' = [i \in Arqs |-> NoHash]
    /\ UNCHANGED <<v, grupos>>

Pegar(w) ==
    /\ job[w].at = "idle" /\ todo # {}
    /\ LET i == CHOOSE k \in todo : \A m \in todo : k <= m IN
       /\ todo' = todo \ {i}
       /\ IF fase = "classificar" /\ Tam(i) = 0
             THEN v' = [v EXCEPT !.arquivos[i].classe = "vazio"] /\ UNCHANGED job
             ELSE job' = [job EXCEPT ![w] = [i |-> i, at |-> "abrir", ino |-> None]]
                  /\ UNCHANGED v
    /\ UNCHANGED <<fsVars, fase, cache, res, grupos, lidos>>

\* A task that fails: the reason becomes the status of the file.
Falha(w, motivo) ==
    LET i == job[w].i IN
    /\ job' = [job EXCEPT ![w] = NoJob]
    /\ v' = [v EXCEPT
         !.arquivos[i].classe = IF fase = "classificar" THEN "ilegivel" ELSE @,
         !.arquivos[i].status = IF fase = "classificar" \/ @ = "-" THEN motivo ELSE @]

\* The directory a reader has open under a number of dirs, if any.
Aberto(w, did) ==
    IF did = 1 THEN Root
    ELSE LET ks == {k \in DOMAIN cache[w] : cache[w][k].did = did}
         IN  IF ks = {} THEN None ELSE cache[w][CHOOSE k \in ks : TRUE].dir

\* caminho: a directory of the inventory and those above it.
Linhagem[did \in DOMAIN v.dirs] == IF did = 1 THEN {1} ELSE {did} \cup Linhagem[v.dirs[did][1]]

\* The nearest to the root of those a reader still has to open.
Faltando(w, did) ==
    LET abertos == {k \in Linhagem[did] : Aberto(w, k) # None}
    IN  CHOOSE k \in Linhagem[did] :
            /\ k > Max(abertos)
            /\ \A m \in Linhagem[did] : m > Max(abertos) => k <= m

Guardar(c, e) == LET novo == Append(c, e) IN IF Len(novo) > CacheMax THEN Tail(novo) ELSE novo

\* fd_dir opens one directory below one it has open, by its name.
fd_dir(w) ==
    LET alvo == v.arquivos[job[w].i].dir
        did  == Faltando(w, alvo)
        pai  == Aberto(w, v.dirs[did][1])
        n    == v.dirs[did][2]
    IN  /\ job[w].at = "abrir" /\ Aberto(w, alvo) = None
        /\ IF AbreDir(pai, n) = "aberto"
              THEN /\ cache' = [cache EXCEPT ![w] = Guardar(@, [did |-> did, dir |-> tree[pai][n]])]
                   /\ UNCHANGED <<job, v>>
              ELSE Falha(w, AbreDir(pai, n)) /\ UNCHANGED cache
        /\ UNCHANGED <<fsVars, fase, todo, res, grupos, lidos>>

\* open, fstat, and the comparison with the inode of the inventory.
Conferir(a, i) ==
    IF i = None THEN "removido_durante_leitura"
    ELSE IF Kind[i] = "link" THEN "link_simbolico"
    ELSE IF Kind[i] # "file" THEN "nao_regular"
    ELSE IF Perm[i] = "none" THEN "sem_permissao_leitura"
    ELSE IF i # a.ino THEN "substituido_durante_leitura" ELSE "aberto"

abrir(w) ==
    LET a == v.arquivos[job[w].i]
        i == tree[Aberto(w, a.dir)][a.nome]
    IN  /\ job[w].at = "abrir" /\ Aberto(w, a.dir) # None
        /\ IF Conferir(a, i) = "aberto"
              THEN job' = [job EXCEPT ![w].at = "ler", ![w].ino = i] /\ UNCHANGED v
              ELSE Falha(w, Conferir(a, i))
        /\ UNCHANGED <<fsVars, fase, todo, cache, res, grupos, lidos>>

\* A window is one element: JANELA_HASH = 1.
ler(dados, off, n) == SubSeq(dados, off + 1, IF off + n < Len(dados) THEN off + n ELSE Len(dados))

tarefa_classificar(a, dados, mtime) ==
    [classe |-> IF dados = <<>> THEN "vazio" ELSE "conteudo",
     status |-> IF Len(dados) # a.tam \/ mtime # a.mtime THEN "alterado_durante_leitura" ELSE "-"]

\* The bug a check of it must find: the hash of a sample counts as whole.
tarefa_hash_amostra_basta(a, dados) ==
    IF a.tam <= 3
    THEN [h |-> ler(dados, 0, a.tam), completo |-> TRUE, ok |-> TRUE]
    ELSE [h |-> ler(dados, 0, 1) \o ler(dados, (a.tam - 1) \div 2, 1) \o ler(dados, a.tam - 1, 1),
          completo |-> TRUE, ok |-> TRUE]

tarefa_hash_amostra(a, dados) ==
    IF a.tam <= 3
    THEN [h |-> ler(dados, 0, a.tam), completo |-> TRUE, ok |-> TRUE]
    ELSE [h |-> ler(dados, 0, 1) \o ler(dados, (a.tam - 1) \div 2, 1) \o ler(dados, a.tam - 1, 1),
          completo |-> FALSE, ok |-> TRUE]

tarefa_hash_completo(a, dados) == [h |-> dados, completo |-> TRUE, ok |-> TRUE]

Ler(w) ==
    LET i == job[w].i
        a == v.arquivos[i]
        f == node[job[w].ino]
        c == tarefa_classificar(a, f.data, f.mtime)
    IN  /\ job[w].at = "ler"
        /\ job' = [job EXCEPT ![w] = NoJob]
        /\ lidos' = lidos \cup {<<i, job[w].ino>>}
        /\ CASE fase = "classificar" ->
                  /\ v' = [v EXCEPT !.arquivos[i].classe = c.classe, !.arquivos[i].status = c.status]
                  /\ UNCHANGED res
             [] fase = "hash_amostra" ->
                  res' = [res EXCEPT ![i] = tarefa_hash_amostra(a, f.data)] /\ UNCHANGED v
             [] fase = "hash_completo" ->
                  res' = [res EXCEPT ![i] = tarefa_hash_completo(a, f.data)] /\ UNCHANGED v
        /\ UNCHANGED <<fsVars, fase, todo, cache, grupos>>

----------------------------------------------------------------------------
(***************************************************************************)
(* etapa_dedup.                                                            *)
(***************************************************************************)
Ociosos == todo = {} /\ \A w \in Workers : job[w].at = "idle"

legivel(i) == v.arquivos[i].classe # "ilegivel"

Candidatos ==
    {i \in Arqs : /\ Tam(i) > 0 /\ legivel(i)
                  /\ \E j \in Arqs \ {i} : legivel(j) /\ Tam(j) = Tam(i)}

HashAmostra ==
    /\ fase = "classificar" /\ Ociosos
    /\ ComecarFase(IF HashCompleto THEN "hash_completo" ELSE "hash_amostra", Candidatos)
    /\ UNCHANGED <<v, res, grupos>>

\* The bug a check of it must find: pairs are not groups.
AgruparTodos(ids) ==
    LET com(i) == {j \in ids : Tam(j) = Tam(i) /\ res[j].h = res[i].h}
    IN  {g \in {com(i) : i \in ids} : Cardinality(g) > 2}

\* The files of ids that a hash of this step puts together, two or more at a time.
Agrupar(ids) ==
    LET com(i) == {j \in ids : Tam(j) = Tam(i) /\ res[j].h = res[i].h}
    IN  {g \in {com(i) : i \in ids} : Cardinality(g) > 1}

Lidos == {i \in Arqs : res[i].ok}

HashCompletos ==
    /\ fase = "hash_amostra" /\ Ociosos
    /\ LET gs == Agrupar(Lidos)
           inteiros == {g \in gs : \A i \in g : res[i].completo}
           pend == UNION (gs \ inteiros)
       IN  /\ grupos' = inteiros
           /\ res' = [i \in Arqs |-> IF i \in UNION inteiros THEN res[i] ELSE NoHash]
           /\ ComecarFase("hash_completo", pend)
    /\ UNCHANGED v

FimDedup ==
    /\ fase = "hash_completo" /\ Ociosos
    /\ fase' = "fim"
    /\ grupos' = grupos \cup Agrupar(Lidos \ UNION grupos)
    /\ UNCHANGED <<fsVars, v, todo, taskVars, lidos>>

Primeiro(g) == CHOOSE i \in g : \A j \in g : i <= j
Redundantes == UNION {g \ {Primeiro(g)} : g \in grupos}

SomaTam(ids) == LET soma(i, x) == x + Tam(i) IN FoldSet(soma, 0, ids)

montar_dedup ==
    [grupos |-> Cardinality(grupos), arquivos_redundantes |-> Cardinality(Redundantes),
     bytes_duplicados |-> SomaTam(Redundantes)]

----------------------------------------------------------------------------
Programs ==
    /\ edits < MaxEdits
    /\ \/ \E i \in Files, x \in Datas : Rewrite(i, x)
       \/ \E d \in Dirs, n \in Names, i \in Nodes \cup {None} : Relink(d, n, i)

varrer_arvore == VarrerRaiz \/ Descer \/ Subir
Worker(w) == Pegar(w) \/ fd_dir(w) \/ abrir(w) \/ Ler(w)
etapa_dedup == Classificar \/ HashAmostra \/ HashCompletos \/ FimDedup

Next == Programs \/ varrer_arvore \/ etapa_dedup \/ \E w \in Workers : Worker(w)

Spec == Init /\ [][Next]_vars

----------------------------------------------------------------------------
(***************************************************************************)
(* Properties.                                                             *)
(***************************************************************************)
\* The directories the walk should enter in a tree that nobody changes: those a
\* path of openable directories of one device, no deeper than prof_max, leads to.
Alcance[k \in Nat] ==
    IF k = 0 THEN {Root}
    ELSE {tree[e[1]][e[2]] : e \in {x \in Entries : /\ x[1] \in Alcance[k - 1]
                                                   /\ Perm[x[1]] = "rx"
                                                   /\ tree[x[1]][x[2]] \in Dirs
                                                   /\ Perm[tree[x[1]][x[2]]] # "none"
                                                   /\ Dev[tree[x[1]][x[2]]] = Dev[Root]}}

Alcancados == UNION {Alcance[k] : k \in 0..ProfMax}
Alcancaveis == {i \in Files : \E e \in Entries : /\ tree[e[1]][e[2]] = i
                                              /\ e[1] \in Alcancados
                                              /\ Perm[e[1]] = "rx"}
Varrida == fase \notin {"inicio", "varrer"}
Ignorado(did, n) == \E k \in DOMAIN v.ignorados : v.ignorados[k][2] = did /\ v.ignorados[k][3] = n

\* In a tree nobody changed, varrer_arvore meets every file it can reach exactly
\* once, hard links, depth, devices and refusals considered, or says that it
\* stopped at max_arquivos; and what it enters and what it ignores never overlap
\* with what it inventoried.
ScanExact ==
    edits = 0 /\ Varrida =>
        /\ IF v.truncada
              THEN Len(v.arquivos) = MaxArquivos
              ELSE {v.arquivos[i].ino : i \in Arqs} = Alcancaveis
        /\ \A i, j \in Arqs : i # j => v.arquivos[i].ino # v.arquivos[j].ino
        /\ \A i \in Arqs : ~ Ignorado(v.arquivos[i].dir, v.arquivos[i].nome)
        /\ Cardinality({<<v.ignorados[k][2], v.ignorados[k][3]>> : k \in DOMAIN v.ignorados})
             = Len(v.ignorados)

Atual(i) == node[v.arquivos[i].ino]
Inalterado(i) == Atual(i).mtime = v.arquivos[i].mtime

\* Whatever other programs put under the names meanwhile, a task reads no inode but
\* the one the walk met under the name of the record; and two files that etapa_dedup
\* declares duplicates, and that nobody has changed since the walk, hold the same
\* bytes, although each was opened by its name, later, and sampled; no file is in
\* two groups.
RedundantIsCopy ==
    /\ \A r \in lidos : r[2] = v.arquivos[r[1]].ino
    /\ fase = "fim" =>
        \A g \in grupos :
            /\ \A i, j \in g : Inalterado(i) /\ Inalterado(j) => Atual(i).data = Atual(j).data
            /\ \A h \in grupos \ {g} : g \cap h = {}

\* In a tree nobody changed the duplicate search, which reads whole only what size
\* and sample cannot tell apart, finds every copy: what it counts as duplicated
\* is all the readable bytes but one file of each content.
CopiesAreFound ==
    fase = "fim" /\ edits = 0 =>
        LET lidas == {i \in Arqs : legivel(i)}
            unicas == {i \in lidas : \A j \in lidas : Atual(j).data = Atual(i).data => i <= j}
        IN  /\ montar_dedup.bytes_duplicados = SomaTam(lidas) - SomaTam(unicas)
            /\ montar_dedup.arquivos_redundantes + montar_dedup.grupos
                 = Cardinality(UNION grupos)
=============================================================================
