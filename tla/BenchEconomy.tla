----------------------------- MODULE BenchEconomy -----------------------------
(***************************************************************************)
(* What compression is worth: bench/economia.py over the cells that         *)
(* syntrabench.py measured, and the estimate of bench/perfil_dataset.py      *)
(* over the classes of a data set, which takes its speeds from economia.py.  *)
(* The two price the same things with formulas of their own.                *)
(*                                                                         *)
(* Fractions and hours of a core per GB are whole numbers of 1 / Esc; money  *)
(* is whole dollars, of 1 / Esc when a GB is priced (economia.py) and of      *)
(* 1 / (Esc^5 * T) in the estimate. What a core loses to the others is the    *)
(* inverse of the efficiency of scale, a whole number: of the load that asks  *)
(* for the cores in economia.py, a parameter in the estimate.               *)
(***************************************************************************)
EXTENDS Naturals, Integers, Sequences, FiniteSets, SequencesExt, FiniteSetsExt

CONSTANTS
    Esc,            \* a multiple of the bytes of any set of files
    Configs,        \* what is measured, in order
    Nucleos         \* cores of a server

ASSUME EconomyAssumption == Esc \in Nat \ {0} /\ Nucleos \in Nat

CAMADAS == {"quente", "morno", "frio"}
Pos(cfg) == CHOOSE i \in DOMAIN Configs : Configs[i] = cfg
MaiorQueZero(x) == IF x > 0 THEN x ELSE 0

\* The first, in the order of Configs, of those worth most.
Melhor(S, valor(_)) ==
    CHOOSE r \in S : \A o \in S :
        valor(r) > valor(o) \/ (valor(r) = valor(o) /\ Pos(r.config) <= Pos(o.config))

----------------------------------------------------------------------------
(***************************************************************************)
(* economia.py. A cell is [arquivo, classe, modo, config, orig, comp, tc,    *)
(* td, exato]; sint are the files made up; p the prices, with the inverse    *)
(* lento of fator and the curve of the efficiency: for each way, from which  *)
(* load on a core loses what, where the code interpolates and solves for n.  *)
(***************************************************************************)
Grupo(x, sint) == {x.classe} \cup (IF x.arquivo \in sint THEN {} ELSE {"mix_real"})

agregar(med, sint) ==
    LET Chaves == UNION {{<<c, x.modo, x.config>> : c \in Grupo(x, sint)} : x \in med}
        De(k) == {x \in med : k[1] \in Grupo(x, sint) /\ x.modo = k[2] /\ x.config = k[3]}
        Soma(k, campo(_)) == MapThenSumSet(campo, De(k))
        Reg(k) ==
            LET orig == Soma(k, LAMBDA x : x.orig)
            IN  [classe |-> k[1], modo |-> k[2], config |-> k[3],
                 s |-> (orig - Soma(k, LAMBDA x : x.comp)) * (Esc \div orig),
                 hc |-> Soma(k, LAMBDA x : x.tc) * (Esc \div orig),
                 hd |-> Soma(k, LAMBDA x : x.td) * (Esc \div orig),
                 arqs |-> {x.arquivo : x \in De(k)},
                 bit_exato |-> \A x \in De(k) : x.exato]
    IN  {Reg(k) : k \in Chaves}

\* On the front: no other saves as much as fast, and more, or faster.
pareto(lista, h(_)) ==
    {r \in lista : ~\E o \in lista : o.s >= r.s /\ h(o) <= h(r) /\ (o.s > r.s \/ h(o) < h(r))}

\* What a core loses at a load; with every core that was measured in use.
perda(tab, carga) == tab[Max({1} \cup {i \in DOMAIN tab : tab[i][1] <= carga})][2]
cheio(tab) == tab[Len(tab)][2]

\* A config fits a server if the cores for the peak are not more than it has.
carga_media(r, p) == p.lento * r.hc
cabe_servidor(r, p) ==
    LET pico == p.pico * carga_media(r, p)
    IN  r.config = "stored" \/ pico * perda(p.curva.comp, pico) <= Nucleos * Esc

\* custo_gb: of hours of a core, at what it loses.
custo_gb(preco, h, p, perde) == preco * h * p.lento * perde

\* perfil: stored costs nothing, and what did not shrink is not decompressed; what is, by as
\* many cores as compressed it.
custo_comp(r, preco, p) ==
    IF r.config = "stored" THEN 0 ELSE custo_gb(preco, r.hc, p, perda(p.curva.comp, carga_media(r, p)))
custo_decomp(r, preco, p) ==
    IF r.config = "stored" \/ r.s <= 0 THEN 0
    ELSE custo_gb(preco, r.hd, p, perda(p.curva.decomp, carga_media(r, p)))

liquido_gb(r, p, cen, camada) ==
    LET valor == MaiorQueZero(r.s) * cen.arm * p.T * p.red
        cpu == custo_comp(r, cen.cpu, p) + p.camadas[camada] * custo_decomp(r, cen.cpu, p)
    IN  [valor |-> valor, cpu |-> cpu, liquido |-> valor - cpu]

\* From the one that saves least to the one that saves most; of equals the fastest first.
Ordenadas(lista) ==
    SetToSortSeq(lista, LAMBDA a, b :
        LET sa == MaiorQueZero(a.s) sb == MaiorQueZero(b.s)
        IN  sa < sb \/ (sa = sb /\ (a.hc < b.hc \/ (a.hc = b.hc /\ Pos(a.config) < Pos(b.config)))))

marginal(lista, p, cen, camada) ==
    LET o == Ordenadas(lista)
        l(r) == liquido_gb(r, p, cen, camada)
    IN  [i \in 1..(Len(o) - 1) |->
            LET d_valor == l(o[i + 1]).valor - l(o[i]).valor
                d_cpu == l(o[i + 1]).cpu - l(o[i]).cpu
            IN  [de |-> o[i].config, para |-> o[i + 1].config, delta |-> d_valor - d_cpu,
                 vale_a_pena |-> d_valor > d_cpu]]

\* recompressao_regra, for an origin and a destination of the same group, without what
\* reading the origin costs: the bug a check of it must find.
recompressao_sem_leitura(o, d, p, cen, camada) ==
    LET ds == MaiorQueZero(d.s) - MaiorQueZero(o.s)
        ganho == ds * cen.arm * p.red
        denom == ganho * p.T - p.camadas[camada] * custo_gb(cen.cpu, d.hd - o.hd, p, cheio(p.curva.decomp))
    IN  [ds |-> ds, repack |-> custo_gb(cen.cpu, d.hc, p, cheio(p.curva.comp)), denom |-> denom,
         vale_algum_dia |-> denom > 0 /\ ds > 0,
         n_max |-> [m \in p.vidas |-> IF ds > 0 THEN <<0, 1>> ELSE <<>>]]

\* Repacking from o to d, with every core in use: it pays after repack * T / denom months;
\* n_max are the reads in the rest of a life that it may have, a fraction (<<>>: none; over 0:
\* as many as you like).
recompressao(o, d, p, cen, camada) ==
    LET ds == MaiorQueZero(d.s) - MaiorQueZero(o.s)
        ganho == ds * cen.arm * p.red
        desc(r) == custo_gb(cen.cpu, r.hd, p, cheio(p.curva.decomp))
        repack == desc(o) + custo_gb(cen.cpu, d.hc, p, cheio(p.curva.comp))
        dcd == desc(d) - desc(o)
        denom == ganho * p.T - p.camadas[camada] * dcd
        n_max(m) ==
            LET bruto == ganho * m - repack
            IN  CASE ds <= 0 -> <<>>
                  [] ds > 0 /\ bruto <= 0 -> <<0, 1>>
                  [] ds > 0 /\ bruto > 0 -> <<bruto, MaiorQueZero(dcd)>>
    IN  [ds |-> ds, repack |-> repack, denom |-> denom, dcd |-> dcd,
         vale_algum_dia |-> denom > 0 /\ ds > 0, n_max |-> [m \in p.vidas |-> n_max(m)]]

recompressao_regra(lista, p, cen, camada) ==
    [x \in {x \in lista \X lista : x[1].config \in p.origens /\ x[2].config \in p.destinos
                                   /\ x[1] # x[2]} |->
        recompressao(x[1], x[2], p, cen, camada)]

\* What a group is worth in a scenario and a layer of reads.
Mesa(lista, p, cen, camada) ==
    LET l(r) == liquido_gb(r, p, cen, camada).liquido
        otimo == Melhor(lista, l)
        restrito == Melhor({r \in lista : cabe_servidor(r, p)}, l)
    IN  [lista |-> lista,
         otimo |-> otimo, otimo_restrito |-> restrito, perda |-> l(otimo) - l(restrito),
         marginal |-> marginal(lista, p, cen, camada),
         recompressao |-> recompressao_regra(lista, p, cen, camada)]

calcular(med, sint, p) ==
    LET recs == agregar(med, sint)
        grupos == {<<r.classe, r.modo>> : r \in recs}
        De(g) == {r \in recs : r.classe = g[1] /\ r.modo = g[2]}
    IN  [recs |-> recs,
         pareto_comp |-> UNION {pareto(De(g), LAMBDA r : r.hc) : g \in grupos},
         mesas |-> [k \in grupos \X p.cenarios \X CAMADAS |-> Mesa(De(k[1]), p, k[2], k[3])]]

----------------------------------------------------------------------------
(***************************************************************************)
(* perfil_dataset.py, estimar. The speeds: what the --config gives, or what  *)
(* economia.py makes of the measurements of the class most like it.         *)
(***************************************************************************)
CANDIDATOS_ASSINCRONOS == <<"zstd-19", "xz-9e">>
Codecs == {"zstd-3", "zstd-19", "xz-9e"}

carregar_vazoes_medidas(med, sint) ==
    LET recs == {r \in agregar(med, sint) : r.modo = "bloco_1MiB"}
        De(k) == CHOOSE r \in recs : r.classe = k[1] /\ r.config = k[2]
    IN  [k \in {<<r.classe, r.config>> : r \in recs} |-> [c |-> De(k).hc, d |-> De(k).hd]]

\* <<>> if there is none: the command stops.
vazao_classe(e, c, cod, medidas) ==
    LET dada == c \in DOMAIN e.vazao /\ cod \in DOMAIN e.vazao[c]
    IN  CASE dada -> e.vazao[c][cod]
          [] ~dada /\ <<e.proxy[c], cod>> \in DOMAIN medidas -> medidas[<<e.proxy[c], cod>>]
          [] OTHER -> <<>>

\* The parameters that are not what they must be stop it too.
ParametrosValidos(P) ==
    /\ P.T > 0 /\ P.ret \in 1..Esc /\ P.hash > 0 /\ P.perda > 0
    /\ \A x \in {P.p, P.cpu, P.cm, P.m, P.n, P.idade} : x >= 0

cpu_gb(P, h) == P.cpu * h * P.perda
info_dup(info, dedup) == IF dedup THEN info.dup ELSE 0
info_fam(info, rd, delta) == IF delta /\ rd # -1 THEN info.fam ELSE 0
fator_delta(phi, rd) == Esc * Esc - (IF phi > 0 THEN phi * (Esc - rd) ELSE 0)

valores(arm, mov, cpu) ==
    [armazenamento |-> arm, movimento |-> mov, cpu |-> cpu, liquido |-> arm + mov - cpu]

avaliar_classe(P, info, pol, h, s, rd, dedup, delta) ==
    LET dd == Esc - info_dup(info, dedup)
        phi == info_fam(info, rd, delta)
        cru == pol.sync = "stored"
        s_c == IF cru THEN 0 ELSE s["zstd-3"]
        fator == IF cru THEN Esc * Esc ELSE fator_delta(phi, rd)
        arm == (Esc ^ 4 - dd * (Esc - s_c) * fator) * P.ret * info.bytes * P.p * P.T * P.T
        mov == s_c * info.bytes * P.cm * P.m * Esc ^ 4 * P.T
        cpu == IF cru THEN 0
               ELSE info.bytes * cpu_gb(P, h["zstd-3"].c + P.n * h["zstd-3"].d) * Esc ^ 4 * P.T
        cpu_hash == IF dedup THEN info.bytes * cpu_gb(P, P.hash) * Esc ^ 4 * P.T ELSE 0
        cpu_delta == IF cru THEN 0 ELSE info.bytes * dd * phi * cpu_gb(P, h["zstd-3"].c) * Esc ^ 2 * P.T
        D == pol.async
        tarde == ~cru /\ D # "nenhum"
        L == MaiorQueZero(P.T - P.idade)
        arm_as == IF tarde THEN (s[D] - s_c) * dd * fator * P.ret * info.bytes * L * P.p * P.T ELSE 0
        cpu_as == IF tarde
                  THEN P.ret * info.bytes * dd * cpu_gb(P, h["zstd-3"].d + h[D].c) * Esc ^ 2 * P.T
                       + info.bytes * P.n * cpu_gb(P, h[D].d - h["zstd-3"].d) * L * Esc ^ 4
                  ELSE 0
    IN  valores(arm + arm_as, mov, cpu + cpu_hash + cpu_delta + cpu_as)

\* The bug a check of it must find: the age at which a block is recompressed is forgotten.
avaliar_assincrono_sem_idade(P, info, h, s, rd, dedup, delta, D) ==
    LET dd == Esc - info_dup(info, dedup)
        denom == (s[D] - s["zstd-3"]) * dd * fator_delta(info_fam(info, rd, delta), rd) * P.p * P.ret * P.T
                 - P.n * cpu_gb(P, h[D].d - h["zstd-3"].d) * Esc ^ 4
        repack == dd * cpu_gb(P, h["zstd-3"].d + h[D].c) * Esc ^ 2 * P.ret * P.T
        nv == denom * P.T - repack
    IN  [destino |-> D, repack |-> repack, denom |-> denom, nv |-> nv,
         paga |-> denom > 0 /\ s[D] > s["zstd-3"] /\ repack < denom * P.T /\ nv > 0]

\* Of a destination; all amounts are of a GB retained, times Esc^4 * ret * T.
avaliar_assincrono(P, info, h, s, rd, dedup, delta, D) ==
    LET dd == Esc - info_dup(info, dedup)
        ds == s[D] - s["zstd-3"]
        L == MaiorQueZero(P.T - P.idade)
        dcd == cpu_gb(P, h[D].d - h["zstd-3"].d)
        denom == ds * dd * fator_delta(info_fam(info, rd, delta), rd) * P.p * P.ret * P.T
                 - P.n * dcd * Esc ^ 4
        repack == dd * cpu_gb(P, h["zstd-3"].d + h[D].c) * Esc ^ 2 * P.ret * P.T
        nv == denom * L - repack
    IN  [destino |-> D, repack |-> repack, denom |-> denom, nv |-> nv,
         paga |-> denom > 0 /\ ds > 0 /\ repack < denom * L /\ nv > 0]

\* The destination that is worth most, the first of them, if any pays.
melhor_destino(av) ==
    LET bons == {i \in DOMAIN av : av[i].paga}
        melhor == CHOOSE i \in bons : \A k \in bons : av[i].nv > av[k].nv \/ (av[i].nv = av[k].nv /\ i <= k)
    IN  IF bons = {} THEN [sync |-> "zstd-3", async |-> "nenhum", nv |-> 0]
        ELSE [sync |-> "zstd-3", async |-> av[melhor].destino, nv |-> av[melhor].nv]

escolher_politica(P, info, h, s, rd, dedup, delta) ==
    LET liq(sync) == avaliar_classe(P, info, [sync |-> sync, async |-> "nenhum"], h, s, rd, dedup, delta).liquido
    IN  IF liq("zstd-3") <= liq("stored") \/ s["zstd-3"] <= 0 THEN [sync |-> "stored", async |-> "nenhum", nv |-> 0]
        ELSE melhor_destino([i \in DOMAIN CANDIDATOS_ASSINCRONOS |->
                avaliar_assincrono(P, info, h, s, rd, dedup, delta, CANDIDATOS_ASSINCRONOS[i])])

\* Of the classes that were sampled: what is doubled, and what is a version of another
\* of what is not; a class the inventory does not know has neither.
monta_infos(e) ==
    [c \in DOMAIN e.por |->
        LET rc == IF c \in DOMAIN e.var THEN e.var[c] ELSE [bytes |-> e.por[c].bytes, dup |-> 0, fam |-> 0]
            unicos == Max({1, rc.bytes - rc.dup})
        IN  [bytes |-> e.por[c].bytes,
             dup |-> (rc.dup * Esc) \div Max({1, rc.bytes}), fam |-> (rc.fam * Esc) \div unicos]]

\* The patch over zstd-3: of the class, of all of them if it has versions, or not known (-1).
razao_delta(e, c) ==
    CASE c \in DOMAIN e.delta -> e.delta[c]
      [] c \notin DOMAIN e.delta /\ e.delta_ag # -1 /\ monta_infos(e)[c].fam > 0 -> e.delta_ag
      [] OTHER -> -1

\* rodada: each class with its policy; totais: all of them.
rodada(e, P, h, dedup, delta) ==
    LET com(c, i, rd, pol) == [pol |-> pol, pt |-> avaliar_classe(P, i, pol, h[c], e.por[c].s, rd, dedup, delta)]
        escolhe(c, i, rd) == com(c, i, rd, escolher_politica(P, i, h[c], e.por[c].s, rd, dedup, delta))
    IN  [c \in DOMAIN e.por |-> escolhe(c, monta_infos(e)[c], razao_delta(e, c))]

totais(r) ==
    [armazenamento |-> MapThenSumSet(LAMBDA c : r[c].pt.armazenamento, DOMAIN r),
     movimento |-> MapThenSumSet(LAMBDA c : r[c].pt.movimento, DOMAIN r),
     cpu |-> MapThenSumSet(LAMBDA c : r[c].pt.cpu, DOMAIN r),
     liquido |-> MapThenSumSet(LAMBDA c : r[c].pt.liquido, DOMAIN r)]

\* With other prices and reads the policies are chosen anew.
sensibilidade(e, h) ==
    LET total(P) == totais(rodada(e, P, h, e.P.dedup, e.P.delta))
    IN  [ret_precos |-> [x \in e.rets \X e.precos |-> total([e.P EXCEPT !.ret = x[1], !.p = x[2].p, !.cpu = x[2].cpu])],
         mov |-> [x \in e.cms \X {1, 3} |-> total([e.P EXCEPT !.cm = x[1], !.m = x[2]])],
         leit |-> [n \in e.leituras |-> total([e.P EXCEPT !.n = n])]]

estimar_economia(e, medidas) ==
    LET h == [c \in DOMAIN e.por |-> [cod \in Codecs |-> vazao_classe(e, c, cod, medidas)]]
        falta == \E c \in DOMAIN e.por, cod \in Codecs : h[c][cod] = <<>>
        r_com == rodada(e, e.P, h, e.P.dedup, e.P.delta)
    IN  IF ~ParametrosValidos(e.P) \/ falta THEN [erro |-> TRUE]
        ELSE [erro |-> FALSE, h |-> h, por_classe |-> r_com, total |-> totais(r_com),
              total_sem |-> totais(rodada(e, e.P, h, FALSE, FALSE)),
              sensibilidade |-> sensibilidade(e, h),
              sem_estimativa |-> DOMAIN e.var \ DOMAIN e.por]
=============================================================================
