----------------------------- MODULE MCParamBuf -----------------------------
(***************************************************************************)
(* Inputs for ParamBuf: lists of up to three nodes over an int4 (by value, *)
(* 4 bytes), a uuid (fixed length 16, by reference) and a text (varlena,  *)
(* 12 bytes with its header), each null or not; Params bound in a          *)
(* ParamListInfo of two entries, one typed and one left for the hook.      *)
(***************************************************************************)
EXTENDS ParamBuf

CONSTANTS v1, v2, int4, uuid, text

Int4Const(v) == [kind |-> "Const", isnull |-> FALSE, len |-> 4, byval |-> TRUE, val |-> v, vsize |-> 0]
UuidConst(v) == [kind |-> "Const", isnull |-> FALSE, len |-> 16, byval |-> FALSE, val |-> v, vsize |-> 0]
TextConst(v) == [kind |-> "Const", isnull |-> FALSE, len |-> -1, byval |-> FALSE, val |-> v, vsize |-> 12]
NullConst == [kind |-> "Const", isnull |-> TRUE, len |-> 4, byval |-> TRUE, val |-> v1, vsize |-> 0]
ParamNode(id, t) == [kind |-> "Param", paramid |-> id, paramtype |-> t]
OtherExpr == [kind |-> "Other"]

Prm(t, isnull, v) ==
    [ptype |-> t, isnull |-> isnull, value |-> v,
     typlen |-> CASE t = int4 -> 4 [] t = uuid -> 16 [] t = text -> -1 [] OTHER -> 0,
     byval |-> t = int4, vsize |-> 12]
Untyped == Prm(Invalid, TRUE, v1)

ConstNodes == {Int4Const(v1), UuidConst(v2), TextConst(v1), NullConst}
ParamNodes == {ParamNode(id, t) : id \in 0..3, t \in {int4, text}}
Nodes == ConstNodes \cup ParamNodes \cup {OtherExpr}

\* Every list of one to three nodes of a set S.
ListsOf(S) == UNION {[1..n -> S] : n \in 1..3}

MCConstLists == ListsOf(ConstNodes \cup {OtherExpr})
MCParamLists == {<<Int4Const(v1)>> \o l : l \in ListsOf(ParamNodes)}

MCParamInfos ==
    {NoParamInfo}
    \cup {[fetch |-> f, params |-> <<p, Untyped>>] :
            f \in BOOLEAN, p \in {Prm(int4, FALSE, v2), Prm(text, FALSE, v1), Prm(int4, TRUE, v1)}}

MCHookFills == {Untyped, Prm(int4, FALSE, v1), Prm(text, TRUE, v1), Prm(uuid, FALSE, v2)}
=============================================================================
