------------------------------ MODULE ParamBuf ------------------------------
(***************************************************************************)
(* pgstrom_create_kern_parambuf (src/unnamed/part_000:57-159): the loop    *)
(* that serialises the Const and Param nodes a kernel uses into one        *)
(* kern_parambuf: header, an offset per parameter (0 means null), then the *)
(* values, each padded to STROMALIGN.                                      *)
(*                                                                         *)
(* One iteration of the foreach is one step.  The StringInfo is len, the   *)
(* offsets poffset and the appended values blobs: a blob records where it  *)
(* starts, how many bytes were copied and what they are, a model value for *)
(* the datum of a by-value type or the content of a by-reference one, or   *)
(* "pointer" when the bytes copied are those of the Datum holding a        *)
(* pointer.  index is always cell - 1 (every path increments it once).     *)
(***************************************************************************)
EXTENDS Integers, Sequences

CONSTANTS
    PoffsetBase,   \* offsetof(kern_parambuf, poffset)
    OffsetSz,      \* sizeof(cl_uint), one poffset entry
    Lists,         \* the used_params lists the planner may pass
    ParamInfos,    \* the econtext->ecxt_param_list_info it may be run with
    HookFills,     \* what a paramFetch hook may leave in the ParamExternData
    NoParamInfo    \* a NULL ecxt_param_list_info

Invalid == "invalid"      \* InvalidOid as a ptype
Pointer == "pointer"      \* the bytes of a Datum that holds a pointer

\* STROMALIGN: TYPEALIGN(STROMALIGN_LEN = 8, _).
StromAlign(x) == ((x + 7) \div 8) * 8

VARIABLES used, pinfo, cell, len, poffset, blobs, hdr, pc

vars == <<used, pinfo, cell, len, poffset, blobs, hdr, pc>>

NParams == Len(used)
Index == cell - 1
Node == used[cell]

\* appendBinaryStringInfo of size bytes, then the padding of lines 152-155.
AppendValue(data, size) ==
    /\ blobs' = blobs \cup {[ofs |-> len, size |-> size, data |-> data]}
    /\ len' = StromAlign(len + size)

\* What appendBinaryStringInfo copies for a value of length tlen (lines
\* 90-96 and 138-144): tlen bytes from the Datum itself when tlen > 0, the
\* VARSIZE bytes it points to otherwise.
Copied(tlen, byval, val) == IF tlen > 0 /\ ~byval THEN Pointer ELSE val
CopiedSize(tlen, vsize) == IF tlen > 0 THEN tlen ELSE vsize

Next1 == cell' = cell + 1

\* Lines 79-97: a Const.
ConstStep ==
    /\ pc = "loop" /\ cell <= NParams /\ Node.kind = "Const"
    /\ IF Node.isnull
         THEN /\ poffset' = [poffset EXCEPT ![Index] = 0]
              /\ UNCHANGED <<len, blobs>>
         ELSE /\ poffset' = [poffset EXCEPT ![Index] = len]
              /\ AppendValue(Copied(Node.len, Node.byval, Node.val),
                        CopiedSize(Node.len, Node.vsize))
    /\ Next1
    /\ UNCHANGED <<used, pinfo, hdr, pc>>

InRange(id) == pinfo # NoParamInfo /\ id \in 1..Len(pinfo.params)

\* Lines 102-105: a Param with no ParamListInfo or an id out of range is
\* left null by the memset of line 73.
ParamAbsent ==
    /\ pc = "loop" /\ cell <= NParams /\ Node.kind = "Param"
    /\ ~InRange(Node.paramid)
    /\ Next1
    /\ UNCHANGED <<used, pinfo, len, poffset, blobs, hdr, pc>>

\* Lines 107-111: the ParamExternData after the hook had its chance.
Fetched(prm) ==
    IF prm.ptype = Invalid /\ pinfo.fetch THEN HookFills ELSE {prm}

\* Lines 106-145: a bound Param.
ParamFound ==
    /\ pc = "loop" /\ cell <= NParams /\ Node.kind = "Param"
    /\ InRange(Node.paramid)
    /\ \E prm \in Fetched(pinfo.params[Node.paramid]) :
         /\ pinfo' = [pinfo EXCEPT !.params[Node.paramid] = prm]
         /\ \/ /\ prm.ptype = Invalid                          \* 114-120
               /\ poffset' = [poffset EXCEPT ![Index] = 0]
               /\ Next1 /\ UNCHANGED <<len, blobs, pc>>
            \/ /\ prm.ptype # Invalid /\ prm.ptype # Node.paramtype  \* 122-128
               /\ pc' = "error"
               /\ UNCHANGED <<cell, len, poffset, blobs>>
            \/ /\ prm.ptype = Node.paramtype /\ prm.isnull     \* 129-130
               /\ poffset' = [poffset EXCEPT ![Index] = 0]
               /\ Next1 /\ UNCHANGED <<len, blobs, pc>>
            \/ /\ prm.ptype = Node.paramtype /\ ~prm.isnull /\ prm.typlen = 0
               /\ pc' = "error"                                \* 135-137
               /\ UNCHANGED <<cell, len, poffset, blobs>>
            \/ /\ prm.ptype = Node.paramtype /\ ~prm.isnull /\ prm.typlen # 0
               /\ AppendValue(Copied(prm.typlen, prm.byval, prm.value),
                         CopiedSize(prm.typlen, prm.vsize))    \* 138-144
               /\ Next1 /\ UNCHANGED <<poffset, pc>>
    /\ UNCHANGED <<used, hdr>>

\* Lines 149-150: any other node kind.
OtherNode ==
    /\ pc = "loop" /\ cell <= NParams /\ Node.kind = "Other"
    /\ pc' = "error"
    /\ UNCHANGED <<used, pinfo, cell, len, poffset, blobs, hdr>>

\* Lines 159-161: the header is filled in after the loop.
Finish ==
    /\ pc = "loop" /\ cell > NParams
    /\ hdr' = [length |-> len, nparams |-> NParams]
    /\ pc' = "done"
    /\ UNCHANGED <<used, pinfo, cell, len, poffset, blobs>>

\* Lines 70-73: the header and offset array, zeroed and aligned.
Init ==
    /\ used \in Lists
    /\ pinfo \in ParamInfos
    /\ cell = 1
    /\ len = StromAlign(PoffsetBase + OffsetSz * Len(used))
    /\ poffset = [i \in 0..Len(used) - 1 |-> 0]
    /\ blobs = {}
    /\ hdr = [length |-> 0, nparams |-> 0]
    /\ pc = "loop"

Next == ConstStep \/ ParamAbsent \/ ParamFound \/ OtherNode \/ Finish

Spec == Init /\ [][Next]_vars

-----------------------------------------------------------------------------
(* Properties *)

\* The value parameter i stands for, as spec 4.4 describes it: null for a
\* null Const, an unbound or untyped Param or a null one, else its datum.
Expected(i) ==
    LET nd == used[i]
    IN  IF nd.kind = "Const"
          THEN IF nd.isnull THEN [null |-> TRUE]
               ELSE [null |-> FALSE, data |-> nd.val,
                     size |-> CopiedSize(nd.len, nd.vsize)]
        ELSE IF ~InRange(nd.paramid) THEN [null |-> TRUE]
        ELSE LET prm == pinfo.params[nd.paramid]
             IN  IF prm.ptype = Invalid \/ prm.isnull THEN [null |-> TRUE]
                 ELSE [null |-> FALSE, data |-> prm.value,
                       size |-> CopiedSize(prm.typlen, prm.vsize)]

\* A kernel reading the finished buffer finds every parameter as the query
\* bound it: offset 0 exactly for the null ones, and at a non-zero offset
\* the bytes of the value, for Consts (lines 84-96) and Params (129-144).
ParamsReadBack ==
    pc = "done" =>
        \A i \in 1..NParams :
            LET e == Expected(i)
            IN  IF e.null THEN poffset[i - 1] = 0
                ELSE \E b \in blobs : /\ b.ofs = poffset[i - 1] /\ b.ofs # 0
                                      /\ b.data = e.data /\ b.size = e.size
=============================================================================
