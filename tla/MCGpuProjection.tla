-------------------------- MODULE MCGpuProjection --------------------------
(***************************************************************************)
(* GpuProjection with two blocks of two warps over a kds_in of three or    *)
(* four rows.  A slot row takes 16 bytes after a 16-byte head and a row    *)
(* needs 0 or 8 extra bytes, so a 64-byte kds_slot holds two to three      *)
(* rows: some blocks pass and some fail each of the checks.                *)
(***************************************************************************)
EXTENDS GpuProjection

(* Both blocks are interchangeable only in name: their rows differ, so no *)
(* symmetry is declared.                                                   *)
MCNItemsIn == {3, 4}

=============================================================================
