----------------------------- MODULE MCProcSyms -----------------------------
(* Two processes: a position-dependent program, a library mapped twice,    *)
(* the vdso, a data file and a library whose text lies higher in the file  *)
(* than in memory; later images of them.                                   *)
EXTENDS ProcSyms

CONSTANTS vdso, prog, lib, low, jar, bad

Sym(v, n) == [value |-> v, name |-> n]
Elf(type, text, delta, syms) == [type |-> type, text |-> text, delta |-> delta, syms |-> syms]

(* Two sections give the library its symbols, one of them twice; two share *)
(* an address, one has no name and one no value.                           *)
MCElf == vdso :> Elf("DYN", TRUE, 0, <<Sym(2, 9)>>)
      @@ prog :> Elf("EXEC", TRUE, 0, <<Sym(4, 3), Sym(2, 1)>>)
      @@ lib  :> Elf("DYN", TRUE, 3, <<Sym(7, 5), Sym(4, 4), Sym(0, 6), Sym(6, 0),
                                       Sym(7, 2), Sym(4, 4)>>)
      @@ low  :> Elf("DYN", TRUE, -3, <<Sym(1, 7)>>)
      @@ jar  :> Elf("NONE", FALSE, 0, <<>>)
      @@ bad  :> Elf("DYN", FALSE, 0, <<Sym(1, 1)>>)
MCReplaced == [MCElf EXCEPT ![lib].syms = <<Sym(5, 8)>>, ![prog].type = "DYN"]

Line(s, e, o, n) == [start |-> s, end |-> e, off |-> o, name |-> n,
                     x |-> TRUE, readable |-> TRUE]
Heap == [Line(18, 19, 0, "[heap]") EXCEPT !.x = FALSE]

I1 == <<Line(1, 6, 0, prog), Line(7, 10, 1, lib), Heap, Line(10, 13, 4, lib),
        Line(13, 15, 0, jar)>>
I2 == <<Line(3, 8, 0, lib), Line(9, 12, 0, vdso), Line(12, 18, 0, low)>>
I3 == <<Line(1, 6, 0, prog), Line(7, 10, 0, bad)>>
I4 == <<Line(1, 6, 0, prog), [Heap EXCEPT !.readable = FALSE]>>
MCImages == {I1, I2, I3, I4}
=============================================================================
