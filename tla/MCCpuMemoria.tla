---------------------------- MODULE MCCpuMemoria ----------------------------
(* Instance of CpuMemoria for TLC: words of two bytes of four values, two  *)
(* partitions of four bytes, and three programs.                           *)
EXTENDS CpuMemoria

I(op, a, b) == [op |-> op, a |-> a, b |-> b]

(* A loop that leaves 3 in HX and in the memory, that reads it back after  *)
(* it was blocked, and starts a thread that reads it too.                  *)
Bucle ==
    <<I("SET", "DX", 1), I("SET", "BX", 2), I("SUM", "HX", "BX"), I("SUB", "BX", "DX"),
      I("JNZ", "BX", 2), I("WRITE_MEM", "DX", "HX"), I("THREAD_CREATE", "", 0),
      I("IO", 1, 0), I("READ_MEM", "CX", "DX"), I("THREAD_EXIT", 0, 0)>>

Lector == <<I("DUMP_MEMORY", 0, 0), I("READ_MEM", "GX", "AX"), I("PROCESS_EXIT", 0, 0)>>

(* Subtracts below zero and accesses memory that is not its own.           *)
Invasor == <<I("SET", "AX", 2), I("WRITE_MEM", "AX", "AX"), I("SUB", "CX", "AX"),
             I("LOG", "CX", 0), I("READ_MEM", "BX", "CX"), I("SET", "CX", 5),
             I("READ_MEM", "BX", "CX"), I("PROCESS_EXIT", 0, 0)>>

MCPrograma(h) ==
    CASE h = <<0, 0>> -> Bucle [] h[1] = 0 -> Lector [] OTHER -> Invasor

(* Programs of the counterexamples: two threads created in a row; a thread *)
(* that ends the process while another one is in a dump; a register of the *)
(* MMU set by the program; no EXIT at the end.                             *)
MCProgramaDoble(h) ==
    IF h = <<0, 0>> THEN <<I("THREAD_CREATE", 0, 0), I("THREAD_CREATE", 0, 0), I("IO", 1, 0),
                           I("THREAD_EXIT", 0, 0)>>
    ELSE <<I("LOG", "AX", 0), I("THREAD_EXIT", 0, 0)>>

MCProgramaVolcado(h) ==
    IF h = <<0, 0>> THEN <<I("THREAD_CREATE", 0, 0), I("DUMP_MEMORY", 0, 0), I("THREAD_EXIT", 0, 0)>>
    ELSE <<I("PROCESS_EXIT", 0, 0)>>

MCProgramaLimite(h) ==
    <<I("SET", "Limite", 2), I("IO", 1, 0), I("THREAD_EXIT", 0, 0)>>

MCProgramaSinFin(h) == <<I("LOG", "AX", 0)>>

(* No dump fails, and a crash is the end. *)
NingunVolcadoFalla == caida = "no" /\ tarea["volcado"] = Libre

MCBase(p) == 4 * p
MCLimite(p) == 4 * p + 4
=============================================================================
