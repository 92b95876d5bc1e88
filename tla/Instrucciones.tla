--------------------------- MODULE Instrucciones ---------------------------
(***************************************************************************)
(* What the instructions of the CPU do to the registers of a thread and to *)
(* the user memory (cpu/src/main.c, memoria/src/main.c), as functions from *)
(* a context and a memory to the next ones.  Registers are unsigned words; *)
(* a memory access moves Ancho bytes, least significant first.             *)
(***************************************************************************)
EXTENDS Integers

CONSTANTS
    Byte,         \* 2^8: values of a byte
    Ancho,        \* sizeof(uint32_t)
    TAM_MEMORIA   \* bytes of the user memory

(* What the byte of each position is worth. *)
Peso[k \in 0..Ancho] == IF k = 0 THEN 1 ELSE Byte * Peso[k - 1]

Palabra == Peso[Ancho]

ASSUME InstruccionesAssumption ==
    Byte \in Nat \ {0} /\ Ancho \in Nat \ {0} /\ TAM_MEMORIA \in 1..Palabra

Registros == {"PC", "AX", "BX", "CX", "DX", "EX", "FX", "GX", "HX", "Base", "Limite"}

(* The context of a new thread of a process with that base and limit. *)
ContextoInicial(base, limite) ==
    [r \in Registros |-> CASE r = "Base" -> base [] r = "Limite" -> limite [] OTHER -> 0]

setear_registro(ctx, r, valor) == [ctx EXCEPT ![r] = valor % Palabra]

incrementar_pc(ctx) == [ctx EXCEPT !.PC = (@ + 1) % Palabra]

sum_registro(ctx, r1, r2) == setear_registro(ctx, r1, ctx[r1] + ctx[r2])

sub_registro(ctx, r1, r2) == setear_registro(ctx, r1, ctx[r1] - ctx[r2])

jnz_pc(ctx, r, destino) ==
    IF ctx[r] # 0 THEN setear_registro(ctx, "PC", destino) ELSE incrementar_pc(ctx)

(* SET, SUM, SUB, JNZ; LOG and the syscalls only move the PC. *)
Calcular(ctx, i) ==
    CASE i.op = "SET" -> incrementar_pc(setear_registro(ctx, i.a, i.b))
      [] i.op = "SUM" -> incrementar_pc(sum_registro(ctx, i.a, i.b))
      [] i.op = "SUB" -> incrementar_pc(sub_registro(ctx, i.a, i.b))
      [] i.op = "JNZ" -> jnz_pc(ctx, i.a, i.b)
      [] OTHER -> incrementar_pc(ctx)

mmu_dirLog_dirfis(ctx, dir_logica) == (dir_logica + ctx.Base) % Palabra

mmu(ctx, dir_logica) == mmu_dirLog_dirfis(ctx, dir_logica) <= ctx.Limite

(* The register that holds the logical address of an access. *)
Direccion(ctx, i) == IF i.op = "READ_MEM" THEN ctx[i.b] ELSE ctx[i.a]

Accede(i) == i.op \in {"READ_MEM", "WRITE_MEM"}

SegFault(ctx, i) == Accede(i) /\ ~mmu(ctx, Direccion(ctx, i))

(* Past the end of the memory the access is undefined behaviour. *)
FueraDeMemoria(ctx, i) ==
    /\ Accede(i) /\ ~SegFault(ctx, i)
    /\ mmu_dirLog_dirfis(ctx, Direccion(ctx, i)) + Ancho > TAM_MEMORIA

leer_memoria(mem, dir_fisica) ==
    LET leido[k \in 0..Ancho] == IF k = 0 THEN 0
                                  ELSE leido[k - 1] + mem[dir_fisica + k - 1] * Peso[k - 1]
    IN  leido[Ancho]

escribir_memoria(mem, dir_fisica, dato) ==
    [d \in DOMAIN mem |->
        IF d \in dir_fisica..dir_fisica + Ancho - 1
        THEN (dato \div Peso[d - dir_fisica]) % Byte ELSE mem[d]]

read_mem(ctx, mem, i) ==
    incrementar_pc(setear_registro(ctx, i.a,
        leer_memoria(mem, mmu_dirLog_dirfis(ctx, Direccion(ctx, i)))))

write_mem(ctx, mem, i) ==
    escribir_memoria(mem, mmu_dirLog_dirfis(ctx, Direccion(ctx, i)), ctx[i.b])
=============================================================================
