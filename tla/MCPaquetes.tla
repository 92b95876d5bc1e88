----------------------------- MODULE MCPaquetes -----------------------------
(* Instance of Paquetes for TLC: words of four bytes, as in the code, of   *)
(* four values.  The fields of a message are all different, and the two    *)
(* variants of a message differ in every field and in the length of every  *)
(* string.                                                                 *)
EXTENDS Paquetes

Orden == <<"pid", "tid", "PC", "AX", "BX", "CX", "DX", "EX", "FX", "GX", "HX", "Base",
          "Limite", "tamanio_proceso", "prioridad", "tiempo", "dir_fisica",
          "dato_a_escribir">>

Posicion(campo) == CHOOSE i \in DOMAIN Orden : Orden[i] = campo

Valor(campo, v) ==
    CASE campo \in Textos -> IF v = 0 THEN <<0>> ELSE <<3, 1, 0>>
      [] campo = "contenido" -> IF v = 0 THEN <<2>> ELSE <<0, 3, 0>>
      [] campo = "tamanio" -> IF v = 0 THEN 1 ELSE 3
      [] OTHER -> (Posicion(campo) * 7 + v * 129) % 256

MCDatos(campos) ==
    {[c \in ToSet(campos) |-> Valor(c, v)] : v \in IF campos = <<>> THEN {0} ELSE 0..1}
=============================================================================
