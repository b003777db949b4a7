\* Up to two accounts, which then share their name, and two expenses of 1 or 2.
CONSTANTS
  Ana = Ana
  Luis = Luis
  Eva = Eva
  Nombres = {Casa}
  Personas <- MCPersonas
  Cien = 200000
  Repartos <- MCRepartos
  Cantidades = {1, 2}
  Personal = Personal
  Nadie = Nadie
  MaxCuentas = 2
  MaxGastos = 2
  MaxLineas = 2
  MaxSaldo = 200000
  MaxDescuadre = 40
  MaxSucesos = 1
  MaxViejos = 1
SPECIFICATION Spec
INVARIANT Guardado
INVARIANT Cuadran
INVARIANT SumaCero
INVARIANT SinHuerfanos
