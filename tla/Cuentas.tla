------------------------------- MODULE Cuentas -------------------------------
(***************************************************************************)
(* AppGastos: expenses and shared accounts with the balance of each        *)
(* member.  Every change rewrites cuentas.json, gastos.json or both, whole *)
(* and one after the other; the program may be stopped between two writes  *)
(* or in the middle of one, and a file that cannot be read back counts as  *)
(* an empty list.  A write that fails is reported nowhere but on stderr:   *)
(* the operation goes on, and the file stays as it was or is spoilt.       *)
(*                                                                         *)
(* The program has one thread: an operation changes the memory at once and *)
(* leaves in todo the writes it makes, in order.  Accounts and people are  *)
(* told apart by name, as their equals() do; names that differ only in     *)
(* case are left out.  Percentages are whole numbers of which Cien make    *)
(* 100%, and balances are counted in parts of Cien; the rounding of double *)
(* is left out too.                                                        *)
(***************************************************************************)
EXTENDS Integers, Sequences, FiniteSets, SequencesExt

CONSTANTS
  Nombres,      \* names of accounts
  Personas,     \* names of people
  Cien,         \* 100%, in the unit of the percentages
  Repartos,     \* percentages the form for new accounts lets through
  Cantidades,   \* amounts
  Personal,     \* the account of an expense that has none
  Nadie,        \* no payer
  MaxCuentas, MaxGastos, MaxLineas,     \* bounds: accounts, expenses, lines of a file
  MaxSaldo,                             \* bound: balance of a member
  MaxDescuadre,                         \* bound: sum of the balances, if the percentages do not make 100
  MaxSucesos, MaxViejos                 \* bounds: mishaps in a history, files out of date at a time

\* A personal expense has no account, and may have no payer.  The form wants two members
\* at least, and percentages that add up to 100 give or take 0.01.
ASSUME CuentasAssumption ==
  /\ Personal \notin Nombres /\ Nadie \notin Personas
  /\ Cantidades \subseteq Int /\ Cien \in Nat \ {0}
  /\ \A f \in Repartos : /\ IsFiniteSet(DOMAIN f) /\ DOMAIN f \subseteq Personas /\ f \in [DOMAIN f -> Int]
                         /\ Cardinality(DOMAIN f) >= 2
                         /\ 10000 * (SumFunction(f) - Cien) \in -Cien..Cien

VARIABLES
  cuentas, gastos,   \* listaCuentas and listaGastos, of the repositories
  activa,            \* position of cuentaActiva in cuentas, 0 if null
  todo,              \* the writes the operation in course has yet to make
  disco,             \* cuentas.json and gastos.json
  viejos,            \* the files whose last write failed
  sucesos            \* what has happened that may spoil the balances

vars == <<cuentas, gastos, activa, todo, disco, viejos, sucesos>>

Ficheros == {"cuentas", "gastos"}

Lineas == BoundedSeq([pagador : Personas \cup {Nadie}, cantidad : Cantidades], MaxLineas)

Init ==
  /\ cuentas = <<>> /\ gastos = <<>> /\ activa = 0 /\ todo = <<>>
  /\ disco = [cuentas |-> <<>>, gastos |-> <<>>]
  /\ viejos = {} /\ sucesos = {}

\* One of those things happens.
Suceso(x) == /\ x \notin sucesos /\ Cardinality(sucesos) < MaxSucesos
             /\ sucesos' = sucesos \cup {x}

-----------------------------------------------------------------------------
\* Accounts

NuevaCuenta(n, f) == [nombre |-> n, porcentaje |-> f, saldo |-> [p \in DOMAIN f |-> 0]]

\* What a member gains when another, or he, pays.  And if the payer were not charged
\* his part.
SoloCobra(m, pagador, cantidad, porcentaje) ==
  IF m = pagador THEN Cien * cantidad ELSE -(cantidad * porcentaje)
Ganancia(m, pagador, cantidad, porcentaje) ==
  (IF m = pagador THEN Cien * cantidad ELSE 0) - cantidad * porcentaje

\* actualizarBalance() on one account; nothing if there is no payer.
Balance(c, pagador, cantidad) ==
  IF pagador = Nadie THEN c
  ELSE [c EXCEPT !.saldo = [m \in DOMAIN c.saldo |->
          c.saldo[m] + Ganancia(m, pagador, cantidad, c.porcentaje[m])]]

\* The accounts after that, at position k.
Pagado(cs, k, pagador, cantidad) == [cs EXCEPT ![k] = Balance(@, pagador, cantidad)]

Contexto == IF activa = 0 THEN Personal ELSE cuentas[activa].nombre

Visibles == {i \in DOMAIN gastos : gastos[i].cuenta = Contexto}

Gasto(n, pagador, cantidad) == [cuenta |-> n, pagador |-> pagador, cantidad |-> cantidad]

\* The writes of the two repositories.
GuardaCuentas(cs) == <<[fichero |-> "cuentas", lista |-> cs]>>
GuardaGastos(gs)  == <<[fichero |-> "gastos", lista |-> gs]>>

\* What the percentages of an account leave to nobody: nothing, or a hundredth of a
\* percent at most.
Resto(c) == Cien - SumFunction(c.porcentaje)

\* An operation begins when the previous one has ended.
Opera(cs, gs, escrituras) ==
  /\ todo = <<>>
  /\ Len(cs) <= MaxCuentas /\ Len(gs) <= MaxGastos
  /\ \A k \in DOMAIN cs : /\ \A m \in DOMAIN cs[k].saldo : cs[k].saldo[m] \in -MaxSaldo..MaxSaldo
                          /\ Resto(cs[k]) # 0 => SumFunction(cs[k].saldo) \in -MaxDescuadre..MaxDescuadre
  /\ cuentas' = cs /\ gastos' = gs /\ todo' = escrituras
  /\ UNCHANGED <<disco, viejos>>

-----------------------------------------------------------------------------
\* The controller

anadirPersonal(cantidad) ==
  LET gs == Append(gastos, Gasto(Personal, Nadie, cantidad)) IN
    /\ activa = 0
    /\ Opera(cuentas, gs, GuardaGastos(gs))
    /\ UNCHANGED <<activa, sucesos>>

anadirCompartido(pagador, cantidad) ==
  /\ activa # 0 /\ pagador \in DOMAIN cuentas[activa].saldo
  /\ LET cs == Pagado(cuentas, activa, pagador, cantidad)
         gs == Append(gastos, Gasto(Contexto, pagador, cantidad))
     IN Opera(cs, gs, GuardaCuentas(cs) \o GuardaGastos(gs))
  /\ UNCHANGED <<activa, sucesos>>

\* The balance without the expense is saved last, and only in a shared account.  And
\* if it were not saved.
NoGuardaSaldos(cs) == <<>>
GuardaSaldos(cs)   == IF activa = 0 THEN <<>> ELSE GuardaCuentas(cs)

eliminarGasto(i) ==
  LET g  == gastos[i]
      gs == RemoveAt(gastos, i)
      cs == IF activa = 0 THEN cuentas ELSE Pagado(cuentas, activa, g.pagador, -g.cantidad)
  IN /\ Opera(cs, gs, GuardaGastos(gs) \o GuardaSaldos(cs))
     /\ UNCHANGED <<activa, sucesos>>

editarPersonal(i, cantidad) ==
  LET gs == [gastos EXCEPT ![i].cantidad = cantidad] IN
    /\ activa = 0
    /\ Opera(cuentas, gs, GuardaGastos(gs))
    /\ UNCHANGED <<activa, sucesos>>

\* The accounts once the old amount is taken back from its payer.  And if it were
\* taken from the new one.
DevueltoPor(g, pagador) == Pagado(cuentas, activa, pagador, -g.cantidad)
Devuelto(g, pagador)    == Pagado(cuentas, activa, g.pagador, -g.cantidad)

\* The terminal passes no payer: the old one stays, and is not paid again.
editarCompartido(i, pagador, cantidad) ==
  /\ activa # 0 /\ pagador \in DOMAIN cuentas[activa].saldo \cup {Nadie}
  /\ LET g   == gastos[i]
         cs1 == Devuelto(g, pagador)
         cs2 == Pagado(cs1, activa, pagador, cantidad)
         gs  == [gastos EXCEPT ![i] =
                   Gasto(g.cuenta, IF pagador = Nadie THEN g.pagador ELSE pagador, cantidad)]
     IN Opera(cs2, gs,
              GuardaCuentas(cs1) \o (IF pagador = Nadie THEN <<>> ELSE GuardaCuentas(cs2))
                \o GuardaGastos(gs))
  /\ IF pagador = Nadie THEN Suceso("terminal") ELSE UNCHANGED sucesos
  /\ UNCHANGED activa

\* The name is not looked for among those in use.
crearCompartida(n, f) ==
  /\ LET cs == Append(cuentas, NuevaCuenta(n, f))
     IN Opera(cs, gastos, GuardaCuentas(cs) \o GuardaCuentas(cs))
  /\ IF \E k \in DOMAIN cuentas : cuentas[k].nombre = n
       THEN Suceso("repetida") ELSE UNCHANGED sucesos
  /\ UNCHANGED activa

\* The writes of a deletion: the expenses one by one, then the accounts.  And the
\* other way round.
PrimeroCuenta(borrados, cs) == GuardaCuentas(cs) \o borrados
PrimeroGastos(borrados, cs) == borrados \o GuardaCuentas(cs)

\* The active account after the first of name n, at position i, goes: personal mode if
\* it had that name.
ActivaTras(n, i) == IF Contexto = n THEN 0 ELSE IF activa > i THEN activa - 1 ELSE activa

\* One of the expenses that were there: if it is of account n the first of that account
\* goes, which is itself, and the rest is saved.
Borrado(s, g, n) ==
  LET gs == RemoveFirstMatch(s.gs, LAMBDA h : h.cuenta = n)
  IN  IF g.cuenta = n THEN [gs |-> gs, todo |-> s.todo \o GuardaGastos(gs)] ELSE s

SinGastosDe(n) ==
  LET s[i \in 0..Len(gastos)] ==
        IF i = 0 THEN [gs |-> gastos, todo |-> <<>>] ELSE Borrado(s[i - 1], gastos[i], n)
  IN  s[Len(gastos)]

\* Position of the first account of that name, 0 if there is none.
Primera(n) == SelectInSeq(cuentas, LAMBDA c : c.nombre = n)

\* The expenses that go are found by name; so is the account, the first of that name.
eliminarCompartida(k) ==
  LET n  == cuentas[k].nombre
      s  == SinGastosDe(n)
      cs == RemoveAt(cuentas, Primera(n))
  IN /\ Opera(cs, s.gs, PrimeroGastos(s.todo, cs) \o GuardaCuentas(cs) \o GuardaGastos(s.gs))
     /\ activa' = ActivaTras(n, Primera(n))
     /\ UNCHANGED sucesos

-----------------------------------------------------------------------------
\* The import of a file.  The lines of different accounts are dealt with one account
\* after the other, so each action takes those of one.

importarPersonales(lineas) ==
  LET Con(j) == gastos \o [h \in 1..j |-> Gasto(Personal, Nadie, lineas[h].cantidad)] IN
    /\ lineas # <<>>
    /\ Opera(cuentas, Con(Len(lineas)), [j \in DOMAIN lineas |-> [fichero |-> "gastos", lista |-> Con(j)]])
    /\ UNCHANGED <<activa, sucesos>>

\* One line of account k: an error (no payer) ends the import, an unknown payer is
\* ignored, a member pays.
Importada(s, l, k) ==
  IF s.error \/ l.pagador = Nadie THEN [error |-> TRUE, cs |-> s.cs, gs |-> s.gs, todo |-> s.todo]
  ELSE IF l.pagador \notin DOMAIN s.cs[k].saldo THEN s
  ELSE LET gs == Append(s.gs, Gasto(s.cs[k].nombre, l.pagador, l.cantidad))
           cs == Pagado(s.cs, k, l.pagador, l.cantidad)
       IN [error |-> FALSE, cs |-> cs, gs |-> gs,
           todo |-> s.todo \o GuardaGastos(gs) \o GuardaCuentas(cs)]

Importadas(lineas, k) ==
  LET s[j \in 0..Len(lineas)] ==
        IF j = 0 THEN [error |-> FALSE, cs |-> cuentas, gs |-> gastos, todo |-> <<>>]
        ELSE Importada(s[j - 1], lineas[j], k)
  IN  s[Len(lineas)]

importarExistente(n, lineas) ==
  LET s == Importadas(lineas, Primera(n))
  IN /\ Primera(n) # 0
     /\ Opera(s.cs, s.gs, s.todo \o (IF s.error THEN <<>> ELSE GuardaCuentas(s.cs)))
     /\ s.todo # <<>>
     /\ UNCHANGED <<activa, sucesos>>

\* The members of a new account are created and not put in it: the first expense
\* finds no payer, and the import ends there.
importarNueva(n, lineas) ==
  LET pagadores == {lineas[j].pagador : j \in DOMAIN lineas}
      cs        == Append(cuentas, NuevaCuenta(n, <<>>))
  IN /\ \A k \in DOMAIN cuentas : cuentas[k].nombre # n
     /\ Nadie \notin pagadores /\ Cardinality(pagadores) > 1
     /\ Opera(cs, gastos, GuardaCuentas(cs))
     /\ UNCHANGED <<activa, sucesos>>

-----------------------------------------------------------------------------
\* entrarModoPersonal() and entrarModoCompartido()
entrar(k) ==
  /\ todo = <<>> /\ activa # k
  /\ activa' = k
  /\ UNCHANGED <<cuentas, gastos, todo, disco, viejos, sucesos>>

\* The next write of the operation.
Escribir ==
  /\ todo # <<>>
  /\ disco' = [disco EXCEPT ![Head(todo).fichero] = Head(todo).lista]
  /\ viejos' = viejos \ {Head(todo).fichero}
  /\ todo' = Tail(todo)
  /\ UNCHANGED <<cuentas, gastos, activa, sucesos>>

\* It fails: the IOException is printed, and nobody is told.
Fallo ==
  /\ todo # <<>> /\ Cardinality(sucesos) < MaxSucesos
  /\ Cardinality(viejos \cup {Head(todo).fichero}) <= MaxViejos
  /\ disco' \in {disco, [disco EXCEPT ![Head(todo).fichero] = <<>>]}
  /\ viejos' = viejos \cup {Head(todo).fichero}
  /\ todo' = Tail(todo)
  /\ UNCHANGED <<cuentas, gastos, activa, sucesos>>

\* The program ends, or is stopped between two writes, and starts again.  What a write
\* that failed had to say is lost.
Arranca(d) ==
  /\ cuentas' = d.cuentas /\ gastos' = d.gastos /\ activa' = 0
  /\ todo' = <<>> /\ disco' = d /\ viejos' = {}

Reinicio ==
  /\ Arranca(disco)
  /\ CASE viejos # {} -> Suceso("perdida")
       [] viejos = {} /\ todo # <<>> -> Suceso("corte")
       [] OTHER -> UNCHANGED sucesos

\* It is stopped in the middle of a write: that file cannot be read back.
Rotura ==
  /\ todo # <<>>
  /\ Arranca([disco EXCEPT ![Head(todo).fichero] = <<>>])
  /\ Suceso("rotura")

Operacion ==
  \/ \E x \in Cantidades :
        \/ anadirPersonal(x)
        \/ \E p \in Personas : anadirCompartido(p, x)
        \/ \E i \in Visibles : editarPersonal(i, x)
        \/ \E i \in Visibles, p \in Personas \cup {Nadie} : editarCompartido(i, p, x)
  \/ \E i \in Visibles : eliminarGasto(i)
  \/ \E n \in Nombres, f \in Repartos : crearCompartida(n, f)
  \/ \E k \in DOMAIN cuentas : eliminarCompartida(k)
  \/ \E lineas \in Lineas :
        \/ importarPersonales(lineas)
        \/ \E n \in Nombres : importarExistente(n, lineas) \/ importarNueva(n, lineas)
  \/ \E k \in 0..Len(cuentas) : entrar(k)

Next == Operacion \/ Escribir \/ Fallo \/ Reinicio \/ Rotura

Spec == Init /\ [][Next]_vars

-----------------------------------------------------------------------------

\* When an operation ends, a file whose last write did not fail holds what is in memory:
\* no operation forgets to save a list that it has changed, and a write that failed is
\* made good by the next one of that file.
Guardado ==
  todo = <<>> =>
    \A f \in Ficheros \ viejos : disco[f] = [cuentas |-> cuentas, gastos |-> gastos][f]

\* The expenses of an account, and the amounts of the expenses I.
Suyos(c) == {i \in DOMAIN gastos : gastos[i].cuenta = c.nombre}

Importe(I) == SumFunctionOnSet([i \in DOMAIN gastos |-> gastos[i].cantidad], I)

\* What a member is owed: what he has paid for the account, less his part of all.
Debido(c, m) ==
  Cien * Importe({i \in Suyos(c) : gastos[i].pagador = m}) - c.porcentaje[m] * Importe(Suyos(c))

\* The balances are those that the expenses give, however they were added, edited,
\* deleted or imported, and across restarts: unless an expense was edited in the
\* terminal, two accounts share a name, the program was stopped half way, or it started
\* again without what a write that failed had to say.
Cuadran ==
  sucesos = {} =>
    \A k \in DOMAIN cuentas : \A m \in DOMAIN cuentas[k].saldo :
      cuentas[k].saldo[m] = Debido(cuentas[k], m)

\* The balances of an account add up to zero on the disk, if its percentages add up to
\* 100, even if the program was stopped between any two writes.  If they do not, the
\* balances add up to what the percentages leave out of the expenses, and no other.
SumaCero ==
  /\ viejos = {} /\ sucesos \cap {"repetida", "rotura", "perdida"} = {} =>
       \A k \in DOMAIN disco.cuentas :
         Resto(disco.cuentas[k]) = 0 => SumFunction(disco.cuentas[k].saldo) = 0
  /\ sucesos = {} =>
       \A k \in DOMAIN cuentas :
         SumFunction(cuentas[k].saldo) = Resto(cuentas[k]) * Importe(Suyos(cuentas[k]))

\* No expense is left on the disk without its account, whenever the program is stopped
\* between two writes, once the writes that failed have been made good.
SinHuerfanos ==
  viejos = {} /\ sucesos \cap {"rotura", "perdida"} = {} =>
    \A i \in DOMAIN disco.gastos :
      disco.gastos[i].cuenta \in {disco.cuentas[k].nombre : k \in DOMAIN disco.cuentas} \cup {Personal}
=============================================================================
