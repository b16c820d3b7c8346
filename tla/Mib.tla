-------------------------------- MODULE Mib ---------------------------------
(***************************************************************************)
(* The variables of the SNMP agent and the operations on them: the list of *)
(* snmib.c, getmib (snhash.c), snleaf.c and the five tables - interfaces   *)
(* (sif_get.c and so on), address translation (sat_), addresses (sae_),    *)
(* routes (srt_) and TCP connections (stc_).                               *)
(*                                                                         *)
(* An object identifier is the sequence of its numbers after the standard  *)
(* prefix; an IP address, four numbers in the code, is one.  The list has  *)
(* a leaf or two of every group and the tables a column of every kind the  *)
(* code tells apart, in the order of the code: the other leaves and        *)
(* columns are read the same way.                                          *)
(***************************************************************************)
EXTENDS Integers, Sequences, FiniteSets, SequencesExt, FiniteSetsExt, Functions

VARIABLES plan,   \* the addresses of the interfaces, what is asked (see Snmp)
          tab     \* arptable, rttable and tcbtab, as far as SNMP shows them

Lex(a, b) ==    \* a comes before b
    \E i \in DOMAIN b : /\ i - 1 <= Len(a)
                        /\ SubSeq(b, 1, i - 1) = SubSeq(a, 1, i - 1)
                        /\ i - 1 = Len(a) \/ a[i] < b[i]
First(S) == CHOOSE x \in S : \A y \in S \ {x} : Lex(x, y)

(***************************************************************************)
(* The list.  mi_next of an entry is the next leaf or table after it.      *)
(***************************************************************************)
Aggregate(oid) == [oid |-> oid, kind |-> "aggregate", type |-> "none", set |-> FALSE]
Leaf(oid, type, set) == [oid |-> oid, kind |-> "leaf", type |-> type, set |-> set]
Table(oid, t) == [oid |-> oid, kind |-> t, type |-> "none", set |-> FALSE]

mib ==
    << Aggregate(<<1>>), Leaf(<<1, 1, 0>>, "str", FALSE),
       Aggregate(<<2>>), Leaf(<<2, 1, 0>>, "int", FALSE),
       Aggregate(<<2, 2>>), Table(<<2, 2, 1>>, "if"),
       Aggregate(<<3>>), Aggregate(<<3, 1>>), Table(<<3, 1, 1>>, "at"),
       Aggregate(<<4>>), Leaf(<<4, 2, 0>>, "int", TRUE),
       Aggregate(<<4, 20>>), Table(<<4, 20, 1>>, "ae"),
       Aggregate(<<4, 21>>), Table(<<4, 21, 1>>, "rt"),
       Aggregate(<<5>>), Aggregate(<<6>>),
       Aggregate(<<6, 13>>), Table(<<6, 13, 1>>, "tc"),
       Aggregate(<<7>>), Leaf(<<7, 4, 0>>, "int", FALSE) >>
LastNode == Len(mib) + 1

NextNode == [i \in DOMAIN mib |->
               Min({j \in i + 1..Len(mib) : mib[j].kind # "aggregate"}
                   \cup {LastNode})]

\* getmib: the entry of exactly this name, or the table the name begins with.
getmib(oid) ==
    {i \in DOMAIN mib : \/ mib[i].oid = oid
                        \/ /\ mib[i].kind \notin {"leaf", "aggregate"}
                           /\ Len(oid) > 3
                           /\ mib[i].oid = SubSeq(oid, 1, 3)}

(***************************************************************************)
(* The columns of each table: the type of the value, and what a SET of it  *)
(* must be for the code to take it ("no": it never is).                    *)
(***************************************************************************)
Col(type, set) == [type |-> type, set |-> set]
Columns ==
    [if |-> <<Col("int", "no"), Col("int", "flag")>>,
     at |-> <<Col("int", "iface"), Col("str", "phys"), Col("ip", "addr")>>,
     ae |-> <<Col("ip", "no"), Col("int", "no")>>,
     rt |-> <<Col("ip", "addr"), Col("int", "type")>>,
     tc |-> <<Col("int", "no"), Col("ip", "no")>>]
Tables == DOMAIN Columns
NumFields(t) == Len(Columns[t])
NodeOf(t) == CHOOSE i \in DOMAIN mib : mib[i].kind = t

\* The rows: of an unused entry no key.  Interfaces are numbered from 1; for
\* the one table that numbers them alone the code takes 0 as well.
Free == [used |-> FALSE]
Used(t) == {s \in DOMAIN tab[t] : tab[t][s] # Free}
RowKey(t, row) == CASE t = "at" -> <<row.ifn, 1, row.pra>>
                    [] t = "rt" -> <<row.net>>
                    [] t = "tc" -> row.key
KeysIn(tables, t) ==
    CASE t = "if" -> {<<i>> : i \in DOMAIN plan.addrs}
      [] t = "ae" -> {<<a>> : a \in Range(plan.addrs)}
      [] OTHER    -> {RowKey(t, r) : r \in Range(tables[t]) \ {Free}}
Keys(t) == KeysIn(tab, t)

Name(t, field, key) == mib[NodeOf(t)].oid \o <<field>> \o key
FieldOf(oid) == oid[4]
KeyOf(oid) == SubSeq(oid, 5, Len(oid))
Matches(t, oid) == /\ Len(oid) > 4
                   /\ FieldOf(oid) <= NumFields(t)
                   /\ KeyOf(oid) \in Keys(t) \cup (IF t = "if" THEN {<<0>>} ELSE {})

After(S, key) == {k \in S : Lex(key, k)}

(***************************************************************************)
(* GETFIRST from an entry of the list on: a leaf, or the first row of the  *)
(* first table that has one.                                               *)
(***************************************************************************)
RECURSIVE GetFirst(_)
GetFirst(i) ==
    IF i = LastNode THEN <<>>
    ELSE IF mib[i].kind = "leaf" THEN mib[i].oid
    ELSE IF Keys(mib[i].kind) = {} THEN GetFirst(NextNode[i])
    ELSE Name(mib[i].kind, 1, First(Keys(mib[i].kind)))

AfterTable(t) == GetFirst(NextNode[NodeOf(t)])

(***************************************************************************)
(* GETNEXT in a table: the name of the next variable, <<>> for none.  The  *)
(* row must still be there.  A name that stops at a column is understood   *)
(* in some tables only (SPECIAL_CASE_COL and so on).                     *)
(***************************************************************************)
\* (for WalkExact) the last column is never reached
BugInOrder(t, field, key) ==
    LET later == After(Keys(t), key)
    IN IF later # {} THEN Name(t, field, First(later))
       ELSE IF field + 1 >= NumFields(t) THEN AfterTable(t)
       ELSE Name(t, field + 1, First(Keys(t)))
InOrder(t, field, key) ==
    LET later == After(Keys(t), key)
    IN IF later # {} THEN Name(t, field, First(later))
       ELSE IF field + 1 > NumFields(t) THEN AfterTable(t)
       ELSE Name(t, field + 1, First(Keys(t)))

sae_getn(oid) ==
    IF Len(oid) = 4 /\ FieldOf(oid) <= NumFields("ae")
    THEN Name("ae", FieldOf(oid), <<plan.addrs[1]>>)
    ELSE IF ~Matches("ae", oid) THEN <<>>
    ELSE InOrder("ae", FieldOf(oid), KeyOf(oid))

sif_getn(oid) ==
    IF ~Matches("if", oid) THEN <<>>
    ELSE InOrder("if", FieldOf(oid), KeyOf(oid))

stc_getn(oid) ==
    IF ~Matches("tc", oid) THEN <<>>
    ELSE InOrder("tc", FieldOf(oid), KeyOf(oid))

\* srt_getn starts the next column with what comes after the four octets at
\* address 0 (plan.zero), for it passes a null route for "none".
RtWrapped(field) ==
    LET from0 == After(Keys("rt"), <<plan.zero>>)
    IN IF from0 = {} THEN <<>> ELSE Name("rt", field, First(from0))
srt_getn(oid) ==
    IF Len(oid) = 4 /\ FieldOf(oid) <= NumFields("rt")
    THEN RtWrapped(FieldOf(oid))
    ELSE IF ~Matches("rt", oid) THEN <<>>
    ELSE LET later == After(Keys("rt"), KeyOf(oid))
         IN IF later # {} THEN Name("rt", FieldOf(oid), First(later))
            ELSE IF FieldOf(oid) + 1 > NumFields("rt") THEN AfterTable("rt")
            ELSE RtWrapped(FieldOf(oid) + 1)

\* sat_getn walks the entries of one interface by address, 0 for none.
sat_findnext(entry, ifn) ==
    LET on == {k[3] : k \in {j \in Keys("at") : j[1] = ifn /\ j[3] > entry}}
    IN IF on = {} THEN 0 ELSE Min(on)

AtTurn(s) ==    \* one turn of its loop
    LET e == sat_findnext(s.entry, s.ifn)
        wraps == s.ifn = Len(plan.addrs)
    IN IF s.found \/ s.field > NumFields("at") THEN s
       ELSE IF e # 0 THEN [s EXCEPT !.entry = e, !.found = TRUE]
       ELSE [entry |-> sat_findnext(0, s.ifn), found |-> FALSE,
             ifn   |-> IF wraps THEN 1 ELSE s.ifn + 1,
             field |-> IF wraps THEN s.field + 1 ELSE s.field]
AtLoop(field, key) ==
    FoldLeft(LAMBDA s, i : AtTurn(s),
             [entry |-> key[3], found |-> FALSE, ifn |-> key[1], field |-> field],
             [i \in DOMAIN plan.addrs |-> i])
AtName(field, ifn, entry) ==
    IF entry = 0 THEN AfterTable("at") ELSE Name("at", field, <<ifn, 1, entry>>)

sat_getn(oid) ==
    IF Len(oid) = 4 /\ FieldOf(oid) <= NumFields("at")
    THEN AtName(FieldOf(oid), 1, sat_findnext(0, 1))
    ELSE IF Len(oid) = 5 /\ FieldOf(oid) <= NumFields("at")
            /\ oid[5] <= Len(plan.addrs)
    THEN AtName(FieldOf(oid), oid[5], sat_findnext(0, oid[5]))
    ELSE IF ~Matches("at", oid) THEN <<>>
    ELSE LET s == AtLoop(FieldOf(oid), KeyOf(oid))
         IN AtName(s.field, s.ifn,
                   IF s.field > NumFields("at") THEN 0 ELSE s.entry)

GetNext(t, oid) == CASE t = "if" -> sif_getn(oid) [] t = "at" -> sat_getn(oid)
                     [] t = "ae" -> sae_getn(oid) [] t = "rt" -> srt_getn(oid)
                     [] t = "tc" -> stc_getn(oid)

(***************************************************************************)
(* GET: the type of the value, "none" when there is no such variable.      *)
(***************************************************************************)
ValueType(oid) ==
    LET at == getmib(oid)
        n  == mib[CHOOSE i \in at : TRUE]
    IN IF at = {} \/ (at # {} /\ n.kind = "aggregate") THEN "none"
       ELSE IF n.kind = "leaf" THEN n.type
       ELSE IF Matches(n.kind, oid) /\ FieldOf(oid) > 0
       THEN Columns[n.kind][FieldOf(oid)].type ELSE "none"

(***************************************************************************)
(* SET of a table: the value must fit, and the row is changed in place - a *)
(* row of routes disappears when its type is made invalid (2).             *)
(***************************************************************************)
Fits(set, val) ==
    CASE set = "flag"  -> val.type = "int" /\ val.v \in {0, 1}
      [] set = "iface" -> val.type = "int" /\ val.v \in DOMAIN plan.addrs
      [] set = "type"  -> val.type = "int" /\ val.v \in 1..4
      [] set = "addr"  -> val.type = "ip"
      [] set = "phys"  -> val.type = "str"

SetRow(t, set, row, val) ==
    CASE set = "iface" -> [row EXCEPT !.ifn = val.v]
      [] set = "addr" /\ t = "at" -> [row EXCEPT !.pra = val.v]
      [] set = "addr" /\ t = "rt" -> [row EXCEPT !.net = val.v]
      [] set = "type" -> IF val.v = 2 THEN Free ELSE row
      [] set \in {"flag", "phys"} -> row

\* The error, "ok" for none, and the tables afterwards.
SetTable(t, oid, val) ==
    LET col == Columns[t][FieldOf(oid)]
        s   == Min({x \in Used(t) : RowKey(t, tab[t][x]) = KeyOf(oid)})
    IN IF ~Matches(t, oid) \/ FieldOf(oid) = 0 THEN [err |-> "noSuch", tab |-> tab]
       ELSE IF col.set = "no" THEN [err |-> "noSuch", tab |-> tab]
       ELSE IF ~Fits(col.set, val) THEN [err |-> "badValue", tab |-> tab]
       ELSE [err |-> "ok",
             tab |-> IF t = "if" THEN tab
                     ELSE [tab EXCEPT ![t][s] = SetRow(t, col.set, @, val)]]

SetLeaf(n, val) == IF ~n.set THEN "noSuch"
                   ELSE IF val.type # n.type THEN "badValue" ELSE "ok"
=============================================================================
