------------------------------- MODULE Marshal --------------------------------
(***************************************************************************)
(* How values become D-Bus messages and back (common/mafw-dbus.c).         *)
(*                                                                         *)
(* A message is a sequence of items, what a DBusMessageIter walks over:    *)
(* a D-Bus type, for arrays and variants the type inside, and the value.   *)
(* An argument is what is handed to mafw_dbus_msg(), and wanted is what    *)
(* the receiver says it expects.  Values are carried over as they are but  *)
(* where C changes them: characters and unsigned numbers.                  *)
(* Appending or parsing that fails aborts the process (_die()).            *)
(***************************************************************************)
EXTENDS Integers, Sequences, SequencesExt

CONSTANTS
  UintMod,      \* 2^32
  CharMod,      \* 2^8
  NotAvailable  \* MAFW_EXTENSION_ERROR_EXTENSION_NOT_AVAILABLE

ASSUME WidthAssumption == UintMod \in Nat \ {0} /\ CharMod \in Nat \ {0}

Unsigned(n, mod) == n % mod
Signed(n, mod) == IF n >= mod \div 2 THEN n - mod ELSE n

Dies == [dies |-> TRUE]

-----------------------------------------------------------------------------
(* GValues *)

\* The D-Bus type of a GValue that is sent; no other GType can be.
DBusType == [CHAR |-> "y", BOOLEAN |-> "b", INT |-> "i", UINT |-> "u",
             INT64 |-> "x", UINT64 |-> "t", DOUBLE |-> "d", STRING |-> "s"]

\* Mutant: unsigned numbers come back signed.
GType_signed == [y |-> "CHAR", b |-> "BOOLEAN", i |-> "INT", u |-> "INT",
                 x |-> "INT64", t |-> "UINT64", d |-> "DOUBLE", s |-> "STRING"]

\* The GType of a GValue that is received.
GType == [y |-> "CHAR", b |-> "BOOLEAN", i |-> "INT", u |-> "UINT",
          x |-> "INT64", t |-> "UINT64", d |-> "DOUBLE", s |-> "STRING"]

clever_append_gvalue(g) ==
  [sig |-> "v", el |-> DBusType[g.gtype],
   val |-> IF g.gtype = "CHAR" THEN Unsigned(g.val, CharMod) ELSE g.val]

clever_parse_gvalue(item) ==
  LET gtype == GType[item.el]
  IN  [gtype |-> gtype,
       val |-> IF gtype = "CHAR" THEN Signed(item.val, CharMod) ELSE item.val]

-----------------------------------------------------------------------------
(* Arguments *)

Basic(type, v) == [arg |-> "basic", type |-> type, val |-> v]
Array(type, v) == [arg |-> "array", type |-> type, val |-> v]
GValue(g) == [arg |-> "gvalue", val |-> g]
GValueArray(gs) == [arg |-> "gvaluearray", vals |-> gs]

Sendable(g) == g.gtype \in DOMAIN DBusType

Appendable(a) ==
  CASE a.arg = "gvalue" -> Sendable(a.val)
    [] a.arg = "gvaluearray" -> \A k \in DOMAIN a.vals : Sendable(a.vals[k])
    [] OTHER -> TRUE

\* The items of one argument; string and byte arrays and metadata, frozen to
\* bytes, are arrays, and a GValueArray is its length and a variant for each
\* element.
Items(a) ==
  CASE a.arg = "basic" ->
         <<[sig |-> a.type,
            val |-> IF a.type = "u" THEN Unsigned(a.val, UintMod) ELSE a.val]>>
    [] a.arg = "array" -> <<[sig |-> "a", el |-> a.type, val |-> a.val]>>
    [] a.arg = "gvalue" -> <<clever_append_gvalue(a.val)>>
    [] a.arg = "gvaluearray" ->
         <<[sig |-> "u", val |-> Len(a.vals)]>>
           \o [k \in DOMAIN a.vals |-> clever_append_gvalue(a.vals[k])]

clever_append_valist(args) ==
  IF \A k \in DOMAIN args : Appendable(args[k])
  THEN [dies |-> FALSE, items |-> FlattenSeq([k \in DOMAIN args |-> Items(args[k])])]
  ELSE Dies

-----------------------------------------------------------------------------
(* Parsing.  A list of values is the last argument of every message that   *)
(* has one, so the k-th argument that is wanted begins at the k-th item.    *)

At(items, pos, sig) == pos \in DOMAIN items /\ items[pos].sig = sig

Parsed(v) == [dies |-> FALSE, val |-> v]

\* The iterator is moved on before the first element, and the parsing fails when
\* there is nothing there, although an empty array needs nothing.
clever_parse_gvaluearray(items, pos) ==
  IF /\ At(items, pos, "u") /\ pos # Len(items)
     /\ \A k \in 1 .. items[pos].val : At(items, pos + k, "v")
  THEN Parsed([k \in 1 .. items[pos].val |-> clever_parse_gvalue(items[pos + k])])
  ELSE Dies

\* What is wanted, read at pos; types must agree.
Read(items, pos, want) ==
  CASE want.arg = "basic" /\ At(items, pos, want.type) -> Parsed(items[pos].val)
    [] want.arg = "array" /\ At(items, pos, "a") /\ items[pos].el = want.type ->
         Parsed(items[pos].val)
    [] want.arg = "gvalue" /\ At(items, pos, "v") -> Parsed(clever_parse_gvalue(items[pos]))
    [] want.arg = "gvaluearray" -> clever_parse_gvaluearray(items, pos)
    [] OTHER -> Dies

\* Items that are wanted must be there; items behind them are not looked at.
clever_parse_valist(wanted, items) ==
  IF \E k \in DOMAIN wanted : Read(items, k, wanted[k]).dies
  THEN Dies
  ELSE [dies |-> FALSE, vals |-> [k \in DOMAIN wanted |-> Read(items, k, wanted[k]).val]]

-----------------------------------------------------------------------------
(* Errors.  The text of an error is a sequence of words and colons.         *)

Word(w) == [word |-> w]
Colon == [sep |-> ":"]

\* A GError of this framework, "domain:code:message", its code unsigned.
mafw_dbus_error(e) ==
  [name |-> "com.nokia.mafw",
   text |-> <<Word(e.domain), Colon, Word(Unsigned(e.code, UintMod)), Colon>> \o e.message]

\* An error of the D-Bus library or daemon.
DBusError == [name |-> "org.freedesktop.DBus", text |-> <<>>]

\* Mutant: the message begins at its last colon.
mafw_dbus_error_to_gerror_last(domain, e) ==
  IF e.name = "org.freedesktop.DBus"
  THEN [domain |-> domain, code |-> NotAvailable, message |-> e.text]
  ELSE LET IsColon(t) == t = Colon
           first == SelectInSeq(e.text, IsColon)
           last == SelectLastInSeq(e.text, IsColon)
       IN  [domain |-> e.text[first - 1].word,
            code |-> Signed(e.text[first + 1].word, UintMod),
            message |-> SubSeq(e.text, last + 1, Len(e.text))]

\* An error of D-Bus means that the other side could not be reached; others are
\* taken apart at their first two colons.
mafw_dbus_error_to_gerror(domain, e) ==
  IF e.name = "org.freedesktop.DBus"
  THEN [domain |-> domain, code |-> NotAvailable, message |-> e.text]
  ELSE LET IsColon(t) == t = Colon
           first == SelectInSeq(e.text, IsColon)
           codestr == SubSeq(e.text, first + 1, Len(e.text))
           second == SelectInSeq(codestr, IsColon)
       IN  [domain |-> e.text[first - 1].word,
            code |-> Signed(codestr[1].word, UintMod),
            message |-> SubSeq(codestr, second + 1, Len(codestr))]
=============================================================================
