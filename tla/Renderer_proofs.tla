---------------------------- MODULE Renderer_proofs ----------------------------
(***************************************************************************)
(* The renderer's proxy and wrapper, for any number of calls, playlists    *)
(* and values: the messages are understood, the references to the proxy    *)
(* are accounted for, callers are told the truth, and the throttle of the  *)
(* buffering reports loses no last word.                                   *)
(*                                                                         *)
(* The invariant has six parts: the types with what each message is made   *)
(* of (TypeInv), who waits for what and through whose reference (Books),   *)
(* where each call is on the wrapper's side (Work), that what a message    *)
(* under way says is so (Mail), that callers were told and will be told    *)
(* the truth (Truth), and what the application will have seen (Throttle).  *)
(*                                                                         *)
(* The theorems suppose that NULL is none of the records the model keeps   *)
(* beside it (NullIsNoRecord), as it is where it is a model value.         *)
(***************************************************************************)
EXTENDS Renderer, FiniteSetTheorems, SequenceTheorems, TLAPS

-----------------------------------------------------------------------------
(* Numbers, indices and sequences *)

\* A set of natural numbers that is not empty has a least one.
LEMMA LeastNatural ==
  ASSUME NEW T \in SUBSET Nat, T # {}
  PROVE  \E n \in T : \A m \in T : n <= m
<1> DEFINE R == {p \in Nat \X Nat : p[1] < p[2]}
<1>1. IsWellFoundedOn(R, Nat)
  BY NatLessThanWellFounded DEF OpToRel
<1>2. PICK n \in T : \A m \in T : ~(<<m, n>> \in R)
  <2> HIDE DEF R
  <2> QED BY <1>1, WFMin
<1>3. ASSUME NEW m \in T PROVE n <= m
  <2>1. <<m, n>> \notin R /\ <<m, n>> \in Nat \X Nat
    BY <1>2
  <2>2. ~(m < n)
    BY <2>1
  <2> QED BY <2>2
<1> QED BY <1>3

\* Induction, for a set in the place of a predicate.
LEMMA Induction ==
  ASSUME NEW T \in SUBSET Nat, 0 \in T, \A n \in T : n + 1 \in T
  PROVE  T = Nat
<1> SUFFICES ASSUME T # Nat PROVE FALSE
  OBVIOUS
<1>1. Nat \ T \in SUBSET Nat /\ Nat \ T # {}
  OBVIOUS
<1>2. PICK n \in Nat \ T : \A m \in Nat \ T : n <= m
  BY <1>1, LeastNatural
<1>3. n # 0 /\ n - 1 \in Nat
  BY <1>2
<1>4. n - 1 \notin Nat \ T
  BY <1>2, <1>3
<1>5. n - 1 \in T
  BY <1>3, <1>4
<1>6. (n - 1) + 1 = n
  OBVIOUS
<1> QED BY <1>5, <1>6

\* The first and the last index of a kind.
LEMMA LeastIndex ==
  ASSUME NEW n \in Nat, NEW T \in SUBSET (1 .. n), T # {}
  PROVE  \E k \in T : \A j \in T : k <= j
<1>1. T \in SUBSET Nat
  OBVIOUS
<1> QED BY <1>1, LeastNatural

LEMMA LastIndex ==
  ASSUME NEW n \in Nat, NEW T \in SUBSET (1 .. n), T # {}
  PROVE  \E k \in T : \A j \in T : j <= k
<1> DEFINE U == {n - k : k \in T}
<1>1. U \in SUBSET Nat /\ U # {}
  <2>1. \A k \in T : n - k \in Nat
    OBVIOUS
  <2> QED BY <2>1
<1>2. PICK u \in U : \A v \in U : u <= v
  <2> HIDE DEF U
  <2> QED BY <1>1, LeastNatural
<1>3. PICK k \in T : u = n - k
  OBVIOUS
<1>4. ASSUME NEW j \in T PROVE j <= k
  <2>1. n - j \in U
    OBVIOUS
  <2> QED BY <2>1, <1>2, <1>3
<1> QED BY <1>4

Flattens(g, s) == g = [i \in 1 .. Len(s) |-> IF i = 1 THEN s[i] ELSE g[i-1] \o s[i]]

\* FlattenSeq is computed by a function that is defined by recursion; any such function
\* does, wherever its values are asked for.
LEMMA FlattenByRecursion ==
  ASSUME NEW s, NEW f, Flattens(f, s), Len(s) # 0
  PROVE  \E g : Flattens(g, s) /\ FlattenSeq(s) = g[Len(s)]
<1> DEFINE G == CHOOSE g : g = [i \in 1 .. Len(s) |-> IF i = 1 THEN s[i] ELSE g[i-1] \o s[i]]
<1>1. G = [i \in 1 .. Len(s) |-> IF i = 1 THEN s[i] ELSE G[i-1] \o s[i]]
  BY DEF Flattens
<1>2. FlattenSeq(s) = G[Len(s)]
  BY DEF FlattenSeq
<1> QED BY <1>1, <1>2 DEF Flattens

LEMMA FlattensAt ==
  ASSUME NEW s, NEW g, Flattens(g, s), NEW i \in 1 .. Len(s)
  PROVE  g[i] = IF i = 1 THEN s[i] ELSE g[i-1] \o s[i]
BY DEF Flattens

LEMMA FlattenIs ==
  ASSUME NEW s, NEW f, Flattens(f, s), Len(s) \in Nat \ {0}
  PROVE  FlattenSeq(s) = f[Len(s)]
<1>1. PICK g : Flattens(g, s) /\ FlattenSeq(s) = g[Len(s)]
  BY FlattenByRecursion
<1> DEFINE T == {n \in Nat : n \in 1 .. Len(s) => g[n] = f[n]}
<1>2. 0 \in T
  OBVIOUS
<1>3. ASSUME NEW n \in T PROVE n + 1 \in T
  <2>1. CASE n + 1 \in 2 .. Len(s)
    <3>1. n + 1 \in 1 .. Len(s) /\ n \in 1 .. Len(s) /\ n + 1 # 1 /\ (n + 1) - 1 = n
      BY <2>1
    <3>2. g[n + 1] = g[(n + 1) - 1] \o s[n + 1]
      BY <1>1, <3>1, FlattensAt
    <3>3. f[n + 1] = f[(n + 1) - 1] \o s[n + 1]
      BY <3>1, FlattensAt
    <3>4. g[n] = f[n] /\ n + 1 \in Nat
      BY <3>1
    <3>5. g[n + 1] = f[n + 1]
      BY <3>1, <3>2, <3>3, <3>4
    <3> QED BY <3>4, <3>5
  <2>2. CASE n + 1 = 1
    <3>1. g[1] = s[1] /\ f[1] = s[1]
      BY <1>1 DEF Flattens
    <3> QED BY <3>1, <2>2
  <2> QED BY <2>1, <2>2
<1>4. T = Nat
  <2> HIDE DEF T
  <2>1. T \in SUBSET Nat
    BY DEF T
  <2> QED BY <2>1, <1>2, <1>3, Induction
<1> QED BY <1>1, <1>4

\* A sequence of sequences of one element each, and one of two sequences.
LEMMA FlattenSingles ==
  ASSUME NEW S, NEW f \in Seq(S)
  PROVE  FlattenSeq([k \in 1 .. Len(f) |-> <<f[k]>>]) = f
<1> DEFINE s == [k \in 1 .. Len(f) |-> <<f[k]>>]
           F == [i \in 1 .. Len(f) |-> SubSeq(f, 1, i)]
<1>1. Len(s) = Len(f)
  OBVIOUS
<1>2. CASE Len(f) = 0
  BY <1>1, <1>2 DEF FlattenSeq
<1>3. CASE Len(f) # 0
  <2>1. ASSUME NEW i \in 1 .. Len(f)
        PROVE  F[i] = IF i = 1 THEN s[i] ELSE F[i - 1] \o s[i]
    <3>1. CASE i = 1
      <4>1. SubSeq(f, 1, 1) = SubSeq(f, 1, 0) \o <<f[1]>>
        BY SubSeqRecursiveSecond, <3>1
      <4>2. SubSeq(f, 1, 0) = <<>>
        BY SubSeqEmpty
      <4>3. <<>> \o <<f[1]>> = <<f[1]>>
        OBVIOUS
      <4>4. SubSeq(f, 1, 1) = <<f[1]>>
        BY <4>1, <4>2, <4>3
      <4> QED BY <4>4, <3>1
    <3>2. CASE i # 1
      <4>1. F[i] = SubSeq(f, 1, i) /\ F[i - 1] = SubSeq(f, 1, i - 1) /\ s[i] = <<f[i]>>
        BY <3>2
      <4>2. SubSeq(f, 1, i) = SubSeq(f, 1, i - 1) \o <<f[i]>>
        BY <3>2
      <4> QED BY <4>1, <4>2, <3>2
    <3> QED BY <3>1, <3>2
  <2>2. Flattens(F, s)
    BY <2>1, <1>1 DEF Flattens
  <2>3. FlattenSeq(s) = F[Len(s)]
    <3> HIDE DEF F, s
    <3> QED BY <2>2, <1>1, <1>3, FlattenIs
  <2> QED BY <2>3, <1>1, <1>3
<1> QED BY <1>2, <1>3

LEMMA FlattenTwo ==
  ASSUME NEW a, NEW b
  PROVE  FlattenSeq(<<a, b>>) = a \o b
<1> DEFINE F == [i \in 1 .. 2 |-> IF i = 1 THEN a ELSE a \o b]
<1>1. Flattens(F, <<a, b>>)
  BY DEF Flattens
<1>2. Len(<<a, b>>) = 2 /\ Len(<<a, b>>) \in Nat \ {0} /\ F[2] = a \o b
  OBVIOUS
<1>3. FlattenSeq(<<a, b>>) = F[Len(<<a, b>>)]
  <2> HIDE DEF F
  <2> QED BY <1>1, <1>2, FlattenIs
<1> QED BY <1>2, <1>3

-----------------------------------------------------------------------------
(* What is sent as an argument is understood *)

\* A number that is negative is sent as a large one, and read back.
LEMMA Wraps ==
  ASSUME NEW m \in Nat \ {0}, NEW n \in -m .. m - 1
  PROVE  n % m = IF n < 0 THEN n + m ELSE n
OBVIOUS

LEMMA CharacterReturns ==
  ASSUME NEW n \in -(CharMod \div 2) .. (CharMod \div 2) - 1
  PROVE  Signed(Unsigned(n, CharMod), CharMod) = n
<1> DEFINE h == CharMod \div 2
<1>1. h \in Nat /\ h + h <= CharMod /\ CharMod \in Nat \ {0}
  BY WidthAssumption
<1>2. n \in -CharMod .. CharMod - 1 /\ n \in -h .. h - 1
  BY <1>1
<1>3. n % CharMod = IF n < 0 THEN n + CharMod ELSE n
  BY <1>1, <1>2, Wraps
<1> QED BY <1>1, <1>2, <1>3 DEF Signed, Unsigned

\* A value of a property or of metadata is read back as it was sent.
LEMMA GValueReturns ==
  ASSUME NEW g \in GValues
  PROVE  /\ clever_append_gvalue(g).sig = "v"
         /\ clever_parse_gvalue(clever_append_gvalue(g)) = g
<1>1. g = [gtype |-> g.gtype, val |-> g.val] /\ g.gtype \in DOMAIN DBusType
  BY GValuesAssumption DEF Sendable
<1>2. GType[DBusType[g.gtype]] = g.gtype
  BY <1>1 DEF GType, DBusType
<1>3. g.gtype = "CHAR" => Signed(Unsigned(g.val, CharMod), CharMod) = g.val
  BY CharacterReturns, GValuesAssumption
<1> QED BY <1>1, <1>2, <1>3 DEF clever_append_gvalue, clever_parse_gvalue

\* An argument that is sent as one item, the item, and what is to be wanted for it.
Single(a) == a.arg \in {"basic", "array"} \/ (a.arg = "gvalue" /\ a.val \in GValues)
Item(a) ==
  IF a.arg = "basic"
  THEN [sig |-> a.type, val |-> IF a.type = "u" THEN Unsigned(a.val, UintMod) ELSE a.val]
  ELSE IF a.arg = "array" THEN [sig |-> "a", el |-> a.type, val |-> a.val]
  ELSE clever_append_gvalue(a.val)
Fits(w, a) == w.arg = a.arg /\ (a.arg # "gvalue" => w.type = a.type)

\* An argument that is sent as one item is read back from it.
LEMMA ReadBack ==
  ASSUME NEW items, NEW k \in DOMAIN items, NEW a, Single(a), items[k] = Item(a),
         NEW w, Fits(w, a)
  PROVE  Read(items, k, w) = Parsed(Received(a))
<1>1. CASE a.arg = "basic"
  BY <1>1 DEF Single, Item, Fits, Read, Parsed, Received, At
<1>2. CASE a.arg = "array"
  BY <1>2 DEF Single, Item, Fits, Read, Parsed, Received, At
<1>3. CASE a.arg = "gvalue"
  <2>1. a.val \in GValues /\ items[k] = clever_append_gvalue(a.val)
    BY <1>3 DEF Single, Item
  <2>2. items[k].sig = "v" /\ clever_parse_gvalue(items[k]) = a.val
    BY <2>1, GValueReturns
  <2> QED BY <1>3, <2>2 DEF Fits, Read, Parsed, Received, At
<1> QED BY <1>1, <1>2, <1>3 DEF Single

\* Such arguments are sent as an item each, and understood.
LEMMA SinglesSent ==
  ASSUME NEW S, NEW args \in Seq(S), \A k \in DOMAIN args : Single(args[k])
  PROVE  clever_append_valist(args)
           = [dies |-> FALSE, items |-> [k \in 1 .. Len(args) |-> Item(args[k])]]
<1> DEFINE f == [k \in 1 .. Len(args) |-> Item(args[k])]
<1>1. \A k \in DOMAIN args : Appendable(args[k])
  BY GValuesAssumption DEF Single, Appendable
<1>2. \A k \in DOMAIN args : Items(args[k]) = <<Item(args[k])>>
  BY DEF Single, Items, Item
<1>3. [k \in DOMAIN args |-> Items(args[k])] = [k \in 1 .. Len(f) |-> <<f[k]>>]
  BY <1>2
<1>4. f \in Seq({f[k] : k \in 1 .. Len(args)})
  OBVIOUS
<1>5. FlattenSeq([k \in 1 .. Len(f) |-> <<f[k]>>]) = f
  <2> HIDE DEF f
  <2> QED BY <1>4, FlattenSingles
<1> QED BY <1>1, <1>3, <1>5 DEF clever_append_valist

\* What is said in arguments is understood.
Understood(args, wants) ==
  /\ clever_parse_valist(wants, clever_append_valist(args).items)
       = [dies |-> FALSE, vals |-> [k \in DOMAIN args |-> Received(args[k])]]

LEMMA SinglesUnderstood ==
  ASSUME NEW S, NEW args \in Seq(S), NEW W, NEW wants \in Seq(W), Len(wants) = Len(args),
         \A k \in 1 .. Len(args) : Single(args[k]) /\ Fits(wants[k], args[k])
  PROVE  Understood(args, wants)
<1> DEFINE items == [k \in 1 .. Len(args) |-> Item(args[k])]
<1>1. clever_append_valist(args).items = items
  <2>1. clever_append_valist(args) = [dies |-> FALSE, items |-> items]
    BY SinglesSent
  <2> QED BY <2>1
<1>2. \A k \in 1 .. Len(args) : Read(items, k, wants[k]) = Parsed(Received(args[k]))
  BY ReadBack
<1>3. DOMAIN wants = 1 .. Len(args) /\ DOMAIN args = 1 .. Len(args)
  OBVIOUS
<1>4. clever_parse_valist(wants, items)
        = [dies |-> FALSE, vals |-> [k \in DOMAIN args |-> Received(args[k])]]
  <2> HIDE DEF items
  <2>1. \A k \in DOMAIN wants : ~Read(items, k, wants[k]).dies
    BY <1>2, <1>3 DEF Parsed
  <2>2. [k \in DOMAIN wants |-> Read(items, k, wants[k]).val]
          = [k \in DOMAIN args |-> Received(args[k])]
    BY <1>2, <1>3 DEF Parsed
  <2> QED BY <2>1, <2>2 DEF clever_parse_valist
<1> QED BY <1>1, <1>4 DEF Understood

\* By the number of arguments.
LEMMA NoneUnderstood == Understood(<<>>, <<>>)
<1>1. <<>> \in Seq({}) /\ Len(<<>>) = 0
  OBVIOUS
<1>2. \A k \in 1 .. Len(<<>>) : Single(<<>>[k]) /\ Fits(<<>>[k], <<>>[k])
  OBVIOUS
<1> QED BY <1>1, <1>2, SinglesUnderstood

LEMMA OneUnderstood ==
  ASSUME NEW a, NEW w, Single(a), Fits(w, a)
  PROVE  Understood(<<a>>, <<w>>)
<1>1. <<a>> \in Seq({a}) /\ <<w>> \in Seq({w}) /\ Len(<<a>>) = 1 /\ Len(<<w>>) = 1
  OBVIOUS
<1>2. \A k \in 1 .. 1 : Single(<<a>>[k]) /\ Fits(<<w>>[k], <<a>>[k])
  OBVIOUS
<1> QED BY <1>1, <1>2, SinglesUnderstood

LEMMA TwoUnderstood ==
  ASSUME NEW a, NEW b, NEW v, NEW w, Single(a), Single(b), Fits(v, a), Fits(w, b)
  PROVE  Understood(<<a, b>>, <<v, w>>)
<1>1. /\ <<a, b>> \in Seq({a, b}) /\ <<v, w>> \in Seq({v, w})
      /\ Len(<<a, b>>) = 2 /\ Len(<<v, w>>) = 2
  OBVIOUS
<1>2. \A k \in 1 .. 2 : Single(<<a, b>>[k]) /\ Fits(<<v, w>>[k], <<a, b>>[k])
  OBVIOUS
<1> QED BY <1>1, <1>2, SinglesUnderstood

LEMMA ThreeUnderstood ==
  ASSUME NEW a1, NEW a2, NEW a3, NEW w1, NEW w2, NEW w3,
         Single(a1) /\ Fits(w1, a1), Single(a2) /\ Fits(w2, a2), Single(a3) /\ Fits(w3, a3)
  PROVE  Understood(<<a1, a2, a3>>, <<w1, w2, w3>>)
<1>1. /\ <<a1, a2, a3>> \in Seq({a1, a2, a3}) /\ <<w1, w2, w3>> \in Seq({w1, w2, w3})
      /\ Len(<<a1, a2, a3>>) = 3 /\ Len(<<w1, w2, w3>>) = 3
  OBVIOUS
<1>2. \A k \in 1 .. 3 : Single(<<a1, a2, a3>>[k]) /\ Fits(<<w1, w2, w3>>[k], <<a1, a2, a3>>[k])
  OBVIOUS
<1> QED BY <1>1, <1>2, SinglesUnderstood

LEMMA FourUnderstood ==
  ASSUME NEW a1, NEW a2, NEW a3, NEW a4, NEW w1, NEW w2, NEW w3, NEW w4,
         Single(a1) /\ Fits(w1, a1), Single(a2) /\ Fits(w2, a2),
         Single(a3) /\ Fits(w3, a3), Single(a4) /\ Fits(w4, a4)
  PROVE  Understood(<<a1, a2, a3, a4>>, <<w1, w2, w3, w4>>)
<1>1. /\ <<a1, a2, a3, a4>> \in Seq({a1, a2, a3, a4})
      /\ <<w1, w2, w3, w4>> \in Seq({w1, w2, w3, w4})
      /\ Len(<<a1, a2, a3, a4>>) = 4 /\ Len(<<w1, w2, w3, w4>>) = 4
  OBVIOUS
<1>2. \A k \in 1 .. 4 :
        Single(<<a1, a2, a3, a4>>[k]) /\ Fits(<<w1, w2, w3, w4>>[k], <<a1, a2, a3, a4>>[k])
  OBVIOUS
<1> QED BY <1>1, <1>2, SinglesUnderstood

\* The arguments that are sent as one item, and what is wanted for them.
LEMMA BasicFits ==
  ASSUME NEW type, NEW v PROVE Single(Basic(type, v)) /\ Fits(Want(type), Basic(type, v))
BY DEF Single, Fits, Want, Basic

LEMMA GValueFits ==
  ASSUME NEW g \in GValues PROVE Single(GValue(g)) /\ Fits([arg |-> "gvalue"], GValue(g))
BY DEF Single, Fits, GValue

LEMMA ArrayFits ==
  ASSUME NEW type, NEW v
  PROVE  Single(Array(type, v)) /\ Fits([arg |-> "array", type |-> type], Array(type, v))
BY DEF Single, Fits, Array

-----------------------------------------------------------------------------
(* Requests *)

RequestArgs(op) ==
  CASE op \in {"play_object", "play_uri", "get_extension_property"} -> {<<Basic("s", Text)>>}
    [] op = "goto_index" -> {<<Basic("u", UintMod - 1)>>}
    [] op = "assign_playlist" -> {<<Basic("u", p)>> : p \in Playlists \cup {0}}
    [] op = "set_position" -> {<<Basic("i", 0), Basic("i", -1)>>}
    [] OTHER -> {<<>>}

\* What an application may ask for.
Asked == UNION {{[op |-> op, args |-> args] : args \in RequestArgs(op)} : op \in AllOps}

LEMMA AskedShape ==
  ASSUME NEW r \in Asked
  PROVE  r.op \in AllOps /\ r.args \in RequestArgs(r.op) /\ r = [op |-> r.op, args |-> r.args]
BY DEF Asked

\* The wrapper understands every request.
LEMMA RequestUnderstood ==
  ASSUME NEW op \in AllOps, NEW args \in RequestArgs(op)
  PROVE  Understood(args, RequestWants(op))
<1>1. CASE op \in {"play_object", "play_uri", "get_extension_property"}
  BY <1>1, OneUnderstood, BasicFits DEF RequestArgs, RequestWants
<1>2. CASE op = "goto_index"
  <2>1. args = <<Basic("u", UintMod - 1)>> /\ RequestWants(op) = <<Want("u")>>
    BY <1>2 DEF RequestArgs, RequestWants
  <2> QED BY <2>1, OneUnderstood, BasicFits
<1>3. CASE op = "assign_playlist"
  <2>1. \E p : args = <<Basic("u", p)>>
    BY <1>3 DEF RequestArgs
  <2>2. RequestWants(op) = <<Want("u")>>
    BY <1>3 DEF RequestWants
  <2> QED BY <2>1, <2>2, OneUnderstood, BasicFits
<1>4. CASE op = "set_position"
  <2>1. args = <<Basic("i", 0), Basic("i", -1)>> /\ RequestWants(op) = <<Want("i"), Want("i")>>
    BY <1>4 DEF RequestArgs, RequestWants
  <2> QED BY <2>1, TwoUnderstood, BasicFits
<1>5. CASE op \notin {"play_object", "play_uri", "get_extension_property", "goto_index",
                      "assign_playlist", "set_position"}
  <2>1. args = <<>> /\ RequestWants(op) = <<>>
    BY <1>5 DEF RequestArgs, RequestWants
  <2> QED BY <2>1, NoneUnderstood
<1> QED BY <1>1, <1>2, <1>3, <1>4, <1>5

LEMMA CallCarries ==
  ASSUME NEW c, NEW op \in AllOps, NEW args \in RequestArgs(op)
  PROVE  Carries(Call(c, op, args), RequestWants(op))
<1>1. Call(c, op, args).items = clever_append_valist(args).items /\ Call(c, op, args).args = args
  BY DEF Call
<1>2. clever_parse_valist(RequestWants(op), Call(c, op, args).items)
        = [dies |-> FALSE, vals |-> [k \in DOMAIN args |-> Received(args[k])]]
  BY <1>1, RequestUnderstood DEF Understood
<1> QED BY <1>1, <1>2 DEF Carries

-----------------------------------------------------------------------------
(* Answers *)

\* How the renderer may answer.
ResultsOf(op) ==
  IF op = "assign_playlist" THEN {<<p>> : p \in Playlists \cup {0}} ELSE Results(op)
OutcomesOf(op) == {Success(vals) : vals \in ResultsOf(op)} \cup {Failed(Failure)}

\* The proxy understands every reply.
LEMMA ReplyUnderstood ==
  ASSUME NEW op \in AllOps, NEW vals \in ResultsOf(op)
  PROVE  Understood(ReplyArgs(op, vals), ReplyWants(op))
<1>1. CASE op = "get_status"
  <2>1. /\ ReplyArgs(op, vals)
             = <<Basic("u", vals[1]), Basic("u", vals[2]), Basic("i", vals[3]),
                 Basic("s", NullToEmpty(vals[4]))>>
        /\ ReplyWants(op) = <<Want("u"), Want("u"), Want("i"), Want("s")>>
    BY <1>1 DEF ReplyArgs, ReplyWants, StatusWants, PositionWants, MetadataWants, PropertyWants
  <2> QED BY <2>1, FourUnderstood, BasicFits
<1>2. CASE op \in {"set_position", "get_position"}
  BY <1>2, OneUnderstood, BasicFits DEF ReplyArgs, ReplyWants, StatusWants, PositionWants, MetadataWants, PropertyWants
<1>3. CASE op = "get_current_metadata"
  <2>1. /\ ReplyArgs(op, vals) = <<Basic("s", NullToEmpty(vals[1])), Array("y", vals[2])>>
        /\ ReplyWants(op) = <<Want("s"), [arg |-> "array", type |-> "y"]>>
    BY <1>3 DEF ReplyArgs, ReplyWants, StatusWants, PositionWants, MetadataWants, PropertyWants
  <2> QED BY <2>1, TwoUnderstood, BasicFits, ArrayFits
<1>4. CASE op = "get_extension_property"
  <2>1. /\ ReplyArgs(op, vals) = <<Basic("s", vals[1]), GValue(vals[2])>>
        /\ ReplyWants(op) = <<Want("s"), [arg |-> "gvalue"]>>
    BY <1>4 DEF ReplyArgs, ReplyWants, StatusWants, PositionWants, MetadataWants, PropertyWants
  <2>2. vals[2] \in GValues
    BY <1>4 DEF ResultsOf, Results
  <2> QED BY <2>1, <2>2, TwoUnderstood, BasicFits, GValueFits
<1>5. CASE op \notin {"get_status", "set_position", "get_position", "get_current_metadata",
                      "get_extension_property"}
  <2>1. ReplyArgs(op, vals) = <<>> /\ ReplyWants(op) = <<>>
    BY <1>5 DEF ReplyArgs, ReplyWants, StatusWants, PositionWants, MetadataWants, PropertyWants
  <2> QED BY <2>1, NoneUnderstood
<1> QED BY <1>1, <1>2, <1>3, <1>4, <1>5

LEMMA ReplyCarries ==
  ASSUME NEW c, NEW op \in AllOps, NEW vals \in ResultsOf(op)
  PROVE  Carries(mafw_dbus_reply(c, op, vals), ReplyWants(op))
<1> DEFINE m == mafw_dbus_reply(c, op, vals)
           args == ReplyArgs(op, vals)
<1>1. m.items = clever_append_valist(args).items /\ m.args = args
  BY DEF mafw_dbus_reply
<1>2. clever_parse_valist(ReplyWants(op), m.items)
        = [dies |-> FALSE, vals |-> [k \in DOMAIN args |-> Received(args[k])]]
  BY <1>1, ReplyUnderstood DEF Understood
<1> QED BY <1>1, <1>2 DEF Carries

\* A sequence without its first two elements, and two sequences put together.
LEMMA Behind ==
  ASSUME NEW S, NEW s \in Seq(S), NEW t \in Seq(S), NEW n \in Nat, n >= 2,
         Len(s) = n, Len(t) = n - 2,
         \A i \in 1 .. n - 2 : t[i] = s[i + 2]
  PROVE  SubSeq(s, 3, Len(s)) = t
<1>1. \A i \in 3 .. n : s[i] \in S
  OBVIOUS
<1>2. /\ SubSeq(s, 3, n) \in Seq(S) /\ Len(SubSeq(s, 3, n)) = IF 3 <= n THEN n - 3 + 1 ELSE 0
      /\ \A i \in 1 .. n - 3 + 1 : SubSeq(s, 3, n)[i] = s[3 + i - 1]
  BY <1>1, SubSeqProperties
<1>3. Len(SubSeq(s, 3, n)) = n - 2 /\ \A i \in 1 .. n - 2 : SubSeq(s, 3, n)[i] = s[i + 2]
  <2>1. n - 3 + 1 = n - 2 /\ \A i \in 1 .. n - 2 : 3 + i - 1 = i + 2
    OBVIOUS
  <2> QED BY <1>2, <2>1
<1> QED BY <1>2, <1>3, SeqEqual
LEMMA Joined ==
  ASSUME NEW S, NEW s \in Seq(S), NEW t \in Seq(S), NEW u \in Seq(S), Len(u) = Len(s) + Len(t),
         \A i \in 1 .. Len(s) : u[i] = s[i],
         \A i \in 1 .. Len(t) : u[Len(s) + i] = t[i]
  PROVE  s \o t = u
<1>1. /\ s \o t \in Seq(S) /\ Len(s \o t) = Len(u)
      /\ \A i \in 1 .. Len(u) : (s \o t)[i] = IF i <= Len(s) THEN s[i] ELSE t[i - Len(s)]
  BY ConcatProperties
<1>2. \A i \in 1 .. Len(u) : (s \o t)[i] = u[i]
  <2>1. ASSUME NEW i \in 1 .. Len(u), i > Len(s) PROVE (s \o t)[i] = u[i]
    <3>1. i - Len(s) \in 1 .. Len(t) /\ Len(s) + (i - Len(s)) = i
      BY <2>1
    <3>2. u[Len(s) + (i - Len(s))] = t[i - Len(s)]
      BY <3>1
    <3> QED BY <3>1, <3>2, <1>1, <2>1
  <2> QED BY <1>1, <2>1
<1> QED BY <1>1, <1>2, SeqEqual

-----------------------------------------------------------------------------
(* Signals *)

Members == {"state_changed", "playlist_changed", "media_changed", "buffering_info",
            "metadata_changed", "property_changed", "error"}

SignalArgs(member) ==
  CASE member = "state_changed" -> {<<Basic("i", 2)>>}
    [] member = "playlist_changed" -> {<<Basic("u", p)>> : p \in Playlists \cup {0}}
    [] member = "media_changed" ->
         {<<Basic("i", -1), Basic("s", NullToEmpty(o))>> : o \in {Null, Text}}
    [] member = "buffering_info" -> {<<Basic("d", status)>> : status \in 1 .. Full}
    [] member = "metadata_changed" ->
         {<<Basic("s", Text), GValueArray(gs)>> :
            gs \in {SetToSeq(GValues)} \cup (IF "empty array" \in Faults THEN {<<>>} ELSE {})}
    [] member = "property_changed" -> {<<Basic("s", Text), GValue(g)>> : g \in GValues}
    [] member = "error" -> {<<Basic("s", Domain), Basic("i", -1), Basic("s", Text)>>}

\* A list of a set holds each element of it once.
LEMMA ListOfSet ==
  ASSUME NEW S, IsFiniteSet(S)
  PROVE  /\ Cardinality(S) \in Nat
         /\ SetToSeq(S) \in [1 .. Cardinality(S) -> S] /\ IsInjective(SetToSeq(S))
<1>1. Cardinality(S) \in Nat /\ ExistsBijection(1 .. Cardinality(S), S)
  BY FS_CardinalityType
<1>2. \E f \in [1 .. Cardinality(S) -> S] : IsInjective(f)
  BY <1>1 DEF ExistsBijection, Bijection, Injection, IsInjective
<1> QED BY <1>1, <1>2 DEF SetToSeq

\* Metadata are the only arguments that are sent as more than an item each.
LEMMA MetadataUnderstood ==
  Understood(<<Basic("s", Text), GValueArray(SetToSeq(GValues))>>, SignalWants("metadata_changed"))
<1> DEFINE n == Cardinality(GValues)
           gs == SetToSeq(GValues)
           a == Basic("s", Text)
           b == GValueArray(gs)
           values == [k \in 1 .. n |-> clever_append_gvalue(gs[k])]
           items == <<[sig |-> "s", val |-> Text]>> \o (<<[sig |-> "u", val |-> n]>> \o values)
           wants == <<Want("s"), [arg |-> "gvaluearray"]>>
<1>1. n \in Nat /\ gs \in [1 .. n -> GValues]
  BY ListOfSet, GValuesAssumption
<1>2. n # 0
  <2>1. PICK g \in GValues : TRUE
    BY GValuesAssumption
  <2> QED BY FS_EmptySet, GValuesAssumption
<1>3. gs \in Seq(GValues) /\ Len(gs) = n /\ DOMAIN gs = 1 .. n
  BY <1>1
<1>4. Items(a) = <<[sig |-> "s", val |-> Text]>>
  BY DEF Items, Basic
<1>5. Items(b) = <<[sig |-> "u", val |-> n]>> \o values
  BY <1>3 DEF Items, GValueArray
<1>6. clever_append_valist(<<a, b>>).items = items
  <2>1. Appendable(a) /\ Appendable(b)
    <3>1. \A k \in DOMAIN gs : Sendable(gs[k])
      BY <1>1, <1>3, GValuesAssumption
    <3> QED BY <3>1 DEF Appendable, Basic, GValueArray
  <2>2. [k \in DOMAIN <<a, b>> |-> Items(<<a, b>>[k])] = <<Items(a), Items(b)>>
    <3> HIDE DEF a, b
    <3> QED OBVIOUS
  <2>3. FlattenSeq(<<Items(a), Items(b)>>) = Items(a) \o Items(b)
    BY FlattenTwo
  <2>4. \A k \in DOMAIN <<a, b>> : Appendable(<<a, b>>[k])
    <3> HIDE DEF a, b
    <3> QED BY <2>1
  <2> HIDE DEF a, b, items
  <2>5. clever_append_valist(<<a, b>>).items = Items(a) \o Items(b)
    BY <2>2, <2>3, <2>4 DEF clever_append_valist
  <2> QED BY <2>5, <1>4, <1>5 DEF items
<1>7. \A k \in 1 .. n : /\ gs[k] \in GValues /\ values[k] = clever_append_gvalue(gs[k])
                        /\ values[k].sig = "v" /\ clever_parse_gvalue(values[k]) = gs[k]
  BY <1>1, GValueReturns
<1>8. /\ DOMAIN items = 1 .. n + 2 /\ Len(items) = n + 2
      /\ items[1] = [sig |-> "s", val |-> Text] /\ items[2] = [sig |-> "u", val |-> n]
      /\ \A k \in 1 .. n : items[2 + k] = values[k]
  <2> DEFINE V == {values[k] : k \in 1 .. n}
             S == V \cup {[sig |-> "s", val |-> Text], [sig |-> "u", val |-> n]}
  <2>1. values \in Seq(S) /\ Len(values) = n
    BY <1>1
  <2> HIDE DEF values, V
  <2>2. <<[sig |-> "s", val |-> Text]>> \in Seq(S) /\ <<[sig |-> "u", val |-> n]>> \in Seq(S)
    OBVIOUS
  <2> DEFINE tail == <<[sig |-> "u", val |-> n]>> \o values
  <2>4. tail \in Seq(S) /\ Len(tail) = n + 1 /\ tail[1] = [sig |-> "u", val |-> n]
        /\ \A k \in 1 .. n : tail[k + 1] = values[k]
    BY <2>1, <2>2, <1>1, <1>2
  <2> HIDE DEF tail
  <2>5. items = <<[sig |-> "s", val |-> Text]>> \o tail
    BY DEF tail
  <2>6. items \in Seq(S) /\ Len(items) = n + 2
        /\ items[1] = [sig |-> "s", val |-> Text]
        /\ \A k \in 1 .. n + 1 : items[k + 1] = tail[k]
    <3> HIDE DEF items, S
    <3> QED BY <2>2, <2>4, <2>5, <1>1
  <2>7. \A k \in 1 .. n : items[2 + k] = values[k]
    <3> HIDE DEF items, S
    <3>1. \A k \in 1 .. n : k + 1 \in 1 .. n + 1 /\ (k + 1) + 1 = 2 + k
      BY <1>1
    <3> QED BY <2>6, <2>4, <3>1
  <2>8. items[2] = [sig |-> "u", val |-> n]
    <3> HIDE DEF items, S
    <3>1. 1 \in 1 .. n + 1 /\ 1 + 1 = 2
      BY <1>1
    <3> QED BY <2>6, <2>4, <3>1
  <2> HIDE DEF items, S
  <2> QED BY <2>6, <2>7, <2>8
<1> HIDE DEF items, values, n, gs
<1>9. clever_parse_gvaluearray(items, 2) = Parsed(gs)
  <2>1. At(items, 2, "u") /\ 2 # Len(items) /\ items[2].val = n
    BY <1>1, <1>2, <1>8 DEF At
  <2>2. \A k \in 1 .. n : At(items, 2 + k, "v")
    <3>1. \A k \in 1 .. n : 2 + k \in 1 .. n + 2
      BY <1>1
    <3> QED BY <3>1, <1>7, <1>8 DEF At
  <2>3. [k \in 1 .. n |-> clever_parse_gvalue(items[2 + k])] = [k \in 1 .. n |-> gs[k]]
    BY <1>7, <1>8
  <2>4. [k \in 1 .. n |-> gs[k]] = gs
    BY <1>1
  <2> QED BY <2>1, <2>2, <2>3, <2>4 DEF clever_parse_gvaluearray
<1>10. Read(items, 1, Want("s")) = Parsed(Text)
  <2>1. At(items, 1, "s") /\ items[1].val = Text
    BY <1>1, <1>8 DEF At
  <2> QED BY <2>1 DEF Read, Want
<1>11. Read(items, 2, [arg |-> "gvaluearray"]) = Parsed(gs)
  BY <1>9 DEF Read
<1>12. clever_parse_valist(wants, items) = [dies |-> FALSE, vals |-> <<Text, gs>>]
  <2>1. \A k \in DOMAIN wants : ~Read(items, k, wants[k]).dies
    BY <1>10, <1>11 DEF Parsed
  <2>2. [k \in DOMAIN wants |-> Read(items, k, wants[k]).val] = <<Text, gs>>
    BY <1>10, <1>11 DEF Parsed
  <2> HIDE DEF wants
  <2> QED BY <2>1, <2>2 DEF clever_parse_valist
<1>13. [k \in DOMAIN <<a, b>> |-> Received(<<a, b>>[k])] = <<Text, gs>>
  <2>1. Received(a) = Text /\ Received(b) = gs
    BY DEF Received, Basic, GValueArray
  <2> HIDE DEF a, b
  <2> QED BY <2>1
<1>14. SignalWants("metadata_changed") = wants
  BY DEF SignalWants
<1> HIDE DEF a, b, wants
<1>15. Understood(<<a, b>>, wants)
  BY <1>6, <1>12, <1>13 DEF Understood
<1> QED BY <1>14, <1>15 DEF a, b, gs

\* The proxy understands every signal, unless a renderer sends no values.
LEMMA SignalUnderstood ==
  ASSUME Faults = {}, NEW member \in Members, NEW args \in SignalArgs(member)
  PROVE  Understood(args, SignalWants(member))
<1>1. CASE member = "state_changed"
  BY <1>1, OneUnderstood, BasicFits DEF SignalArgs, SignalWants
<1>2. CASE member = "playlist_changed"
  <2>1. (\E p : args = <<Basic("u", p)>>) /\ SignalWants(member) = <<Want("u")>>
    BY <1>2 DEF SignalArgs, SignalWants
  <2> QED BY <2>1, OneUnderstood, BasicFits
<1>3. CASE member = "media_changed"
  <2>1. /\ \E s : args = <<Basic("i", -1), Basic("s", s)>>
        /\ SignalWants(member) = <<Want("i"), Want("s")>>
    BY <1>3 DEF SignalArgs, SignalWants
  <2> QED BY <2>1, TwoUnderstood, BasicFits
<1>4. CASE member = "buffering_info"
  <2>1. (\E d : args = <<Basic("d", d)>>) /\ SignalWants(member) = <<Want("d")>>
    BY <1>4 DEF SignalArgs, SignalWants
  <2> QED BY <2>1, OneUnderstood, BasicFits
<1>5. CASE member = "metadata_changed"
  <2>1. args = <<Basic("s", Text), GValueArray(SetToSeq(GValues))>>
    BY <1>5 DEF SignalArgs
  <2> QED BY <1>5, <2>1, MetadataUnderstood
<1>6. CASE member = "property_changed"
  <2>1. /\ \E g \in GValues : args = <<Basic("s", Text), GValue(g)>>
        /\ SignalWants(member) = <<Want("s"), [arg |-> "gvalue"]>>
    BY <1>6 DEF SignalArgs, SignalWants
  <2> QED BY <2>1, TwoUnderstood, BasicFits, GValueFits
<1>7. CASE member = "error"
  <2>1. /\ args = <<Basic("s", Domain), Basic("i", -1), Basic("s", Text)>>
        /\ SignalWants(member) = <<Want("s"), Want("i"), Want("s")>>
    BY <1>7 DEF SignalArgs, SignalWants
  <2> QED BY <2>1, ThreeUnderstood, BasicFits
<1> QED BY <1>1, <1>2, <1>3, <1>4, <1>5, <1>6, <1>7 DEF Members

LEMMA SignalCarries ==
  ASSUME Faults = {}, NEW member \in Members, NEW args \in SignalArgs(member)
  PROVE  Carries(mafw_dbus_signal(member, args), SignalWants(member))
<1> DEFINE m == mafw_dbus_signal(member, args)
<1>1. m.items = clever_append_valist(args).items /\ m.args = args
  BY DEF mafw_dbus_signal
<1>2. clever_parse_valist(SignalWants(member), m.items)
        = [dies |-> FALSE, vals |-> [k \in DOMAIN args |-> Received(args[k])]]
  BY <1>1, SignalUnderstood DEF Understood
<1> QED BY <1>1, <1>2 DEF Carries

\* A report of buffering is understood even then.
LEMMA BufferingUnderstood ==
  ASSUME NEW status \in 1 .. Full,
         NEW m, m = mafw_dbus_signal("buffering_info", <<Basic("d", status)>>)
  PROVE  /\ clever_parse_valist(SignalWants(m.member), m.items).vals[1] = status
         /\ m.args[1].val = status
<1>1. SignalWants(m.member) = <<Want("d")>>
  BY DEF SignalWants, mafw_dbus_signal
<1>2. Understood(<<Basic("d", status)>>, <<Want("d")>>)
  BY OneUnderstood, BasicFits
<1>3. m.items = clever_append_valist(<<Basic("d", status)>>).items /\ m.args = <<Basic("d", status)>>
  BY DEF mafw_dbus_signal
<1>4. clever_parse_valist(<<Want("d")>>, m.items).vals
        = [k \in DOMAIN <<Basic("d", status)>> |-> Received(<<Basic("d", status)>>[k])]
  BY <1>2, <1>3 DEF Understood
<1>5. [k \in DOMAIN <<Basic("d", status)>> |-> Received(<<Basic("d", status)>>[k])] = <<status>>
  BY DEF Received, Basic
<1> QED BY <1>1, <1>3, <1>4, <1>5 DEF Basic

-----------------------------------------------------------------------------
(* What becomes of an answer *)

\* The least of a set is what Min chooses.
LEMMA LeastIs ==
  ASSUME NEW I \in SUBSET Nat, NEW k \in I, \A j \in I : k <= j
  PROVE  I # {} /\ Min(I) = k
<1>1. \A x \in I : (\A y \in I : x =< y) => x = k
  OBVIOUS
<1> QED BY <1>1 DEF Min

Colons(s) == {i \in 1 .. Len(s) : s[i] = Colon}

\* An error is taken apart at the first colon of its text and the first of what follows.
LEMMA TakenApart ==
  ASSUME NEW e, NEW text, NEW rest, e.name # "org.freedesktop.DBus", e.text = text,
         Colons(text) # {}, SubSeq(text, Min(Colons(text)) + 1, Len(text)) = rest,
         Colons(rest) # {}
  PROVE  mafw_dbus_error_to_gerror(Domain, e)
           = [domain |-> text[Min(Colons(text)) - 1].word, code |-> Signed(rest[1].word, UintMod),
              message |-> SubSeq(rest, Min(Colons(rest)) + 1, Len(rest))]
BY Zenon DEF mafw_dbus_error_to_gerror, Colons, SelectInSeq

LEMMA TakenApartAtTwo ==
  ASSUME NEW e, NEW text, NEW rest, e.name # "org.freedesktop.DBus", e.text = text,
         Colons(text) # {} /\ Min(Colons(text)) = 2, SubSeq(text, 3, Len(text)) = rest,
         Colons(rest) # {} /\ Min(Colons(rest)) = 2
  PROVE  mafw_dbus_error_to_gerror(Domain, e)
           = [domain |-> text[1].word, code |-> Signed(rest[1].word, UintMod),
              message |-> SubSeq(rest, 3, Len(rest))]
<1>1. Min(Colons(text)) + 1 = 3 /\ Min(Colons(text)) - 1 = 1 /\ Min(Colons(rest)) + 1 = 3
  OBVIOUS
<1>2. SubSeq(text, Min(Colons(text)) + 1, Len(text)) = rest
  BY <1>1
<1>3. mafw_dbus_error_to_gerror(Domain, e)
        = [domain |-> text[Min(Colons(text)) - 1].word, code |-> Signed(rest[1].word, UintMod),
           message |-> SubSeq(rest, Min(Colons(rest)) + 1, Len(rest))]
  BY <1>2, TakenApart, Zenon
<1> QED BY <1>1, <1>3

\* The renderer's error is told as it was: its code is negative, and its message has a
\* colon of its own.
LEMMA ErrorReturns ==
  mafw_dbus_error_to_gerror(Domain, mafw_dbus_error(Failure)) = Failure
<1> DEFINE e == mafw_dbus_error(Failure)
           code == Unsigned(-1, UintMod)
           text == <<Word(Domain), Colon, Word(code), Colon, Word("at"), Colon, Word("0")>>
           rest == <<Word(code), Colon, Word("at"), Colon, Word("0")>>
           S == {Word(Domain), Colon, Word(code), Word("at"), Word("0")}
<1>1. e.name # "org.freedesktop.DBus" /\ e.text = text
  <2> DEFINE head == <<Word(Domain), Colon, Word(code), Colon>>
  <2>1. e.name # "org.freedesktop.DBus" /\ e.text = head \o Failure.message
    BY DEF mafw_dbus_error, Failure
  <2>2. Failure.message = <<Word("at"), Colon, Word("0")>>
    BY DEF Failure
  <2>3. head \o <<Word("at"), Colon, Word("0")>> = text
    <3> DEFINE tail == <<Word("at"), Colon, Word("0")>>
    <3>1. head \in Seq(S) /\ tail \in Seq(S) /\ text \in Seq(S)
      OBVIOUS
    <3>2. Len(head) = 4 /\ Len(tail) = 3 /\ Len(text) = 7
      OBVIOUS
    <3>3. \A i \in 1 .. 4 : text[i] = head[i]
      OBVIOUS
    <3>4. \A i \in 1 .. 3 : text[4 + i] = tail[i]
      OBVIOUS
    <3> HIDE DEF head, text, S, tail
    <3>5. /\ Len(text) = Len(head) + Len(tail)
          /\ \A i \in 1 .. Len(head) : text[i] = head[i]
          /\ \A i \in 1 .. Len(tail) : text[Len(head) + i] = tail[i]
      BY <3>2, <3>3, <3>4
    <3>6. head \o tail = text
      BY <3>1, <3>5, Joined
    <3> QED BY <3>6 DEF tail
  <2> HIDE DEF head, text, e
  <2> QED BY <2>1, <2>2, <2>3
<1>2. \A w : Word(w) # Colon /\ Word(w).word = w
  BY DEF Word, Colon
<1>3. Colons(text) # {} /\ Min(Colons(text)) = 2
  <2>1. 2 \in DOMAIN text /\ text[2] = Colon /\ Len(text) = 7 /\ text[1] # Colon
    BY <1>2
  <2> HIDE DEF text
  <2>2. Colons(text) \in SUBSET Nat /\ 2 \in Colons(text) /\ \A j \in Colons(text) : 2 <= j
    BY <2>1 DEF Colons
  <2> QED BY <2>2, LeastIs
<1>4. SubSeq(text, 3, Len(text)) = rest
  <2>1. text \in Seq(S) /\ rest \in Seq(S) /\ Len(text) = 7 /\ Len(rest) = 5
    OBVIOUS
  <2>2. \A i \in 1 .. 7 - 2 : rest[i] = text[i + 2]
    OBVIOUS
  <2> HIDE DEF text, rest, S
  <2> QED BY <2>1, <2>2, Behind
<1>5. Colons(rest) # {} /\ Min(Colons(rest)) = 2
  <2>1. 2 \in DOMAIN rest /\ rest[2] = Colon /\ Len(rest) = 5 /\ rest[1] # Colon
    BY <1>2
  <2> HIDE DEF rest
  <2>2. Colons(rest) \in SUBSET Nat /\ 2 \in Colons(rest) /\ \A j \in Colons(rest) : 2 <= j
    BY <2>1 DEF Colons
  <2> QED BY <2>2, LeastIs
<1>6. SubSeq(rest, 3, Len(rest)) = Failure.message
  <2> DEFINE tail == <<Word("at"), Colon, Word("0")>>
  <2>1. rest \in Seq(S) /\ tail \in Seq(S) /\ Len(rest) = 5 /\ Len(tail) = 3
    OBVIOUS
  <2>2. \A i \in 1 .. 5 - 2 : tail[i] = rest[i + 2]
    OBVIOUS
  <2>3. Failure.message = tail
    BY DEF Failure
  <2> HIDE DEF rest, tail, S
  <2>4. SubSeq(rest, 3, Len(rest)) = tail
    BY <2>1, <2>2, Behind
  <2> QED BY <2>3, <2>4
<1>7. Signed(code, UintMod) = -1
  <2>1. code = UintMod - 1
    BY WidthAssumption, Wraps DEF Unsigned
  <2> QED BY <2>1, WidthAssumption DEF Signed
<1>8. text[1].word = Domain /\ rest[1].word = code
  BY <1>2
<1> HIDE DEF e, text, rest, code
<1>9. mafw_dbus_error_to_gerror(Domain, e)
        = [domain |-> text[1].word, code |-> Signed(rest[1].word, UintMod),
           message |-> SubSeq(rest, 3, Len(rest))]
  BY <1>1, <1>3, <1>4, <1>5, TakenApartAtTwo
<1>10. mafw_dbus_error_to_gerror(Domain, e)
         = [domain |-> Domain, code |-> -1, message |-> Failure.message]
  BY <1>6, <1>7, <1>8, <1>9
<1> QED BY <1>10 DEF e, Failure

\* NULL is none of the records of the model: an outcome, a call or an error.
NullIsNoRecord ==
  /\ \A e, vals : [error |-> e, vals |-> vals] # Null
  /\ \A op, args : [op |-> op, args |-> args] # Null
  /\ \A domain, code, message : [domain |-> domain, code |-> code, message |-> message] # Null

\* What is told is something; by an answer of the bus, of a failure and of a success.
LEMMA OutcomeShape ==
  ASSUME NullIsNoRecord, NEW op, NEW m, NEW playlist
  PROVE  Outcome(op, m, playlist) # Null
BY DEF NullIsNoRecord, Outcome, Failed, Success

LEMMA FailureIsSome ==
  ASSUME NullIsNoRecord
  PROVE  Failure # Null /\ Failed(Failure).error # Null
BY DEF NullIsNoRecord, Failed, Failure

LEMMA NoReplyTold ==
  ASSUME NullIsNoRecord, NEW c, NEW op, NEW playlist
  PROVE  /\ Outcome(op, NoReply(c), playlist).error # Null
         /\ Outcome(op, NoReply(c), playlist).error.code = NotAvailable
BY DEF NullIsNoRecord, Outcome, NoReply, DBusError, mafw_dbus_error_to_gerror, Failed

LEMMA FailureTold ==
  ASSUME NullIsNoRecord, NEW c, NEW op, NEW playlist
  PROVE  Outcome(op, Answer(c, op, Failed(Failure)), playlist) = Failed(Failure)
<1>1. Answer(c, op, Failed(Failure)) = mafw_dbus_gerror(c, Failure)
  BY FailureIsSome DEF Answer, Failed
<1>2. Outcome(op, mafw_dbus_gerror(c, Failure), playlist)
        = Failed(mafw_dbus_error_to_gerror(Domain, mafw_dbus_error(Failure)))
  BY DEF Outcome, mafw_dbus_gerror
<1> QED BY <1>1, <1>2, ErrorReturns

LEMMA SuccessRead ==
  ASSUME NullIsNoRecord, NEW c, NEW op \in AllOps, NEW vals \in ResultsOf(op)
  PROVE  /\ Answer(c, op, Success(vals)).type = "reply"
         /\ ReplyVals(op, Answer(c, op, Success(vals)))
              = [k \in DOMAIN ReplyArgs(op, vals) |-> Received(ReplyArgs(op, vals)[k])]
<1>1. Answer(c, op, Success(vals)) = mafw_dbus_reply(c, op, vals)
  BY DEF Answer, Success
<1>2. /\ mafw_dbus_reply(c, op, vals).type = "reply"
      /\ mafw_dbus_reply(c, op, vals).items = clever_append_valist(ReplyArgs(op, vals)).items
  BY DEF mafw_dbus_reply
<1>3. clever_parse_valist(ReplyWants(op), clever_append_valist(ReplyArgs(op, vals)).items)
        = [dies |-> FALSE, vals |-> [k \in DOMAIN ReplyArgs(op, vals) |->
                                       Received(ReplyArgs(op, vals)[k])]]
  BY ReplyUnderstood DEF Understood
<1> QED BY <1>1, <1>2, <1>3 DEF ReplyVals

LEMMA SuccessTold ==
  ASSUME NullIsNoRecord, NEW c, NEW op \in AllOps, NEW vals \in ResultsOf(op), NEW playlist
  PROVE  Outcome(op, Answer(c, op, Success(vals)), playlist)
           = Success(Callback(op, [k \in DOMAIN ReplyArgs(op, vals) |->
                                     Received(ReplyArgs(op, vals)[k])], playlist))
<1>1. Answer(c, op, Success(vals)).type # "error"
  BY SuccessRead
<1> QED BY <1>1, SuccessRead DEF Outcome

-----------------------------------------------------------------------------
(* What callers are told *)

\* The id of a playlist is the same as an unsigned number.
LEMMA PlaylistIdFits ==
  ASSUME NEW p \in Playlists \cup {0}
  PROVE  Unsigned(p, UintMod) = p
<1>1. p \in 0 .. UintMod - 1 /\ UintMod \in Nat \ {0}
  <2>1. UintMod \in Nat \ {0}
    BY WidthAssumption
  <2>2. Playlists \subseteq 1 .. UintMod - 1
    BY InstanceAssumption
  <2> QED BY <2>1, <2>2
<1>2. p % UintMod = p
  BY <1>1
<1> QED BY <1>2 DEF Unsigned

\* What is sent of a status arrives, but for a name that is missing.
LEMMA StatusSeen ==
  ASSUME NEW p \in Playlists \cup {0}, NEW o \in {Null, Text}, NEW vals, vals = <<p, 0, 1, o>>
  PROVE  LET args == ReplyArgs("get_status", vals)
         IN  [k \in DOMAIN args |-> Received(args[k])] = <<p, 0, 1, NullToEmpty(o)>>
<1> DEFINE args == <<Basic("u", p), Basic("u", 0), Basic("i", 1), Basic("s", NullToEmpty(o))>>
<1>1. ReplyArgs("get_status", vals) = args
  BY DEF ReplyArgs
<1>2. Received(args[1]) = p /\ Received(args[2]) = 0 /\ Received(args[3]) = 1
      /\ Received(args[4]) = NullToEmpty(o)
  BY PlaylistIdFits DEF Received, Basic
<1>3. DOMAIN args = 1 .. 4
  OBVIOUS
<1> HIDE DEF args
<1>4. [k \in DOMAIN args |-> Received(args[k])]
        = <<Received(args[1]), Received(args[2]), Received(args[3]), Received(args[4])>>
  BY <1>3
<1> QED BY <1>1, <1>2, <1>4

\* What is found for the id of a playlist.
LEMMA FoundIs ==
  ASSUME NullIsNoRecord, NEW p, NEW found \in get_playlist(p)
  PROVE  found.playlist = p \/ (found.playlist = 0 /\ (p \in gone \/ found.error # Null))
<1>1. CASE p = 0
  BY <1>1 DEF get_playlist, Lookup
<1>2. CASE p # 0
  <2>1. CASE found = Lookup(0, Failure)
    <3>1. Failure # Null
      BY FailureIsSome
    <3> QED BY <2>1, <3>1 DEF Lookup
  <2>2. CASE found # Lookup(0, Failure)
    BY <1>2, <2>2 DEF get_playlist, Lookup
  <2> QED BY <2>1, <2>2
<1> QED BY <1>1, <1>2

\* A status is told as the renderer gave it, but for a playlist that is gone or that
\* could not be asked about.
LEMMA StatusTold ==
  ASSUME NullIsNoRecord, gone \subseteq Playlists,
         NEW p \in Playlists \cup {0}, NEW o \in {Null, Text},
         NEW vals, vals = <<p, 0, 1, o>>, NEW found \in get_playlist(p),
         NEW c, NEW failed, found.error # Null => c \in failed
  PROVE  LET args == ReplyArgs("get_status", vals)
             seen == [k \in DOMAIN args |-> Received(args[k])]
         IN  Success(Callback("get_status", seen, found.playlist))
               \in MayBeTold("get_status", Success(vals), c \in failed)
<1> DEFINE seen == <<p, 0, 1, NullToEmpty(o)>>
<1>1. LET args == ReplyArgs("get_status", vals)
      IN  [k \in DOMAIN args |-> Received(args[k])] = seen
  BY StatusSeen
<1>2. EmptyToNull(NullToEmpty(o)) = o
  BY InstanceAssumption DEF EmptyToNull, NullToEmpty
<1>3. Callback("get_status", seen, found.playlist) = <<found.playlist, 0, 1, o>>
  BY <1>2 DEF Callback
<1>4. CASE found.playlist = p
  BY <1>1, <1>3, <1>4 DEF MayBeTold
<1>5. CASE found.playlist = 0 /\ (p \in gone \/ c \in failed)
  <2>1. vals[1] = p /\ [vals EXCEPT ![1] = 0] = <<0, 0, 1, o>>
    OBVIOUS
  <2>2. Success(vals).error = Null /\ Success(vals).vals = vals
    BY DEF Success
  <2>3. Success(<<0, 0, 1, o>>) \in MayBeTold("get_status", Success(vals), c \in failed)
    BY <1>5, <2>1, <2>2 DEF MayBeTold
  <2> QED BY <1>1, <1>3, <1>5, <2>3
<1> QED BY <1>4, <1>5, FoundIs

\* Every other result is told as the renderer gave it.
LEMMA OthersTold ==
  ASSUME NEW op \in AllOps \ {"get_status", "assign_playlist"}, NEW vals \in Results(op),
         NEW playlist
  PROVE  LET args == ReplyArgs(op, vals)
             seen == [k \in DOMAIN args |-> Received(args[k])]
         IN  Callback(op, seen, playlist) = vals
<1> DEFINE args == ReplyArgs(op, vals)
           seen == [k \in DOMAIN args |-> Received(args[k])]
<1>1. CASE op \in {"set_position", "get_position"}
  <2>1. vals = <<-1>> /\ args = <<Basic("u", -1)>>
    BY <1>1 DEF Results, ReplyArgs
  <2>2. Received(Basic("u", -1)) = UintMod - 1
    BY WidthAssumption, Wraps DEF Received, Basic, Unsigned
  <2>3. seen = <<UintMod - 1>>
    <3>1. [k \in DOMAIN <<Basic("u", -1)>> |-> Received(<<Basic("u", -1)>>[k])]
            = <<Received(Basic("u", -1))>>
      OBVIOUS
    <3> QED BY <2>1, <2>2, <3>1
  <2>4. Signed(UintMod - 1, UintMod) = -1
    BY WidthAssumption DEF Signed
  <2> HIDE DEF seen
  <2> QED BY <1>1, <2>1, <2>3, <2>4 DEF Callback, seen
<1>2. CASE op = "get_current_metadata"
  <2>1. PICK o \in {Null, Text} : vals = <<o, Frozen>>
    BY <1>2 DEF Results
  <2>2. args = <<Basic("s", NullToEmpty(o)), Array("y", Frozen)>>
    BY <1>2, <2>1 DEF ReplyArgs
  <2>3. /\ Received(Basic("s", NullToEmpty(o))) = NullToEmpty(o)
        /\ Received(Array("y", Frozen)) = Frozen
    BY DEF Received, Basic, Array
  <2>4. seen = <<NullToEmpty(o), Frozen>>
    <3> DEFINE a == Basic("s", NullToEmpty(o))
               b == Array("y", Frozen)
    <3> HIDE DEF a, b
    <3>1. [k \in DOMAIN <<a, b>> |-> Received(<<a, b>>[k])] = <<Received(a), Received(b)>>
      OBVIOUS
    <3> QED BY <2>2, <2>3, <3>1 DEF a, b
  <2>5. EmptyToNull(NullToEmpty(o)) = o
    BY InstanceAssumption DEF EmptyToNull, NullToEmpty
  <2> HIDE DEF seen
  <2> QED BY <1>2, <2>1, <2>4, <2>5 DEF Callback, seen
<1>3. CASE op = "get_extension_property"
  <2>1. PICK g \in GValues : vals = <<Text, g>>
    BY <1>3 DEF Results
  <2>2. args = <<Basic("s", Text), GValue(g)>>
    BY <1>3, <2>1 DEF ReplyArgs
  <2>3. Received(Basic("s", Text)) = Text /\ Received(GValue(g)) = g
    BY DEF Received, Basic, GValue
  <2>4. seen = <<Text, g>>
    <3> DEFINE a == Basic("s", Text)
               b == GValue(g)
    <3> HIDE DEF a, b
    <3>1. [k \in DOMAIN <<a, b>> |-> Received(<<a, b>>[k])] = <<Received(a), Received(b)>>
      OBVIOUS
    <3> QED BY <2>2, <2>3, <3>1 DEF a, b
  <2> HIDE DEF seen
  <2> QED BY <1>3, <2>1, <2>4 DEF Callback, seen
<1>4. CASE op \notin {"set_position", "get_position", "get_current_metadata",
                      "get_extension_property"}
  <2>1. vals = <<>> /\ args = <<>>
    BY <1>4 DEF Results, ReplyArgs
  <2>2. seen = <<>>
    BY <2>1
  <2> HIDE DEF seen
  <2> QED BY <1>4, <2>1, <2>2 DEF Callback, seen
<1> QED BY <1>1, <1>2, <1>3, <1>4

\* What a caller is told by an answer, as OutcomeIsTrue has it.
TrueTo(op, outcome, t, noneAsked) ==
  IF op = "assign_playlist" THEN t.error = outcome.error
  ELSE t \in MayBeTold(op, outcome, noneAsked)

\* What is made of the renderer's answer is true to it.
LEMMA AnswerTold ==
  ASSUME NullIsNoRecord, gone \subseteq Playlists, NEW c, NEW op \in AllOps,
         NEW outcome \in OutcomesOf(op), NEW found \in Lookups(op, Answer(c, op, outcome)),
         NEW failed, found.error # Null => c \in failed
  PROVE  TrueTo(op, outcome, Outcome(op, Answer(c, op, outcome), found.playlist), c \in failed)
<1>1. CASE outcome = Failed(Failure)
  BY <1>1, FailureTold DEF TrueTo, MayBeTold
<1>2. ASSUME NEW vals \in ResultsOf(op), outcome = Success(vals)
      PROVE  TrueTo(op, outcome, Outcome(op, Answer(c, op, outcome), found.playlist),
                    c \in failed)
  <2> DEFINE args == ReplyArgs(op, vals)
             seen == [k \in DOMAIN args |-> Received(args[k])]
             told1 == Callback(op, seen, found.playlist)
  <2>1. Outcome(op, Answer(c, op, outcome), found.playlist) = Success(told1)
    BY <1>2, SuccessTold
  <2>2. CASE op = "assign_playlist"
    BY <1>2, <2>1, <2>2 DEF TrueTo, Success
  <2>3. CASE op = "get_status"
    <3>1. PICK p \in Playlists \cup {0}, o \in {Null, Text} : vals = <<p, 0, 1, o>>
      BY <2>3 DEF ResultsOf, Results
    <3>2. Answer(c, op, outcome).type = "reply" /\ ReplyVals(op, Answer(c, op, outcome)) = seen
      BY <1>2, SuccessRead
    <3>3. seen = <<p, 0, 1, NullToEmpty(o)>>
      BY <2>3, <3>1, StatusSeen
    <3>4. found \in get_playlist(p)
      <4> HIDE DEF seen
      <4>1. ReplyVals(op, Answer(c, op, outcome))[1] = p
        BY <3>2, <3>3
      <4> QED BY <2>3, <3>2, <4>1 DEF Lookups
    <3>5. Success(told1) \in MayBeTold(op, Success(vals), c \in failed)
      BY <2>3, <3>1, <3>4, StatusTold
    <3> QED BY <1>2, <2>1, <2>3, <3>5 DEF TrueTo
  <2>4. CASE op \notin {"assign_playlist", "get_status"}
    <3>1. told1 = vals
      <4>1. vals \in Results(op)
        BY <2>4 DEF ResultsOf
      <4> QED BY <2>4, <4>1, OthersTold
    <3> QED BY <1>2, <2>1, <2>4, <3>1 DEF TrueTo, MayBeTold
  <2> QED BY <2>2, <2>3, <2>4
<1> QED BY <1>1, <1>2 DEF OutcomesOf

-----------------------------------------------------------------------------
(* The messages and the types *)

CallMessages == {Call(c, r.op, r.args) : c \in Calls, r \in Asked}
Signals ==
  UNION {{mafw_dbus_signal(member, args) : args \in SignalArgs(member)} : member \in Members}
RepliesTo(c, op) == {Answer(c, op, outcome) : outcome \in OutcomesOf(op)}
Replies == UNION {RepliesTo(c, op) : c \in Calls, op \in AllOps}
Message == Signals \cup Replies \cup {NoReply(c) : c \in Calls}
Outcomes == UNION {OutcomesOf(op) : op \in AllOps}

TypeInv ==
  /\ service \in {"exported", "unexported", "gone"} /\ working \subseteq Calls
  /\ done \in [Calls -> Outcomes \cup {Null}] /\ timer \in BOOLEAN /\ last_state \in 0 .. Full
  /\ reported \in 1 .. Full \cup {Null} /\ gone \subseteq Playlists
  /\ toWrapper \in Seq(CallMessages) /\ toApp \in Seq(Message)
  /\ request \in [Calls -> Asked \cup {Null}] /\ pending \subseteq Calls
  /\ blocked \in Calls \cup {Null} /\ lost \subseteq Calls /\ DOMAIN told = Calls
  /\ held \in BOOLEAN /\ refs \in Int /\ misused \subseteq Calls /\ shown \in 1 .. Full \cup {Null}

\* The messages, by their fields.
LEMMA SignalShape ==
  ASSUME NEW m \in Signals
  PROVE  /\ m.type = "signal" /\ m.member \in Members /\ m.args \in SignalArgs(m.member)
         /\ m = mafw_dbus_signal(m.member, m.args)
<1>1. PICK member \in Members : \E args \in SignalArgs(member) : m = mafw_dbus_signal(member, args)
  BY DEF Signals
<1>2. PICK args \in SignalArgs(member) : m = mafw_dbus_signal(member, args)
  BY <1>1
<1>3. m.type = "signal" /\ m.member = member /\ m.args = args
  BY <1>2 DEF mafw_dbus_signal
<1> QED BY <1>2, <1>3

LEMMA AnswerShape ==
  ASSUME NEW c, NEW op, NEW outcome
  PROVE  Answer(c, op, outcome).type \in {"reply", "error"} /\ Answer(c, op, outcome).call = c
BY DEF Answer, mafw_dbus_reply, mafw_dbus_gerror

LEMMA NoReplyShape ==
  ASSUME NEW c
  PROVE  NoReply(c).type = "error" /\ NoReply(c).call = c
BY DEF NoReply

LEMMA MessageShape ==
  ASSUME NEW m \in Message
  PROVE  /\ m.type = "signal" <=> m \in Signals
         /\ m.type # "signal" => m.call \in Calls
<1>1. CASE m \in Signals
  BY <1>1, SignalShape
<1>2. CASE m \in Replies
  <2>1. \E c \in Calls, op \in AllOps : \E outcome \in OutcomesOf(op) : m = Answer(c, op, outcome)
    BY <1>2 DEF Replies, RepliesTo
  <2>2. m.type # "signal" /\ m.call \in Calls
    BY <2>1, AnswerShape
  <2> QED BY <2>2, SignalShape
<1>3. CASE m \in {NoReply(c) : c \in Calls}
  <2>1. m.type # "signal" /\ m.call \in Calls
    BY <1>3, NoReplyShape
  <2> QED BY <2>1, SignalShape
<1> QED BY <1>1, <1>2, <1>3 DEF Message

\* What is sent is a message.
LEMMA NoReplyIsMessage == ASSUME NEW c \in Calls PROVE NoReply(c) \in Message
BY DEF Message

LEMMA AnswerIsMessage ==
  ASSUME NEW c \in Calls, NEW op \in AllOps, NEW outcome \in OutcomesOf(op)
  PROVE  Answer(c, op, outcome) \in Message
<1>1. Answer(c, op, outcome) \in RepliesTo(c, op)
  BY DEF RepliesTo
<1>2. RepliesTo(c, op) \in {RepliesTo(d, p) : d \in Calls, p \in AllOps}
  OBVIOUS
<1>3. Answer(c, op, outcome) \in Replies
  BY <1>1, <1>2 DEF Replies
<1> QED BY <1>3 DEF Message

LEMMA SignalIsMessage ==
  ASSUME NEW member \in Members, NEW args \in SignalArgs(member)
  PROVE  mafw_dbus_signal(member, args) \in Message \cap Signals
BY DEF Message, Signals

LEMMA CallShape ==
  ASSUME NEW m \in CallMessages
  PROVE  /\ m.call \in Calls /\ m.op \in AllOps /\ m.args \in RequestArgs(m.op)
         /\ m = Call(m.call, m.op, m.args)
<1>1. PICK c \in Calls, r \in Asked : m = Call(c, r.op, r.args)
  BY DEF CallMessages
<1>2. m.call = c /\ m.op = r.op /\ m.args = r.args
  BY <1>1 DEF Call
<1> QED BY <1>1, <1>2, AskedShape

LEMMA CallIsMessage ==
  ASSUME NEW c \in Calls, NEW op \in AllOps, NEW args \in RequestArgs(op)
  PROVE  /\ [op |-> op, args |-> args] \in Asked
         /\ Call(c, op, args) \in CallMessages
         /\ Call(c, op, args).call = c /\ Call(c, op, args).op = op
<1>1. [op |-> op, args |-> args] \in Asked
  BY DEF Asked
<1>2. Call(c, [op |-> op, args |-> args].op, [op |-> op, args |-> args].args) \in CallMessages
  BY <1>1 DEF CallMessages
<1> QED BY <1>1, <1>2 DEF Call

\* Every method sends a call with arguments of its kind.
LEMMA RequestIsCall ==
  ASSUME NEW c \in Calls, Request(c)
  PROVE  \E op \in AllOps : \E args \in RequestArgs(op) : CallRenderer(c, op, args)
<1>1. ASSUME NEW op \in {"play", "stop", "pause", "resume", "get_status", "next", "previous",
                         "get_position", "get_current_metadata"}
      PROVE  op \in AllOps /\ <<>> \in RequestArgs(op)
  BY DEF RequestArgs, AllOps, Playback
<1>2. ASSUME NEW op \in {"play_object", "play_uri", "get_extension_property"}
      PROVE  op \in AllOps /\ <<Basic("s", Text)>> \in RequestArgs(op)
  BY DEF RequestArgs, AllOps, Playback
<1>3. ASSUME NEW p \in Playlists \cup {0}
      PROVE  "assign_playlist" \in AllOps /\ <<Basic("u", p)>> \in RequestArgs("assign_playlist")
  BY DEF RequestArgs, AllOps, Playback
<1>4. "goto_index" \in AllOps /\ <<Basic("u", UintMod - 1)>> \in RequestArgs("goto_index")
  BY DEF RequestArgs, AllOps, Playback
<1>5. /\ "set_position" \in AllOps
      /\ <<Basic("i", 0), Basic("i", -1)>> \in RequestArgs("set_position")
  BY DEF RequestArgs, AllOps, Playback
<1>6. CASE assign_playlist(c)
  BY <1>3, <1>6 DEF assign_playlist
<1>7. CASE play_object(c) \/ play_uri(c) \/ get_extension_property(c)
  BY <1>2, <1>7 DEF play_object, play_uri, get_extension_property
<1>8. CASE goto_index(c) \/ set_position(c)
  BY <1>4, <1>5, <1>8 DEF goto_index, set_position
<1>9. CASE play(c) \/ stop(c) \/ pause(c) \/ resume(c) \/ get_status(c)
  BY <1>1, <1>9 DEF play, stop, pause, resume, get_status
<1>10. CASE next(c) \/ previous(c) \/ get_position(c) \/ get_current_metadata(c)
  BY <1>1, <1>10 DEF next, previous, get_position, get_current_metadata
<1> QED BY <1>6, <1>7, <1>8, <1>9, <1>10 DEF Request

Buffering(status) == mafw_dbus_signal("buffering_info", <<Basic("d", status)>>)
StateChanged == mafw_dbus_signal("state_changed", <<Basic("i", 2)>>)
Forwarded == {m \in Signals : m.member \notin {"buffering_info", "state_changed"}}

\* The two signals that the throttle is about.
LEMMA BufferingShape ==
  ASSUME NEW status \in 1 .. Full
  PROVE  /\ Buffering(status) \in Message \cap Signals
         /\ Buffering(status).type = "signal" /\ Buffering(status).member = "buffering_info"
         /\ Buffering(status).args[1].val = status
<1>1. <<Basic("d", status)>> \in SignalArgs("buffering_info")
  BY DEF SignalArgs
<1>2. Buffering(status) \in Message \cap Signals
  BY <1>1, SignalIsMessage DEF Members, Buffering
<1> QED BY <1>2 DEF Buffering, mafw_dbus_signal, Basic

LEMMA StateChangedShape ==
  /\ StateChanged \in Message \cap Signals
  /\ StateChanged.type = "signal" /\ StateChanged.member = "state_changed"
<1>1. <<Basic("i", 2)>> \in SignalArgs("state_changed")
  BY DEF SignalArgs
<1>2. StateChanged \in Message \cap Signals
  BY <1>1, SignalIsMessage DEF Members, StateChanged
<1> QED BY <1>2 DEF StateChanged, mafw_dbus_signal

\* The signals that are forwarded as they are.
Forwards == playlist_changed \/ media_changed \/ metadata_changed \/ property_changed \/ error

\* A forwarded signal is another, and changes nothing else.
LEMMA ForwardsSend ==
  ASSUME Forwards
  PROVE  /\ \E m \in Forwarded : toApp' = Append(toApp, m)
         /\ service = "exported" /\ UNCHANGED <<wrapper, gone, toWrapper, proxy>>
<1>1. ASSUME NEW member \in Members \ {"buffering_info", "state_changed"},
             NEW args \in SignalArgs(member), Forward(member, args)
      PROVE  /\ \E m \in Forwarded : toApp' = Append(toApp, m)
             /\ service = "exported" /\ UNCHANGED <<wrapper, gone, toWrapper, proxy>>
  <2>1. mafw_dbus_signal(member, args) \in Forwarded
    <3>1. mafw_dbus_signal(member, args) \in Signals
      BY SignalIsMessage
    <3>2. mafw_dbus_signal(member, args).member = member
      BY DEF mafw_dbus_signal
    <3> QED BY <3>1, <3>2 DEF Forwarded
  <2> QED BY <1>1, <2>1 DEF Forward, Emit
<1>2. CASE playlist_changed
  <2>1. PICK p \in Playlists \cup {0} : Forward("playlist_changed", <<Basic("u", p)>>)
    BY <1>2 DEF playlist_changed
  <2>2. <<Basic("u", p)>> \in SignalArgs("playlist_changed")
    BY DEF SignalArgs
  <2> QED BY <1>1, <2>1, <2>2 DEF Members
<1>3. CASE media_changed
  <2>1. PICK o \in {Null, Text} :
          Forward("media_changed", <<Basic("i", -1), Basic("s", NullToEmpty(o))>>)
    BY <1>3 DEF media_changed
  <2>2. <<Basic("i", -1), Basic("s", NullToEmpty(o))>> \in SignalArgs("media_changed")
    BY DEF SignalArgs
  <2> QED BY <1>1, <2>1, <2>2 DEF Members
<1>4. CASE metadata_changed
  <2>1. PICK gs \in {SetToSeq(GValues)} \cup (IF "empty array" \in Faults THEN {<<>>} ELSE {}) :
          Forward("metadata_changed", <<Basic("s", Text), GValueArray(gs)>>)
    BY <1>4 DEF metadata_changed
  <2>2. <<Basic("s", Text), GValueArray(gs)>> \in SignalArgs("metadata_changed")
    BY DEF SignalArgs
  <2> QED BY <1>1, <2>1, <2>2 DEF Members
<1>5. CASE property_changed
  <2>1. PICK g \in GValues : Forward("property_changed", <<Basic("s", Text), GValue(g)>>)
    BY <1>5 DEF property_changed
  <2>2. <<Basic("s", Text), GValue(g)>> \in SignalArgs("property_changed")
    BY DEF SignalArgs
  <2> QED BY <1>1, <2>1, <2>2 DEF Members
<1>6. CASE error
  <2>1. Forward("error", <<Basic("s", Domain), Basic("i", -1), Basic("s", Text)>>)
    BY <1>6 DEF error
  <2>2. <<Basic("s", Domain), Basic("i", -1), Basic("s", Text)>> \in SignalArgs("error")
    BY DEF SignalArgs
  <2> QED BY <1>1, <2>1, <2>2 DEF Members
<1> QED BY <1>2, <1>3, <1>4, <1>5, <1>6 DEF Forwards

-----------------------------------------------------------------------------
(* The invariant: the books, the work, and their parts *)

\* Books are kept of the calls: who waits, for what, and through whose reference.
Waits(c) == Referenced(request[c].op)
Books ==
  /\ pending = {c \in Calls : request[c] # Null /\ told[c] = Null}
  /\ lost \subseteq {c \in Calls : request[c] # Null}
  /\ blocked \in pending \cup {Null}
  /\ \A c \in pending : request[c].op = "assign_playlist" => blocked = c /\ held
  /\ refs = (IF held THEN 1 ELSE 0) + Cardinality({c \in pending : Waits(c)})
  /\ \A c \in misused : request[c] # Null /\ request[c].op = "get_extension_property"
  /\ \A c \in unasked :
       c \in Calls /\ request[c] # Null /\ told[c] # Null /\ request[c].op = "get_status"

\* A call is under way to the wrapper, worked on, or done, once.
Undone(c) == request[c] # Null /\ done[c] = Null
Fresh(m) ==
  /\ Undone(m.call) /\ m.call \notin working
  /\ m.op = request[m.call].op /\ m.args = request[m.call].args
Work ==
  /\ timer => service = "exported" /\ last_state # 0 /\ reported = last_state
  /\ \A c \in Calls : request[c] = Null => done[c] = Null /\ told[c] = Null
  /\ \A c \in Calls : done[c] # Null => done[c] \in OutcomesOf(request[c].op)
  /\ \A c \in working : Undone(c) /\ request[c].op # "assign_playlist"
  /\ \A m \in Range(toWrapper) : Fresh(m)
  /\ \A j, k \in DOMAIN toWrapper : toWrapper[j].call = toWrapper[k].call => j = k

\* A sequence without one of its elements.
LEMMA RemoveAtProperties ==
  ASSUME NEW S, NEW q \in Seq(S), NEW k \in DOMAIN q
  PROVE  /\ RemoveAt(q, k) \in Seq(S) /\ Len(RemoveAt(q, k)) = Len(q) - 1
         /\ \A j \in 1 .. Len(q) - 1 : RemoveAt(q, k)[j] = IF j < k THEN q[j] ELSE q[j + 1]
<1>1. k \in 1 .. Len(q) /\ Len(q) \in Nat
  OBVIOUS
<1> DEFINE a == SubSeq(q, 1, k - 1)
           b == SubSeq(q, k + 1, Len(q))
<1>2. a \in Seq(S) /\ Len(a) = k - 1 /\ \A i \in 1 .. k - 1 : a[i] = q[i]
  <2>1. \A i \in 1 .. k - 1 : q[i] \in S
    BY <1>1
  <2>2. /\ a \in Seq(S) /\ Len(a) = IF 1 <= k - 1 THEN (k - 1) - 1 + 1 ELSE 0
        /\ \A i \in 1 .. (k - 1) - 1 + 1 : a[i] = q[1 + i - 1]
    BY <1>1, <2>1, SubSeqProperties
  <2>3. (k - 1) - 1 + 1 = k - 1 /\ \A i \in 1 .. k - 1 : 1 + i - 1 = i
    BY <1>1
  <2> HIDE DEF a
  <2> QED BY <1>1, <2>2, <2>3
<1>3. b \in Seq(S) /\ Len(b) = Len(q) - k /\ \A i \in 1 .. Len(q) - k : b[i] = q[k + i]
  <2>1. \A i \in k + 1 .. Len(q) : q[i] \in S
    BY <1>1
  <2>2. /\ b \in Seq(S) /\ Len(b) = IF k + 1 <= Len(q) THEN Len(q) - (k + 1) + 1 ELSE 0
        /\ \A i \in 1 .. Len(q) - (k + 1) + 1 : b[i] = q[(k + 1) + i - 1]
    BY <1>1, <2>1, SubSeqProperties
  <2>3. Len(q) - (k + 1) + 1 = Len(q) - k /\ \A i \in 1 .. Len(q) - k : (k + 1) + i - 1 = k + i
    BY <1>1
  <2> HIDE DEF b
  <2> QED BY <1>1, <2>2, <2>3
<1> HIDE DEF a, b
<1>4. /\ a \o b \in Seq(S) /\ Len(a \o b) = Len(q) - 1
      /\ \A j \in 1 .. Len(q) - 1 : (a \o b)[j] = IF j <= Len(a) THEN a[j] ELSE b[j - Len(a)]
  BY <1>1, <1>2, <1>3, ConcatProperties
<1>5. ASSUME NEW j \in 1 .. Len(q) - 1
      PROVE  (a \o b)[j] = IF j < k THEN q[j] ELSE q[j + 1]
  <2>1. CASE j < k
    BY <1>1, <1>2, <1>4, <2>1
  <2>2. CASE ~(j < k)
    <3>1. j - Len(a) \in 1 .. Len(q) - k /\ k + (j - Len(a)) = j + 1 /\ ~(j <= Len(a))
      BY <1>1, <1>2, <2>2
    <3>2. b[j - Len(a)] = q[j + 1]
      BY <1>3, <3>1
    <3> QED BY <1>4, <2>2, <3>1, <3>2
  <2> QED BY <2>1, <2>2
<1> QED BY <1>4, <1>5 DEF RemoveAt, a, b

\* The first answer to a call.
FirstAnswer(k, c) ==
  /\ k \in DOMAIN toApp /\ Answers(toApp[k], c)
  /\ \A j \in DOMAIN toApp : Answers(toApp[j], c) => k <= j
AnswersTo(c) == {i \in 1 .. Len(toApp) : Answers(toApp[i], c)}

\* assign_playlist() takes the first answer to its call.
LEMMA AnswerFound ==
  ASSUME toApp \in Seq(Message), NEW c, Answered(c)
  PROVE  /\ AnswersTo(c) # {} /\ FirstAnswer(Min(AnswersTo(c)), c)
<1>1. Len(toApp) \in Nat /\ DOMAIN toApp = 1 .. Len(toApp)
  OBVIOUS
<1>2. AnswersTo(c) \in SUBSET (1 .. Len(toApp)) /\ AnswersTo(c) # {}
  BY <1>1 DEF AnswersTo, Answered
<1>3. PICK k \in AnswersTo(c) : \A j \in AnswersTo(c) : k <= j
  <2> HIDE DEF AnswersTo
  <2> QED BY <1>1, <1>2, LeastIndex
<1>4. AnswersTo(c) \in SUBSET Nat
  BY <1>1, <1>2
<1>5. Min(AnswersTo(c)) = k
  BY <1>3, <1>4, LeastIs
<1>6. FirstAnswer(k, c)
  BY <1>1, <1>3 DEF FirstAnswer, AnswersTo
<1> QED BY <1>2, <1>5, <1>6

\* What assign_playlist() does when its answer is there.
TakesAnswer(k) ==
  /\ blocked # Null /\ FirstAnswer(k, blocked)
  /\ Told(blocked, toApp[k]) /\ toApp' = RemoveAt(toApp, k) /\ blocked' = Null
  /\ UNCHANGED <<wrapper, gone, toWrapper, request, lost, held, shown, events>>

LEMMA AssignTakes ==
  ASSUME toApp \in Seq(Message), AssignReturns
  PROVE  \E k \in DOMAIN toApp : TakesAnswer(k)
<1> DEFINE k == Min(AnswersTo(blocked))
<1>1. AnswersTo(blocked) # {} /\ FirstAnswer(k, blocked)
  BY AnswerFound DEF AssignReturns
<1>2. /\ Told(blocked, toApp[k]) /\ toApp' = RemoveAt(toApp, k)
      /\ blocked # Null /\ blocked' = Null
      /\ UNCHANGED <<wrapper, gone, toWrapper, request, lost, held, shown, events>>
  BY <1>1, Zenon DEF AssignReturns, SelectInSeq, AnswersTo
<1>3. k \in DOMAIN toApp
  BY <1>1 DEF FirstAnswer
<1> HIDE DEF k
<1>4. TakesAnswer(k)
  BY <1>1, <1>2 DEF TakesAnswer
<1> QED BY <1>3, <1>4

\* The wrapper finds the id in the call.
LEMMA AssignParses ==
  ASSUME NEW m \in CallMessages, m.op = "assign_playlist"
  PROVE  \E p \in Playlists \cup {0} :
           /\ m.args = <<Basic("u", p)>> /\ m.args[1].val = p
           /\ clever_parse_valist(RequestWants("assign_playlist"), m.items).vals[1] = p
<1>1. m = Call(m.call, m.op, m.args) /\ m.args \in RequestArgs(m.op) /\ m.op \in AllOps
  BY CallShape
<1>2. PICK p \in Playlists \cup {0} : m.args = <<Basic("u", p)>>
  BY <1>1 DEF RequestArgs
<1>3. m.items = clever_append_valist(m.args).items
  BY <1>1 DEF Call
<1>4. clever_parse_valist(RequestWants(m.op), m.items)
        = [dies |-> FALSE, vals |-> [k \in DOMAIN m.args |-> Received(m.args[k])]]
  BY <1>1, <1>3, RequestUnderstood DEF Understood
<1>5. Received(Basic("u", p)) = p
  BY PlaylistIdFits DEF Received, Basic
<1>6. [k \in DOMAIN m.args |-> Received(m.args[k])][1] = p
  BY <1>2, <1>5
<1>7. Basic("u", p).val = p
  BY DEF Basic
<1> QED BY <1>2, <1>4, <1>6, <1>7

\* What the renderer makes of a call.
LEMMA AssignOutcome ==
  ASSUME TypeInv, AssignPlaylist
  PROVE  \E p \in Playlists \cup {0} : \E outcome \in Assignments(p) :
           LET c == Head(toWrapper).call
           IN  /\ Head(toWrapper).args[1].val = p
               /\ outcome \in OutcomesOf("assign_playlist")
               /\ done' = [done EXCEPT ![c] = outcome]
               /\ toApp' = Append(toApp, Answer(c, "assign_playlist", outcome))
<1>1. Head(toWrapper) \in CallMessages /\ Head(toWrapper).op = "assign_playlist"
  BY DEF AssignPlaylist, TypeInv
<1>2. PICK p \in Playlists \cup {0} :
        /\ Head(toWrapper).args[1].val = p
        /\ clever_parse_valist(RequestWants("assign_playlist"), Head(toWrapper).items).vals[1] = p
  BY <1>1, AssignParses
<1>3. PICK outcome \in Assignments(p) :
        /\ done' = [done EXCEPT ![Head(toWrapper).call] = outcome]
        /\ toApp' = Append(toApp, Answer(Head(toWrapper).call, "assign_playlist", outcome))
  BY <1>2 DEF AssignPlaylist
<1>4. \A found \in get_playlist(p) : found.playlist \in Playlists \cup {0}
  BY DEF get_playlist, Lookup
<1>5. outcome \in OutcomesOf("assign_playlist")
  BY <1>4 DEF Assignments, OutcomesOf, ResultsOf
<1> QED BY <1>2, <1>3, <1>5

LEMMA CompleteOutcome ==
  ASSUME TypeInv, Work, NEW c \in Calls, Complete(c)
  PROVE  \E outcome \in OutcomesOf(request[c].op) :
           /\ done' = [done EXCEPT ![c] = outcome]
           /\ toApp' = Append(toApp, Answer(c, request[c].op, outcome))
BY DEF Complete, Work, OutcomesOf, ResultsOf

\* A call that was made, and one at the head of the queue.
LEMMA RequestedOp ==
  ASSUME TypeInv, NEW c \in Calls, request[c] # Null
  PROVE  request[c] \in Asked /\ request[c].op \in AllOps
BY AskedShape DEF TypeInv

LEMMA HeadOfCalls ==
  ASSUME TypeInv, toWrapper # <<>>
  PROVE  /\ Head(toWrapper) \in CallMessages /\ Head(toWrapper).call \in Calls
         /\ 1 \in DOMAIN toWrapper /\ Head(toWrapper) = toWrapper[1]
<1>1. toWrapper \in Seq(CallMessages)
  BY DEF TypeInv
<1>2. Head(toWrapper) \in CallMessages /\ 1 \in DOMAIN toWrapper /\ Head(toWrapper) = toWrapper[1]
  BY <1>1
<1> QED BY <1>2, CallShape

\* When the wrapper is gone the bus answers each waiting call that has no answer.
LEMMA CrashAnswers ==
  ASSUME TypeInv, Crash
  PROVE  \E s \in Seq(Message) :
           LET unanswered == {c \in pending : ~Answered(c)}
           IN  /\ toApp' = toApp \o s
               /\ \A k \in DOMAIN s : \E c \in unanswered : s[k] = NoReply(c)
               /\ \A c \in unanswered : \E k \in DOMAIN s : s[k] = NoReply(c)
               /\ \A j, k \in DOMAIN s : s[j] = s[k] => j = k
<1> DEFINE U == {c \in pending : ~Answered(c)}
           n == Cardinality(U)
           l == SetToSeq(U)
           s == [k \in 1 .. n |-> NoReply(l[k])]
<1>1. U \subseteq Calls /\ IsFiniteSet(U)
  <2>1. U \subseteq Calls
    BY DEF TypeInv
  <2> QED BY <2>1, FS_Subset, InstanceAssumption
<1>2. n \in Nat /\ l \in [1 .. n -> U] /\ IsInjective(l)
  BY <1>1, ListOfSet
<1>3. toApp' = toApp \o s
  BY DEF Crash
<1>4. \A k \in 1 .. n : l[k] \in U /\ s[k] = NoReply(l[k])
  BY <1>2
<1>5. \A k \in 1 .. n : s[k] \in Message
  BY <1>1, <1>4, NoReplyIsMessage
<1>6. s \in Seq(Message) /\ DOMAIN s = 1 .. n
  BY <1>2, <1>5
<1>7. \A c \in U : \E k \in 1 .. n : l[k] = c
  <2>1. l \in Injection(1 .. n, U)
    BY <1>2 DEF Injection, IsInjective
  <2>2. Cardinality(1 .. n) = n /\ IsFiniteSet(1 .. n)
    BY <1>2, FS_Interval
  <2>3. l \in Surjection(1 .. n, U)
    <3> HIDE DEF U, n, l
    <3>1. Cardinality(1 .. n) = Cardinality(U)
      BY <2>2 DEF n
    <3> QED BY <1>1, <2>1, <3>1, FS_Injection
  <2> HIDE DEF U, n, l
  <2> QED BY <2>3 DEF Surjection
<1>8. \A c \in U : \E k \in 1 .. n : s[k] = NoReply(c)
  BY <1>4, <1>7
<1>9. \A j, k \in 1 .. n : s[j] = s[k] => j = k
  <2>1. \A j, k \in 1 .. n : s[j] = s[k] => l[j] = l[k]
    <3> HIDE DEF s, l, n, U
    <3> QED BY <1>4, NoReplyShape
  <2> HIDE DEF s, l, n, U
  <2> QED BY <1>2, <2>1 DEF IsInjective
<1> HIDE DEF s, n, l
<1>10. /\ toApp' = toApp \o s
       /\ \A k \in DOMAIN s : \E c \in U : s[k] = NoReply(c)
       /\ \A c \in U : \E k \in DOMAIN s : s[k] = NoReply(c)
       /\ \A j, k \in DOMAIN s : s[j] = s[k] => j = k
  BY <1>3, <1>4, <1>6, <1>8, <1>9
<1> QED BY <1>6, <1>10

-----------------------------------------------------------------------------
(* The types are kept *)

\* A sequence with an element more, and without its first.
LEMMA Appended ==
  ASSUME NEW S, NEW q \in Seq(S), NEW e \in S, NEW r, r = Append(q, e)
  PROVE  /\ r \in Seq(S) /\ \A k \in DOMAIN q : k \in DOMAIN r /\ r[k] = q[k]
         /\ Len(q) + 1 \in DOMAIN r /\ r[Len(q) + 1] = e
         /\ \A k \in DOMAIN r : k \in DOMAIN q \/ k = Len(q) + 1
         /\ Len(q) \in Nat /\ DOMAIN q = 1 .. Len(q)
<1>1. /\ r \in Seq(S) /\ Len(r) = Len(q) + 1
      /\ \A k \in 1 .. Len(q) : r[k] = q[k]
      /\ r[Len(q) + 1] = e
  BY AppendProperties
<1>2. Len(q) \in Nat /\ DOMAIN q = 1 .. Len(q)
  OBVIOUS
<1>3. DOMAIN r = 1 .. Len(q) + 1
  BY <1>1
<1> QED BY <1>1, <1>2, <1>3

LEMMA Shortened ==
  ASSUME NEW S, NEW q \in Seq(S), q # <<>>, NEW r, r = Tail(q)
  PROVE  /\ r \in Seq(S) /\ Head(q) \in S /\ Head(q) = q[1] /\ 1 \in DOMAIN q
         /\ \A k \in DOMAIN r : k + 1 \in DOMAIN q /\ k \in Nat /\ r[k] = q[k + 1]
         /\ \A k \in DOMAIN q : k # 1 => k - 1 \in DOMAIN r /\ k \in Nat /\ r[k - 1] = q[k]
<1>1. /\ Head(q) \in S /\ r \in Seq(S) /\ Len(r) = Len(q) - 1
      /\ \A i \in 1 .. Len(r) : r[i] = q[i + 1]
  BY HeadTailProperties
<1>2. Len(q) \in Nat \ {0} /\ DOMAIN q = 1 .. Len(q) /\ Head(q) = q[1]
  OBVIOUS
<1>3. DOMAIN r = 1 .. Len(q) - 1
  BY <1>1
<1>4. ASSUME NEW k \in DOMAIN q, k # 1
      PROVE  k - 1 \in DOMAIN r /\ k \in Nat /\ r[k - 1] = q[k]
  <2>1. k - 1 \in 1 .. Len(q) - 1 /\ (k - 1) + 1 = k /\ k \in Nat
    BY <1>2, <1>4
  <2> QED BY <1>1, <1>3, <2>1
<1> QED BY <1>1, <1>2, <1>3, <1>4

\* The queue at the application without one of its messages.
LEMMA RemovedMessage ==
  ASSUME toApp \in Seq(Message), NEW k \in DOMAIN toApp, toApp' = RemoveAt(toApp, k)
  PROVE  /\ toApp' \in Seq(Message)
         /\ \A j \in DOMAIN toApp' :
              /\ j < k => j \in DOMAIN toApp /\ toApp'[j] = toApp[j]
              /\ ~(j < k) => j + 1 \in DOMAIN toApp /\ toApp'[j] = toApp[j + 1]
         /\ \A j \in DOMAIN toApp :
              /\ j < k => j \in DOMAIN toApp' /\ toApp'[j] = toApp[j]
              /\ j > k => j - 1 \in DOMAIN toApp' /\ toApp'[j - 1] = toApp[j]
<1>1. /\ RemoveAt(toApp, k) \in Seq(Message) /\ Len(RemoveAt(toApp, k)) = Len(toApp) - 1
      /\ \A j \in 1 .. Len(toApp) - 1 :
           RemoveAt(toApp, k)[j] = IF j < k THEN toApp[j] ELSE toApp[j + 1]
  BY RemoveAtProperties
<1>2. Len(toApp) \in Nat \ {0} /\ DOMAIN toApp = 1 .. Len(toApp)
  OBVIOUS
<1>3. DOMAIN toApp' = 1 .. Len(toApp) - 1
  BY <1>1, <1>2
<1>4. ASSUME NEW j \in DOMAIN toApp, j > k
      PROVE  j - 1 \in DOMAIN toApp' /\ toApp'[j - 1] = toApp[j]
  <2>1. j - 1 \in 1 .. Len(toApp) - 1 /\ (j - 1) + 1 = j /\ ~(j - 1 < k)
    BY <1>2, <1>4
  <2> QED BY <1>1, <1>3, <2>1
<1>5. ASSUME NEW j \in DOMAIN toApp', ~(j < k)
      PROVE  j + 1 \in DOMAIN toApp /\ toApp'[j] = toApp[j + 1]
  BY <1>1, <1>2, <1>3, <1>5
<1>6. ASSUME NEW j \in DOMAIN toApp, j < k
      PROVE  j \in DOMAIN toApp' /\ toApp'[j] = toApp[j]
  BY <1>1, <1>2, <1>3, <1>6
<1>7. ASSUME NEW j \in DOMAIN toApp', j < k
      PROVE  j \in DOMAIN toApp /\ toApp'[j] = toApp[j]
  BY <1>1, <1>2, <1>3, <1>7
<1> QED BY <1>1, <1>4, <1>5, <1>6, <1>7

LEMMA FreedIs == ASSUME NEW c, NEW m PROVE Freed(c, m) \in {0, 1}
BY DEF Freed

\* The types, at first and with each step.
LEMMA InitType == Init => TypeInv
<1> SUFFICES ASSUME Init PROVE TypeInv
  OBVIOUS
<1>1. Full \in Nat \ {0}
  BY InstanceAssumption
<1>2. <<>> \in Seq(CallMessages) /\ <<>> \in Seq(Message)
  OBVIOUS
<1>3. /\ done \in [Calls -> Outcomes \cup {Null}] /\ request \in [Calls -> Asked \cup {Null}]
      /\ DOMAIN told = Calls
  BY DEF Init
<1>4. last_state \in 0 .. Full /\ refs \in Int
  BY <1>1 DEF Init
<1>5. service \in {"exported", "unexported", "gone"} /\ timer \in BOOLEAN /\ held \in BOOLEAN
  BY DEF Init
<1> QED BY <1>2, <1>3, <1>4, <1>5 DEF Init, TypeInv

LEMMA TypeKept ==
  ASSUME TypeInv, Work, [Next]_vars
  PROVE  TypeInv'
<1> USE DEF TypeInv
<1>0. Full \in Nat \ {0} /\ toApp \in Seq(Message) /\ toWrapper \in Seq(CallMessages)
  BY InstanceAssumption
<1>1. ASSUME NEW c \in Calls, NEW op \in AllOps, NEW args \in RequestArgs(op),
             CallRenderer(c, op, args)
      PROVE  TypeInv'
  <2>1. [op |-> op, args |-> args] \in Asked /\ Call(c, op, args) \in CallMessages
    BY CallIsMessage
  <2>2. toWrapper' \in Seq(CallMessages) /\ toApp' \in Seq(Message)
    <3>1. CASE service = "exported"
      <4>1. toWrapper' = Append(toWrapper, Call(c, op, args)) /\ toApp' = toApp
        BY <1>1, <3>1 DEF CallRenderer
      <4> QED BY <1>0, <2>1, <4>1, AppendProperties
    <3>2. CASE service # "exported"
      <4>1. toApp' = Append(toApp, NoReply(c)) /\ toWrapper' = toWrapper
        BY <1>1, <3>2 DEF CallRenderer
      <4> QED BY <1>0, <4>1, NoReplyIsMessage, AppendProperties
    <3> QED BY <3>1, <3>2
  <2>3. request' \in [Calls -> Asked \cup {Null}] /\ pending' \subseteq Calls
        /\ lost' \subseteq Calls /\ blocked' \in Calls \cup {Null} /\ refs' \in Int
    BY <1>1, <2>1 DEF CallRenderer
  <2> QED BY <1>1, <2>2, <2>3 DEF CallRenderer, wrapper
<1>2. CASE Release
  <2>1. held' = FALSE /\ refs' = refs - 1
    BY <1>2, Zenon DEF Release
  <2>2. refs' \in Int
    <3>1. refs \in Int
      OBVIOUS
    <3> QED BY <2>1, <3>1
  <2>4. held' \in BOOLEAN
    BY <2>1
  <2>3. UNCHANGED <<wrapper, gone, toWrapper, toApp, request, pending, blocked, lost, told,
                    misused, unasked, shown, events>>
    BY <1>2 DEF Release
  <2> QED BY <2>2, <2>3, <2>4 DEF wrapper
<1>3. ASSUME NEW c \in Calls, Timeout(c) PROVE TypeInv'
  <2>1. toApp' \in Seq(Message)
    BY <1>0, <1>3, NoReplyIsMessage, AppendProperties DEF Timeout
  <2> QED BY <1>3, <2>1 DEF Timeout, wrapper
<1>4. ASSUME NEW c \in Calls, NEW m, Told(c, m)
      PROVE  pending' \subseteq Calls /\ DOMAIN told' = Calls /\ refs' \in Int /\ misused' \subseteq Calls
  BY <1>4, FreedIs DEF Told
<1>5. CASE DispatchAnswer
  <2>1. toApp' \in Seq(Message)
    BY <1>0, <1>5, Shortened DEF DispatchAnswer
  <2>2. pending' \subseteq Calls /\ DOMAIN told' = Calls /\ refs' \in Int /\ misused' \subseteq Calls
    <3>1. CASE Head(toApp).call \in pending
      BY <1>4, <1>5, <3>1 DEF DispatchAnswer
    <3>2. CASE Head(toApp).call \notin pending
      BY <1>5, <3>2 DEF DispatchAnswer
    <3> QED BY <3>1, <3>2
  <2> QED BY <1>5, <2>1, <2>2 DEF DispatchAnswer, wrapper
<1>6. CASE AssignReturns
  <2>1. PICK k \in DOMAIN toApp : TakesAnswer(k)
    BY <1>0, <1>6, AssignTakes
  <2>2. toApp' \in Seq(Message)
    BY <1>0, <2>1, RemovedMessage DEF TakesAnswer
  <2>3. blocked \in Calls
    BY <2>1 DEF TakesAnswer
  <2>4. pending' \subseteq Calls /\ DOMAIN told' = Calls /\ refs' \in Int /\ misused' \subseteq Calls
    BY <1>4, <2>1, <2>3 DEF TakesAnswer
  <2> QED BY <2>1, <2>2, <2>4 DEF TakesAnswer, wrapper
<1>7. CASE DispatchSignal
  <2>1. toApp' \in Seq(Message) /\ Head(toApp) \in Message
    BY <1>0, <1>7, Shortened DEF DispatchSignal
  <2>2. Head(toApp) \in Signals
    BY <1>7, <2>1, MessageShape DEF DispatchSignal
  <2>3. shown' \in 1 .. Full \cup {Null}
    <3>1. CASE refs > 0 /\ Head(toApp).member = "buffering_info"
      <4>1. Head(toApp).args \in SignalArgs("buffering_info")
            /\ Head(toApp) = mafw_dbus_signal("buffering_info", Head(toApp).args)
        BY <2>2, <3>1, SignalShape
      <4>2. PICK status \in 1 .. Full : Head(toApp).args = <<Basic("d", status)>>
        BY <4>1 DEF SignalArgs
      <4>3. clever_parse_valist(SignalWants(Head(toApp).member), Head(toApp).items).vals[1] = status
        BY <4>1, <4>2, BufferingUnderstood
      <4> QED BY <1>7, <3>1, <4>3 DEF DispatchSignal
    <3>2. CASE refs > 0 /\ Head(toApp).member = "state_changed"
      BY <1>7, <3>2 DEF DispatchSignal
    <3>3. CASE ~(refs > 0 /\ Head(toApp).member \in {"buffering_info", "state_changed"})
      BY <1>7, <3>3 DEF DispatchSignal
    <3> QED BY <3>1, <3>2, <3>3
  <2> QED BY <1>7, <2>1, <2>3 DEF DispatchSignal, wrapper
<1>8. CASE StartWork
  <2>1. toWrapper' \in Seq(CallMessages)
    BY <1>0, <1>8, HeadTailProperties DEF StartWork
  <2>2. Head(toWrapper).call \in Calls
    BY <1>8, HeadOfCalls DEF StartWork
  <2> QED BY <1>8, <2>1, <2>2 DEF StartWork, proxy
<1>9. CASE AssignPlaylist
  <2>1. toWrapper' \in Seq(CallMessages)
    BY <1>0, <1>9, HeadTailProperties DEF AssignPlaylist
  <2>2. Head(toWrapper).call \in Calls
    BY <1>9, HeadOfCalls DEF AssignPlaylist
  <2>3. PICK outcome \in OutcomesOf("assign_playlist") :
          /\ done' = [done EXCEPT ![Head(toWrapper).call] = outcome]
          /\ toApp' = Append(toApp, Answer(Head(toWrapper).call, "assign_playlist", outcome))
    BY <1>9, AssignOutcome
  <2>4. "assign_playlist" \in AllOps
    BY DEF AllOps
  <2>5. outcome \in Outcomes
    BY <2>4 DEF Outcomes
  <2>6. Answer(Head(toWrapper).call, "assign_playlist", outcome) \in Message
    BY <2>2, <2>4, AnswerIsMessage
  <2>7. toApp' \in Seq(Message)
    BY <1>0, <2>3, <2>6, AppendProperties
  <2>8. done' \in [Calls -> Outcomes \cup {Null}]
    BY <2>3, <2>5
  <2> QED BY <1>9, <2>1, <2>7, <2>8 DEF AssignPlaylist, proxy
<1>10. CASE UnknownMethod
  <2>1. toWrapper' \in Seq(CallMessages)
    BY <1>0, <1>10, HeadTailProperties DEF UnknownMethod
  <2>2. Head(toWrapper).call \in Calls
    BY <1>10, HeadOfCalls DEF UnknownMethod
  <2>3. toApp' \in Seq(Message)
    BY <1>0, <1>10, <2>2, NoReplyIsMessage, AppendProperties DEF UnknownMethod
  <2>4. lost' \subseteq Calls
    BY <1>10, <2>2 DEF UnknownMethod
  <2> QED BY <1>10, <2>1, <2>3, <2>4 DEF UnknownMethod, wrapper
<1>11. ASSUME NEW c \in Calls, Complete(c) PROVE TypeInv'
  <2>1. PICK outcome \in OutcomesOf(request[c].op) :
          /\ done' = [done EXCEPT ![c] = outcome]
          /\ toApp' = Append(toApp, Answer(c, request[c].op, outcome))
    BY <1>11, CompleteOutcome
  <2>2. request[c] # Null
    BY <1>11 DEF Complete, Work, Undone
  <2>3. request[c].op \in AllOps
    BY <2>2, RequestedOp
  <2>4. outcome \in Outcomes
    BY <2>3 DEF Outcomes
  <2>5. Answer(c, request[c].op, outcome) \in Message
    BY <2>3, AnswerIsMessage
  <2>6. toApp' \in Seq(Message)
    BY <1>0, <2>1, <2>5, AppendProperties
  <2>7. done' \in [Calls -> Outcomes \cup {Null}]
    BY <2>1, <2>4
  <2> QED BY <1>11, <2>6, <2>7 DEF Complete, proxy
<1>12. ASSUME NEW status \in 1 .. Full, buffering_info(status) PROVE TypeInv'
  <2>1. toApp' \in Seq(Message) /\ timer' \in BOOLEAN
    <3>1. toApp' = Append(toApp, Buffering(status)) \/ toApp' = toApp
      BY <1>12 DEF buffering_info, emit_buffering_info, Emit, Buffering
    <3>2. Append(toApp, Buffering(status)) \in Seq(Message)
      BY <1>0, BufferingShape, AppendProperties
    <3> QED BY <1>12, <3>1, <3>2 DEF buffering_info
  <2>2. status \in 0 .. Full
    BY <1>0
  <2> QED BY <1>12, <2>1, <2>2 DEF buffering_info, proxy
<1>13. CASE state_changed
  <2>1. toApp' \in Seq(Message)
    <3>1. toApp' = Append(toApp, StateChanged)
      BY <1>13 DEF state_changed, Emit, StateChanged
    <3> QED BY <1>0, <3>1, StateChangedShape, AppendProperties
  <2>2. last_state' \in 0 .. Full
    BY <1>0, <1>13 DEF state_changed, remove_buffering_tout
  <2> QED BY <1>13, <2>1, <2>2 DEF state_changed, remove_buffering_tout, proxy
<1>14. CASE Forwards
  <2>1. PICK m \in Forwarded : toApp' = Append(toApp, m)
    BY <1>14, ForwardsSend
  <2>2. m \in Message
    BY DEF Forwarded, Message
  <2>3. toApp' \in Seq(Message)
    BY <1>0, <2>1, <2>2, AppendProperties
  <2>4. UNCHANGED <<wrapper, gone, toWrapper, proxy>>
    BY <1>14, ForwardsSend
  <2> QED BY <2>3, <2>4 DEF wrapper, proxy
<1>15. CASE Unexport
  <2>1. last_state' \in 0 .. Full
    BY <1>0, <1>15 DEF Unexport, remove_buffering_tout
  <2> QED BY <1>15, <2>1 DEF Unexport, remove_buffering_tout, proxy
<1>16. CASE Crash
  <2>1. PICK s \in Seq(Message) : toApp' = toApp \o s
    BY <1>16, CrashAnswers
  <2>2. toApp' \in Seq(Message)
    BY <1>0, <2>1, ConcatProperties
  <2>3. lost' \subseteq Calls /\ toWrapper' \in Seq(CallMessages)
    BY <1>16 DEF Crash
  <2> QED BY <1>16, <2>2, <2>3 DEF Crash
<1>17. ASSUME NEW p \in Playlists, Destroy(p) PROVE TypeInv'
  BY <1>17 DEF Destroy, wrapper, proxy
<1>18. CASE UNCHANGED vars
  BY <1>18 DEF vars, wrapper, proxy
<1>19. CASE emit_buffering_info_tout
  <2>1. CASE last_state \in 1 .. Full
    <3>1. toApp' = Append(toApp, Buffering(last_state))
      BY <1>19 DEF emit_buffering_info_tout, emit_buffering_info, Emit, Buffering
    <3>2. toApp' \in Seq(Message)
      BY <1>0, <2>1, <3>1, BufferingShape, AppendProperties
    <3> QED BY <1>19, <3>2 DEF emit_buffering_info_tout, proxy
  <2>2. CASE last_state = 0
    BY <1>19, <2>2 DEF Work, emit_buffering_info_tout
  <2> QED BY <1>0, <2>1, <2>2
<1> QED BY <1>1, <1>2, <1>3, <1>5, <1>6, <1>7, <1>8, <1>9, <1>10, <1>11, <1>12, <1>13, <1>14,
           <1>15, <1>16, <1>17, <1>18, <1>19, RequestIsCall DEF Next, Forwards

-----------------------------------------------------------------------------
(* The books are kept *)

Waiting == {c \in pending : Waits(c)}

\* The calls with a reference are finitely many, and one fewer when one is told.
LEMMA WaitingFinite ==
  ASSUME pending \subseteq Calls
  PROVE  /\ IsFiniteSet(Waiting) /\ Cardinality(Waiting) \in Nat
         /\ \A c \in Waiting :
              Cardinality(Waiting) > 0 /\ Cardinality(Waiting \ {c}) = Cardinality(Waiting) - 1
<1>1. IsFiniteSet(Waiting)
  BY FS_Subset, InstanceAssumption DEF Waiting
<1>2. Cardinality(Waiting) \in Nat
  BY <1>1, FS_CardinalityType
<1>3. ASSUME NEW c \in Waiting
      PROVE  Cardinality(Waiting) > 0 /\ Cardinality(Waiting \ {c}) = Cardinality(Waiting) - 1
  <2>1. Cardinality(Waiting \ {c}) = Cardinality(Waiting) - 1
    BY <1>1, FS_RemoveElement
  <2>2. Cardinality(Waiting \ {c}) \in Nat
    BY <1>1, FS_RemoveElement, FS_CardinalityType
  <2> QED BY <1>2, <2>1, <2>2
<1> QED BY <1>1, <1>2, <1>3

\* The books when an answer is told, when a call is made, and when neither happens.
LEMMA ToldBooks ==
  ASSUME NullIsNoRecord, TypeInv, Books, NEW c \in pending, NEW m, Told(c, m),
         UNCHANGED <<request, held, lost>>, blocked' = Null, blocked \in {Null, c}
  PROVE  Books'
<1>1. Null \notin Calls /\ pending \subseteq Calls /\ c \in Calls
  BY InstanceAssumption DEF TypeInv
<1>2. PICK found \in Lookups(request[c].op, m) :
        /\ told' = [told EXCEPT ![c] = Outcome(request[c].op, m, found.playlist)]
        /\ unasked' = IF found.error = Null THEN unasked ELSE unasked \cup {c}
        /\ Outcome(request[c].op, m, found.playlist) # Null
  BY OutcomeShape DEF Told
<1>3. pending' = {d \in Calls : request'[d] # Null /\ told'[d] = Null}
  BY <1>1, <1>2 DEF Told, Books, TypeInv
<1>4. \A d \in pending' : request'[d].op # "assign_playlist"
  BY <1>1 DEF Told, Books
<1>5. Waiting' = Waiting \ {c}
  BY DEF Waiting, Waits, Told
<1>6. refs = (IF held THEN 1 ELSE 0) + Cardinality(Waiting)
  BY DEF Books, Waiting
<1>7. refs' = (IF held' THEN 1 ELSE 0) + Cardinality(Waiting')
  <2>1. CASE Waits(c)
    <3>1. refs' = refs - 1
      BY <2>1 DEF Told, Freed, Waits
    <3>2. Cardinality(Waiting') = Cardinality(Waiting) - 1 /\ Cardinality(Waiting) \in Nat
      BY <1>1, <1>5, <2>1, WaitingFinite DEF Waiting
    <3>3. CASE held
      BY <1>6, <3>1, <3>2, <3>3
    <3>4. CASE ~held
      BY <1>6, <3>1, <3>2, <3>4
    <3> QED BY <3>3, <3>4
  <2>2. CASE ~Waits(c)
    <3>1. refs' = refs - 0
      BY <2>2 DEF Told, Freed, Waits
    <3>2. Waiting' = Waiting
      BY <1>5, <2>2 DEF Waiting
    <3>3. Cardinality(Waiting) \in Nat
      BY <1>1, WaitingFinite
    <3>4. CASE held
      BY <1>6, <3>1, <3>2, <3>3, <3>4
    <3>5. CASE ~held
      BY <1>6, <3>1, <3>2, <3>3, <3>5
    <3> QED BY <3>4, <3>5
  <2> QED BY <2>1, <2>2
<1>8. \A d \in misused' : request'[d] # Null /\ request'[d].op = "get_extension_property"
  <2>1. CASE refs = 0
    <3>1. ~held /\ Cardinality(Waiting) = 0
      <4>1. Cardinality(Waiting) \in Nat
        BY <1>1, WaitingFinite
      <4>2. CASE held
        BY <1>6, <2>1, <4>1, <4>2
      <4>3. CASE ~held
        BY <1>6, <2>1, <4>1, <4>3
      <4> QED BY <4>2, <4>3
    <3>2. c \notin Waiting
      BY <1>1, <3>1, WaitingFinite
    <3>3. request[c].op \in {"assign_playlist", "get_extension_property"}
      BY <3>2 DEF Waiting, Waits, Referenced
    <3>4. request[c].op # "assign_playlist" /\ request[c] # Null
      BY <3>1 DEF Books
    <3> QED BY <3>3, <3>4 DEF Told, Books
  <2>2. CASE refs # 0
    BY <2>2 DEF Told, Books
  <2> QED BY <2>1, <2>2
<1>9. lost' \subseteq {d \in Calls : request'[d] # Null}
  BY DEF Books
<1>10. \A d \in unasked' :
         d \in Calls /\ request'[d] # Null /\ told'[d] # Null /\ request'[d].op = "get_status"
  <2>1. request[c] # Null
    BY DEF Books
  <2>2. found.error # Null => request[c].op = "get_status"
    BY DEF Lookups, Lookup
  <2>3. \A d \in unasked : d # c => told'[d] # Null
    BY <1>2 DEF Books, TypeInv
  <2>4. told'[c] # Null
    BY <1>1, <1>2 DEF TypeInv
  <2> QED BY <1>1, <1>2, <2>1, <2>2, <2>3, <2>4 DEF Books
<1> QED BY <1>3, <1>4, <1>7, <1>8, <1>9, <1>10 DEF Books, Waiting, Waits

LEMMA CallBooks ==
  ASSUME NullIsNoRecord, TypeInv, Work, Books,
         NEW c \in Calls, NEW op \in AllOps, NEW args \in RequestArgs(op),
         CallRenderer(c, op, args)
  PROVE  Books'
<1>1. Null \notin Calls /\ pending \subseteq Calls
  BY InstanceAssumption DEF TypeInv
<1>2. /\ request[c] = Null /\ told[c] = Null /\ c \notin pending /\ blocked = Null /\ held
      /\ UNCHANGED <<told, held, misused, unasked>>
  BY DEF CallRenderer, Books, Work
<1>3. /\ request'[c] = [op |-> op, args |-> args] /\ request'[c] # Null /\ request'[c].op = op
      /\ \A d \in Calls : d # c => request'[d] = request[d]
  BY DEF CallRenderer, TypeInv, NullIsNoRecord
<1>4. pending' = pending \cup {c}
  BY DEF CallRenderer
<1>5. pending' = {d \in Calls : request'[d] # Null /\ told'[d] = Null}
  BY <1>2, <1>3, <1>4 DEF Books
<1>6. lost' \subseteq {d \in Calls : request'[d] # Null}
  BY <1>2, <1>3 DEF Books, CallRenderer
<1>7. blocked' = IF op = "assign_playlist" THEN c ELSE Null
  BY DEF CallRenderer
<1>8. \A d \in pending' : request'[d].op = "assign_playlist" => blocked' = d /\ held'
  BY <1>1, <1>2, <1>3, <1>4, <1>7 DEF Books
<1>9. \A d \in misused' : request'[d] # Null /\ request'[d].op = "get_extension_property"
  BY <1>2, <1>3 DEF Books, TypeInv
<1>10. Cardinality(Waiting) \in Nat /\ IsFiniteSet(Waiting) /\ c \notin Waiting
  BY <1>1, <1>2, WaitingFinite DEF Waiting
<1>11. refs = 1 + Cardinality(Waiting)
  BY <1>2 DEF Books, Waiting
<1>12. refs' = 1 + Cardinality(Waiting')
  <2>1. CASE Referenced(op)
    <3>1. Waiting' = Waiting \cup {c}
      BY <1>1, <1>3, <1>4, <2>1 DEF Waiting, Waits
    <3>2. Cardinality(Waiting') = Cardinality(Waiting) + 1
      BY <1>10, <3>1, FS_AddElement
    <3>3. refs' = refs + 1
      BY <2>1 DEF CallRenderer
    <3> QED BY <1>10, <1>11, <3>2, <3>3
  <2>2. CASE ~Referenced(op)
    <3>1. Waiting' = Waiting
      BY <1>1, <1>2, <1>3, <1>4, <2>2 DEF Waiting, Waits
    <3>2. refs' = refs
      BY <2>2 DEF CallRenderer
    <3> QED BY <1>11, <3>1, <3>2
  <2> QED BY <2>1, <2>2
<1>13. \A d \in unasked' :
         d \in Calls /\ request'[d] # Null /\ told'[d] # Null /\ request'[d].op = "get_status"
  BY <1>2, <1>3 DEF Books
<1> QED BY <1>2, <1>4, <1>5, <1>6, <1>7, <1>8, <1>9, <1>12, <1>13 DEF Books, Waiting, Waits

LEMMA BooksFrame ==
  ASSUME TypeInv, Books, UNCHANGED <<request, pending, blocked, told, held, refs, misused, unasked>>,
         lost' \subseteq lost \cup {c \in Calls : request[c] # Null}
  PROVE  Books'
<1>1. Waiting' = Waiting
  BY DEF Waiting, Waits
<1> QED BY <1>1 DEF Books, Waiting, Waits

\* The books, at first and with each step.
LEMMA InitBooks == ASSUME Init PROVE Books
<1>1. {c \in pending : Waits(c)} = {}
  BY DEF Init
<1>2. Cardinality({}) = 0
  BY FS_EmptySet
<1> QED BY <1>1, <1>2 DEF Init, Books

LEMMA BooksKept ==
  ASSUME NullIsNoRecord, TypeInv, Work, Books, [Next]_vars
  PROVE  Books'
<1>1. pending \subseteq {c \in Calls : request[c] # Null}
  BY DEF Books
<1>2. CASE Release
  <2>1. /\ held /\ ~held' /\ blocked = Null /\ refs' = refs - 1
        /\ UNCHANGED <<request, pending, blocked, told, lost, misused, unasked>>
    BY <1>2 DEF Release
  <2>2. Waiting' = Waiting
    BY <2>1 DEF Waiting, Waits
  <2>3. refs = 1 + Cardinality(Waiting)
    BY <2>1 DEF Books, Waiting
  <2>4. Cardinality(Waiting) \in Nat
    BY <1>1, WaitingFinite
  <2>5. refs' = 0 + Cardinality(Waiting')
    BY <2>1, <2>2, <2>3, <2>4
  <2>6. \A c \in pending : request[c].op # "assign_playlist"
    <3>1. Null \notin Calls
      BY InstanceAssumption
    <3> QED BY <1>1, <2>1, <3>1 DEF Books
  <2> QED BY <2>1, <2>5, <2>6 DEF Books, Waiting, Waits
<1>3. ASSUME NEW c \in Calls, Timeout(c) PROVE Books'
  <2>1. /\ UNCHANGED <<request, pending, blocked, told, held, refs, misused, unasked>>
        /\ lost' \subseteq lost \cup {d \in Calls : request[d] # Null}
    BY <1>1, <1>3 DEF Timeout
  <2> QED BY <2>1, BooksFrame
<1>4. CASE DispatchAnswer
  <2>1. /\ blocked = Null /\ UNCHANGED <<request, blocked, lost, held>>
    BY <1>4 DEF DispatchAnswer
  <2>2. CASE Head(toApp).call \in pending
    <3>1. Told(Head(toApp).call, Head(toApp))
      BY <1>4, <2>2 DEF DispatchAnswer
    <3> QED BY <2>1, <2>2, <3>1, ToldBooks
  <2>3. CASE Head(toApp).call \notin pending
    <3>1. UNCHANGED <<told, pending, refs, misused, unasked>>
      BY <1>4, <2>3 DEF DispatchAnswer
    <3> QED BY <2>1, <3>1, BooksFrame
  <2> QED BY <2>2, <2>3
<1>5. CASE AssignReturns
  <2>1. PICK k \in DOMAIN toApp : TakesAnswer(k)
    BY <1>5, AssignTakes DEF TypeInv
  <2>2. /\ blocked \in pending /\ Told(blocked, toApp[k]) /\ blocked' = Null
        /\ UNCHANGED <<request, held, lost>>
    BY <2>1 DEF TakesAnswer, Books
  <2> QED BY <2>2, ToldBooks
<1>6. CASE DispatchSignal
  BY <1>6, BooksFrame DEF DispatchSignal
<1>7. CASE StartWork \/ AssignPlaylist
  BY <1>7, BooksFrame DEF StartWork, AssignPlaylist, proxy
<1>8. CASE UnknownMethod
  <2>1. /\ UNCHANGED <<request, pending, blocked, told, held, refs, misused, unasked>>
        /\ lost' \subseteq lost \cup {d \in Calls : request[d] # Null}
    BY <1>1, <1>8 DEF UnknownMethod
  <2> QED BY <2>1, BooksFrame
<1>9. ASSUME NEW c \in Calls, Complete(c) PROVE Books'
  BY <1>9, BooksFrame DEF Complete, proxy
<1>10. ASSUME NEW status \in 1 .. Full, buffering_info(status) PROVE Books'
  BY <1>10, BooksFrame DEF buffering_info, proxy
<1>11. CASE emit_buffering_info_tout \/ state_changed \/ Unexport
  BY <1>11, BooksFrame DEF emit_buffering_info_tout, state_changed, Unexport, proxy
<1>12. CASE Forwards
  BY <1>12, ForwardsSend, BooksFrame DEF proxy
<1>13. CASE Crash
  <2>1. /\ UNCHANGED <<request, pending, blocked, told, held, refs, misused, unasked>>
        /\ lost' \subseteq lost \cup {d \in Calls : request[d] # Null}
    BY <1>1, <1>13 DEF Crash
  <2> QED BY <2>1, BooksFrame
<1>14. ASSUME NEW p \in Playlists, Destroy(p) PROVE Books'
  BY <1>14, BooksFrame DEF Destroy, proxy
<1>15. CASE UNCHANGED vars
  BY <1>15, BooksFrame DEF vars, proxy
<1>16. ASSUME NEW c \in Calls, Request(c) PROVE Books'
  BY <1>16, RequestIsCall, CallBooks
<1> QED BY <1>2, <1>3, <1>4, <1>5, <1>6, <1>7, <1>8, <1>9, <1>10, <1>11, <1>12, <1>13, <1>14,
           <1>15, <1>16 DEF Next, Forwards

-----------------------------------------------------------------------------
(* The work is kept *)

\* The work, at first, and when neither the renderer nor the queue to it is involved.
LEMMA InitWork == ASSUME Init PROVE Work
BY DEF Init, Work, Range

LEMMA WorkFrame ==
  ASSUME Work, UNCHANGED <<request, done, toWrapper>>, working' \subseteq working,
         \A c \in Calls : request[c] = Null => told'[c] = told[c],
         timer' => service' = "exported" /\ last_state' # 0 /\ reported' = last_state'
  PROVE  Work'
BY DEF Work, Fresh, Undone

\* A call leaves the head of the queue; it may be worked on or done then.
LEMMA HeadLeaves ==
  ASSUME TypeInv, Work, toWrapper # <<>>, toWrapper' = Tail(toWrapper),
         NEW c, c = Head(toWrapper).call,
         UNCHANGED <<request, service, timer, last_state, reported, told>>,
         \A d \in Calls : d # c => done'[d] = done[d],
         \/ done'[c] = done[c] /\ working' \subseteq working \cup {c}
              /\ Head(toWrapper).op # "assign_playlist"
         \/ done'[c] = done[c] /\ working' = working
         \/ done'[c] \in OutcomesOf(request[c].op) /\ working' = working
  PROVE  Work'
<1>1. toWrapper \in Seq(CallMessages)
  BY DEF TypeInv
<1>2. /\ c \in Calls /\ 1 \in DOMAIN toWrapper /\ toWrapper[1].call = c
      /\ Head(toWrapper) = toWrapper[1]
  BY HeadOfCalls
<1>3. \A k \in DOMAIN toWrapper' :
        k + 1 \in DOMAIN toWrapper /\ k \in Nat /\ toWrapper'[k] = toWrapper[k + 1]
  BY <1>1, Shortened
<1>4. Undone(c) /\ c \notin working /\ Head(toWrapper).op = request[c].op
  <2>1. toWrapper[1] \in Range(toWrapper)
    BY <1>2 DEF Range
  <2> QED BY <1>2, <2>1 DEF Work, Fresh
<1>5. \A k \in DOMAIN toWrapper' : toWrapper'[k].call # c
  <2>1. ASSUME NEW k \in DOMAIN toWrapper', toWrapper'[k].call = c PROVE FALSE
    <3>1. k + 1 \in DOMAIN toWrapper /\ toWrapper[k + 1].call = toWrapper[1].call /\ k \in Nat
      BY <1>2, <1>3, <2>1
    <3>2. k + 1 = 1
      BY <1>2, <3>1 DEF Work
    <3>3. k \in DOMAIN toWrapper' => k # 0
      <4>1. toWrapper' \in Seq(CallMessages)
        BY <1>1, Shortened
      <4> QED BY <4>1
    <3> QED BY <3>1, <3>2, <3>3, <2>1
  <2> QED BY <2>1
<1>6. \A k \in DOMAIN toWrapper' : toWrapper'[k].call \in Calls
  <2>1. \A k \in DOMAIN toWrapper' : toWrapper'[k] \in CallMessages
    BY <1>1, Shortened
  <2> QED BY <2>1, CallShape
<1>7. ASSUME NEW m \in Range(toWrapper') PROVE Fresh(m)'
  <2>1. PICK k \in DOMAIN toWrapper' : m = toWrapper'[k]
    BY DEF Range
  <2>2. m \in Range(toWrapper)
    BY <1>3, <2>1 DEF Range
  <2>3. Fresh(m)
    BY <2>2 DEF Work
  <2>4. m.call # c /\ m.call \in Calls
    BY <1>5, <1>6, <2>1
  <2>5. m.call \notin working'
    BY <2>3, <2>4 DEF Fresh
  <2> QED BY <2>3, <2>4, <2>5 DEF Fresh, Undone
<1>8. \A j, k \in DOMAIN toWrapper' : toWrapper'[j].call = toWrapper'[k].call => j = k
  <2>1. ASSUME NEW j \in DOMAIN toWrapper', NEW k \in DOMAIN toWrapper',
               toWrapper'[j].call = toWrapper'[k].call
        PROVE  j = k
    <3>1. /\ j + 1 \in DOMAIN toWrapper /\ k + 1 \in DOMAIN toWrapper /\ j \in Nat /\ k \in Nat
          /\ toWrapper[j + 1].call = toWrapper[k + 1].call
      BY <1>3, <2>1
    <3>2. j + 1 = k + 1
      BY <3>1 DEF Work
    <3> QED BY <3>1, <3>2
  <2> QED BY <2>1
<1>9. \A d \in working' : Undone(d)' /\ request'[d].op # "assign_playlist"
  <2>1. \A d \in working : d \in Calls /\ d # c /\ Undone(d) /\ request[d].op # "assign_playlist"
    BY <1>4 DEF Work, TypeInv
  <2>2. \A d \in working : Undone(d)' /\ request'[d].op # "assign_playlist"
    BY <2>1 DEF Undone
  <2>3. \/ working' \subseteq working
        \/ working' \subseteq working \cup {c} /\ done'[c] = done[c]
             /\ request[c].op # "assign_playlist"
    BY <1>4
  <2>4. done'[c] = done[c] => Undone(c)'
    BY <1>4 DEF Undone
  <2> QED BY <2>2, <2>3, <2>4
<1>10. \A d \in Calls : request'[d] = Null => done'[d] = Null /\ told'[d] = Null
  BY <1>4 DEF Work, Undone
<1>11. \A d \in Calls : done'[d] # Null => done'[d] \in OutcomesOf(request'[d].op)
  BY <1>4 DEF Work, Undone
<1>12. timer' => service' = "exported" /\ last_state' # 0 /\ reported' = last_state'
  BY DEF Work
<1> QED BY <1>7, <1>8, <1>9, <1>10, <1>11, <1>12 DEF Work

\* The work when a call is made, and when the renderer calls back.
LEMMA CallWork ==
  ASSUME NullIsNoRecord, TypeInv, Work,
         NEW c \in Calls, NEW op \in AllOps, NEW args \in RequestArgs(op),
         CallRenderer(c, op, args)
  PROVE  Work'
<1>1. /\ request[c] = Null /\ done[c] = Null /\ told[c] = Null
      /\ UNCHANGED <<service, working, done, timer, last_state, reported, told>>
  BY DEF CallRenderer, Work, wrapper
<1>2. /\ request'[c] = [op |-> op, args |-> args] /\ request'[c] # Null
      /\ request'[c].op = op /\ request'[c].args = args
      /\ \A d \in Calls : d # c => request'[d] = request[d]
  BY DEF CallRenderer, TypeInv, NullIsNoRecord
<1>3. ASSUME NEW m \in Range(toWrapper) PROVE m.call \in Calls /\ m.call # c /\ Fresh(m)'
  <2>1. Fresh(m) /\ m.call # c
    BY <1>1 DEF Work, Fresh, Undone
  <2>2. m \in CallMessages
    BY DEF TypeInv, Range
  <2>3. m.call \in Calls
    BY <2>2, CallShape
  <2> QED BY <1>1, <1>2, <2>1, <2>3 DEF Fresh, Undone
<1>5. \A d \in working' : Undone(d)' /\ request'[d].op # "assign_playlist"
  BY <1>1, <1>2 DEF Work, Undone, TypeInv
<1>6. c \notin working
  BY <1>1 DEF Work, Undone
<1>7. /\ \A m \in Range(toWrapper') : Fresh(m)'
      /\ \A j, k \in DOMAIN toWrapper' : toWrapper'[j].call = toWrapper'[k].call => j = k
  <2>1. CASE service = "exported"
    <3> DEFINE x == Call(c, op, args)
               n == Len(toWrapper) + 1
    <3>1. toWrapper' = Append(toWrapper, x) /\ x \in CallMessages
      BY <2>1, CallIsMessage DEF CallRenderer
    <3>2. toWrapper \in Seq(CallMessages)
      BY DEF TypeInv
    <3>3. x.call = c /\ x.op = op /\ x.args = args
      BY DEF Call
    <3> HIDE DEF x
    <3>4. /\ toWrapper'[n] = x /\ Len(toWrapper) \in Nat /\ DOMAIN toWrapper = 1 .. Len(toWrapper)
          /\ \A k \in DOMAIN toWrapper : toWrapper'[k] = toWrapper[k]
          /\ \A k \in DOMAIN toWrapper' : k \in DOMAIN toWrapper \/ k = n
      BY <3>1, <3>2, Appended
    <3> HIDE DEF n
    <3>5. Fresh(x)'
      BY <1>1, <1>2, <1>6, <3>3 DEF Fresh, Undone
    <3>6. \A k \in DOMAIN toWrapper : toWrapper'[k].call # c
      BY <1>3, <3>4 DEF Range
    <3>7. \A j, k \in DOMAIN toWrapper : toWrapper'[j].call = toWrapper'[k].call => j = k
      BY <3>4 DEF Work
    <3>8. \A j, k \in DOMAIN toWrapper' : toWrapper'[j].call = toWrapper'[k].call => j = k
      BY <3>3, <3>4, <3>6, <3>7
    <3>9. \A m \in Range(toWrapper') : m = x \/ m \in Range(toWrapper)
      BY <3>4 DEF Range
    <3> QED BY <1>3, <3>5, <3>8, <3>9
  <2>2. CASE service # "exported"
    <3>1. toWrapper' = toWrapper
      BY <2>2 DEF CallRenderer
    <3> QED BY <1>3, <3>1 DEF Work
  <2> QED BY <2>1, <2>2
<1>8. \A d \in Calls : request'[d] = Null => done'[d] = Null /\ told'[d] = Null
  BY <1>1, <1>2 DEF Work
<1>9. \A d \in Calls : done'[d] # Null => done'[d] \in OutcomesOf(request'[d].op)
  BY <1>1, <1>2 DEF Work
<1>10. timer' => service' = "exported" /\ last_state' # 0 /\ reported' = last_state'
  BY <1>1 DEF Work
<1> QED BY <1>5, <1>7, <1>8, <1>9, <1>10 DEF Work

LEMMA CompleteWork ==
  ASSUME TypeInv, Work, NEW c \in Calls, Complete(c)
  PROVE  Work'
<1>1. PICK outcome \in OutcomesOf(request[c].op) : done' = [done EXCEPT ![c] = outcome]
  BY CompleteOutcome
<1>2. /\ c \in working /\ working' = working \ {c}
      /\ UNCHANGED <<request, toWrapper, told, service, timer, last_state, reported>>
  BY DEF Complete, proxy
<1>3. Undone(c)
  BY <1>2 DEF Work
<1>4. done'[c] = outcome /\ \A d \in Calls : d # c => done'[d] = done[d]
  BY <1>1 DEF TypeInv
<1>5. ASSUME NEW m \in Range(toWrapper') PROVE Fresh(m)'
  <2>1. Fresh(m) /\ m.call # c
    BY <1>2 DEF Work, Fresh
  <2>2. m.call \in Calls
    <3>1. m \in CallMessages
      BY <1>2 DEF TypeInv, Range
    <3> QED BY <3>1, CallShape
  <2> QED BY <1>2, <1>4, <2>1, <2>2 DEF Fresh, Undone
<1>6. \A d \in working' : Undone(d)' /\ request'[d].op # "assign_playlist"
  BY <1>2, <1>4 DEF Work, Undone, TypeInv
<1>7. \A d \in Calls : request'[d] = Null => done'[d] = Null /\ told'[d] = Null
  BY <1>2, <1>3, <1>4 DEF Work, Undone
<1>8. \A d \in Calls : done'[d] # Null => done'[d] \in OutcomesOf(request'[d].op)
  BY <1>2, <1>4 DEF Work
<1>9. \A j, k \in DOMAIN toWrapper' : toWrapper'[j].call = toWrapper'[k].call => j = k
  BY <1>2 DEF Work
<1>10. timer' => service' = "exported" /\ last_state' # 0 /\ reported' = last_state'
  BY <1>2 DEF Work
<1> QED BY <1>5, <1>6, <1>7, <1>8, <1>9, <1>10 DEF Work

\* The work with each step.
LEMMA WorkKept ==
  ASSUME NullIsNoRecord, TypeInv, Books, Work, [Next]_vars
  PROVE  Work'
<1>1. \A c \in pending : c \in Calls /\ request[c] # Null
  BY DEF Books
<1>2. ASSUME NEW c \in Calls, Request(c) PROVE Work'
  BY <1>2, RequestIsCall, CallWork
<1>3. ASSUME NEW c \in pending, NEW m, Told(c, m)
      PROVE  \A d \in Calls : request[d] = Null => told'[d] = told[d]
  BY <1>1, <1>3 DEF Told
<1>4. CASE Release \/ DispatchSignal \/ \E c \in Calls : Timeout(c)
  BY <1>4, WorkFrame DEF Release, DispatchSignal, Timeout, wrapper, Work
<1>5. CASE DispatchAnswer
  <2>1. \A d \in Calls : request[d] = Null => told'[d] = told[d]
    BY <1>3, <1>5 DEF DispatchAnswer
  <2> QED BY <1>5, <2>1, WorkFrame DEF DispatchAnswer, wrapper, Work
<1>6. CASE AssignReturns
  <2>1. PICK k \in DOMAIN toApp : TakesAnswer(k)
    BY <1>6, AssignTakes DEF TypeInv
  <2>2. blocked \in pending /\ Told(blocked, toApp[k])
    BY <2>1 DEF TakesAnswer, Books
  <2>3. \A d \in Calls : request[d] = Null => told'[d] = told[d]
    BY <1>3, <2>2
  <2> QED BY <2>1, <2>3, WorkFrame DEF TakesAnswer, wrapper, Work
<1>7. CASE StartWork
  <2>1. /\ toWrapper # <<>> /\ toWrapper' = Tail(toWrapper)
        /\ working' \subseteq working \cup {Head(toWrapper).call}
        /\ Head(toWrapper).op # "assign_playlist"
        /\ UNCHANGED <<request, done, service, timer, last_state, reported, told>>
    BY <1>7 DEF StartWork, proxy
  <2> QED BY <2>1, HeadLeaves
<1>8. CASE AssignPlaylist
  <2>1. /\ toWrapper # <<>> /\ toWrapper' = Tail(toWrapper) /\ working' = working
        /\ UNCHANGED <<request, service, timer, last_state, reported, told>>
    BY <1>8 DEF AssignPlaylist, proxy
  <2>2. PICK outcome \in OutcomesOf("assign_playlist") :
          done' = [done EXCEPT ![Head(toWrapper).call] = outcome]
    BY <1>8, AssignOutcome
  <2>3. /\ Head(toWrapper).call \in Calls /\ Head(toWrapper) \in Range(toWrapper)
    BY <2>1, HeadOfCalls DEF Range
  <2>4. request[Head(toWrapper).call].op = "assign_playlist"
    BY <1>8, <2>3 DEF Work, Fresh, AssignPlaylist
  <2>5. /\ done'[Head(toWrapper).call] \in OutcomesOf(request[Head(toWrapper).call].op)
        /\ \A d \in Calls : d # Head(toWrapper).call => done'[d] = done[d]
    BY <2>2, <2>3, <2>4 DEF TypeInv
  <2> QED BY <2>1, <2>5, HeadLeaves
<1>9. CASE UnknownMethod
  <2>1. /\ toWrapper # <<>> /\ toWrapper' = Tail(toWrapper) /\ working' = working
        /\ UNCHANGED <<request, done, service, timer, last_state, reported, told>>
    BY <1>9 DEF UnknownMethod, wrapper
  <2> QED BY <2>1, HeadLeaves
<1>10. ASSUME NEW c \in Calls, Complete(c) PROVE Work'
  BY <1>10, CompleteWork
<1>11. ASSUME NEW status \in 1 .. Full, buffering_info(status) PROVE Work'
  <2>1. status # 0
    <3>1. Full \in Nat
      BY InstanceAssumption
    <3> QED BY <3>1
  <2>2. service' = "exported" /\ reported' = status /\ last_state' = status
    BY <1>11 DEF buffering_info
  <2>3. timer' => service' = "exported" /\ last_state' # 0 /\ reported' = last_state'
    BY <2>1, <2>2
  <2> QED BY <1>11, <2>3, WorkFrame DEF buffering_info, proxy
<1>12. CASE emit_buffering_info_tout
  BY <1>12, WorkFrame DEF emit_buffering_info_tout, proxy
<1>13. CASE state_changed
  BY <1>13, WorkFrame DEF state_changed, remove_buffering_tout, proxy
<1>14. CASE Forwards
  <2>1. UNCHANGED <<wrapper, gone, toWrapper, proxy>>
    BY <1>14, ForwardsSend
  <2> QED BY <2>1, WorkFrame DEF wrapper, proxy, Work
<1>15. CASE Unexport
  BY <1>15, WorkFrame DEF Unexport, remove_buffering_tout, proxy
<1>16. CASE Crash
  <2>1. /\ working' = {} /\ timer' = FALSE /\ toWrapper' = <<>>
        /\ UNCHANGED <<done, request, told>>
    BY <1>16 DEF Crash
  <2>2. Range(toWrapper') = {} /\ DOMAIN toWrapper' = {}
    BY <2>1 DEF Range
  <2> QED BY <2>1, <2>2 DEF Work
<1>17. ASSUME NEW p \in Playlists, Destroy(p) PROVE Work'
  BY <1>17, WorkFrame DEF Destroy, wrapper, proxy, Work
<1>18. CASE UNCHANGED vars
  BY <1>18, WorkFrame DEF vars, wrapper, proxy, Work
<1> QED BY <1>2, <1>4, <1>5, <1>6, <1>7, <1>8, <1>9, <1>10, <1>11, <1>12, <1>13, <1>14,
           <1>15, <1>16, <1>17, <1>18 DEF Next, Forwards

-----------------------------------------------------------------------------
(* What no step takes back *)

\* What a step does not take back: what was asked, done, told and lost.
Steady ==
  /\ \A c \in Calls :
       request[c] # Null => request'[c] = request[c] /\ (c \in pending' => c \in pending)
  /\ \A c \in Calls : done[c] # Null => done'[c] = done[c]
  /\ \A c \in Calls : told[c] # Null => told'[c] = told[c]
  /\ lost \subseteq lost' /\ lost' \subseteq lost \cup pending'
  /\ gone \subseteq gone' /\ unasked \subseteq unasked'

\* Telling an answer, sending one, and the other steps take nothing back.
LEMMA ToldSteady ==
  ASSUME TypeInv, Books, NEW c \in pending, NEW m, Told(c, m),
         UNCHANGED <<request, done, lost, gone>>
  PROVE  Steady
<1>1. told[c] = Null /\ \A d \in Calls : d # c => told'[d] = told[d]
  BY DEF Told, Books
<1>2. pending' \subseteq pending /\ unasked \subseteq unasked'
  BY DEF Told
<1> QED BY <1>1, <1>2 DEF Steady

LEMMA SteadyFrame ==
  ASSUME UNCHANGED <<request, done, told, pending, unasked>>,
         lost \subseteq lost', lost' \subseteq lost \cup pending,
         gone \subseteq gone'
  PROVE  Steady
BY DEF Steady

LEMMA DoesOnce ==
  ASSUME TypeInv, Work, NEW c \in Calls, done[c] = Null, NEW o, done' = [done EXCEPT ![c] = o],
         UNCHANGED <<request, told, pending, lost, gone, unasked>>
  PROVE  Steady
BY DEF Steady, TypeInv

LEMMA Steadfast ==
  ASSUME TypeInv, Books, Work, [Next]_vars
  PROVE  Steady
<1>1. ASSUME NEW c \in Calls, Request(c) PROVE Steady
  <2>1. PICK op \in AllOps : \E args \in RequestArgs(op) : CallRenderer(c, op, args)
    BY <1>1, RequestIsCall
  <2>2. PICK args \in RequestArgs(op) : CallRenderer(c, op, args)
    BY <2>1
  <2>3. /\ request[c] = Null /\ pending' = pending \cup {c}
        /\ \A d \in Calls : d # c => request'[d] = request[d]
        /\ lost' \in {lost, lost \cup {c}}
        /\ UNCHANGED <<done, gone, told, unasked>>
    BY <2>2 DEF CallRenderer, wrapper
  <2> QED BY <2>3 DEF Steady
<1>2. CASE \/ Release \/ DispatchSignal \/ StartWork
           \/ emit_buffering_info_tout \/ state_changed \/ Unexport
  BY <1>2, SteadyFrame DEF Release, DispatchSignal, StartWork, emit_buffering_info_tout,
     state_changed, Unexport, wrapper, proxy
<1>3. ASSUME NEW c \in Calls, Timeout(c) PROVE Steady
  BY <1>3, SteadyFrame DEF Timeout, wrapper
<1>4. CASE DispatchAnswer
  <2>1. UNCHANGED <<request, done, lost, gone>>
    BY <1>4 DEF DispatchAnswer, wrapper
  <2>2. CASE Head(toApp).call \in pending
    BY <1>4, <2>1, <2>2, ToldSteady DEF DispatchAnswer
  <2>3. CASE Head(toApp).call \notin pending
    BY <1>4, <2>1, <2>3, SteadyFrame DEF DispatchAnswer
  <2> QED BY <2>2, <2>3
<1>5. CASE AssignReturns
  <2>1. PICK k \in DOMAIN toApp : TakesAnswer(k)
    BY <1>5, AssignTakes DEF TypeInv
  <2>2. /\ blocked \in pending /\ Told(blocked, toApp[k]) /\ UNCHANGED <<request, done, lost, gone>>
    BY <2>1 DEF TakesAnswer, Books, wrapper
  <2> QED BY <2>2, ToldSteady
<1>6. CASE AssignPlaylist
  <2>1. toWrapper # <<>> /\ UNCHANGED <<request, told, pending, lost, gone, unasked>>
    BY <1>6 DEF AssignPlaylist, proxy
  <2>2. Head(toWrapper).call \in Calls /\ Head(toWrapper) \in Range(toWrapper)
    BY <2>1, HeadOfCalls DEF Range
  <2>3. done[Head(toWrapper).call] = Null
    BY <2>2 DEF Work, Fresh, Undone
  <2>4. \E o : done' = [done EXCEPT ![Head(toWrapper).call] = o]
    BY <1>6, AssignOutcome
  <2> QED BY <2>1, <2>2, <2>3, <2>4, DoesOnce
<1>7. ASSUME NEW c \in Calls, Complete(c) PROVE Steady
  <2>1. UNCHANGED <<request, told, pending, lost, gone, unasked>> /\ done[c] = Null
    BY <1>7 DEF Complete, proxy, Work, Undone
  <2>2. \E o : done' = [done EXCEPT ![c] = o]
    BY <1>7, CompleteOutcome
  <2> QED BY <2>1, <2>2, DoesOnce
<1>8. CASE UnknownMethod
  BY <1>8, SteadyFrame DEF UnknownMethod, wrapper
<1>9. ASSUME NEW status \in 1 .. Full, buffering_info(status) PROVE Steady
  BY <1>9, SteadyFrame DEF buffering_info, proxy
<1>10. CASE Forwards
  BY <1>10, ForwardsSend, SteadyFrame DEF wrapper, proxy
<1>11. CASE Crash
  <2>1. UNCHANGED <<request, done, told, pending, gone, unasked>>
    BY <1>11 DEF Crash
  <2>2. lost \subseteq lost' /\ lost' \subseteq lost \cup pending
    BY <1>11 DEF Crash
  <2> QED BY <2>1, <2>2, SteadyFrame
<1>12. ASSUME NEW p \in Playlists, Destroy(p) PROVE Steady
  BY <1>12, SteadyFrame DEF Destroy, wrapper, proxy
<1>13. CASE UNCHANGED vars
  BY <1>13, SteadyFrame DEF vars, wrapper, proxy
<1> QED BY <1>1, <1>2, <1>3, <1>4, <1>5, <1>6, <1>7, <1>8, <1>9, <1>10, <1>11, <1>12, <1>13
        DEF Next, Forwards

-----------------------------------------------------------------------------
(* The queue at the application *)

\* The queue at the application gets the messages of N, or gives one up.
Grows(N) ==
  /\ \A k \in DOMAIN toApp : k \in DOMAIN toApp' /\ toApp'[k] = toApp[k]
  /\ \A k \in DOMAIN toApp' :
       k \notin DOMAIN toApp => toApp'[k] \in N /\ \A j \in DOMAIN toApp : j < k
  /\ \A m \in N : \E k \in DOMAIN toApp' : toApp'[k] = m

Loses(k) ==
  /\ k \in DOMAIN toApp
  /\ \A j \in DOMAIN toApp' :
       /\ j < k => j \in DOMAIN toApp /\ toApp'[j] = toApp[j]
       /\ ~(j < k) => j + 1 \in DOMAIN toApp /\ toApp'[j] = toApp[j + 1]
  /\ \A j \in DOMAIN toApp :
       /\ j < k => j \in DOMAIN toApp' /\ toApp'[j] = toApp[j]
       /\ j > k => j - 1 \in DOMAIN toApp' /\ toApp'[j - 1] = toApp[j]

\* The ways in which the queue grows and shrinks.
LEMMA AppendGrows ==
  ASSUME toApp \in Seq(Message), NEW m \in Message, toApp' = Append(toApp, m)
  PROVE  Grows({m}) /\ toApp' \in Seq(Message)
<1>1. /\ toApp' \in Seq(Message)
      /\ \A k \in DOMAIN toApp : k \in DOMAIN toApp' /\ toApp'[k] = toApp[k]
      /\ Len(toApp) + 1 \in DOMAIN toApp' /\ toApp'[Len(toApp) + 1] = m
      /\ \A k \in DOMAIN toApp' : k \in DOMAIN toApp \/ k = Len(toApp) + 1
      /\ Len(toApp) \in Nat /\ DOMAIN toApp = 1 .. Len(toApp)
  BY Appended
<1>2. \A j \in DOMAIN toApp : j < Len(toApp) + 1
  BY <1>1
<1> QED BY <1>1, <1>2 DEF Grows

LEMMA ConcatGrows ==
  ASSUME toApp \in Seq(Message), NEW s \in Seq(Message), toApp' = toApp \o s
  PROVE  Grows(Range(s)) /\ toApp' \in Seq(Message)
<1>1. /\ toApp' \in Seq(Message) /\ Len(toApp') = Len(toApp) + Len(s)
      /\ \A i \in 1 .. Len(toApp) + Len(s) :
           toApp'[i] = IF i <= Len(toApp) THEN toApp[i] ELSE s[i - Len(toApp)]
  BY ConcatProperties
<1>2. /\ Len(toApp) \in Nat /\ Len(s) \in Nat /\ DOMAIN toApp = 1 .. Len(toApp)
      /\ DOMAIN s = 1 .. Len(s)
  OBVIOUS
<1>3. DOMAIN toApp' = 1 .. Len(toApp) + Len(s)
  BY <1>1
<1>4. \A k \in DOMAIN toApp : k \in DOMAIN toApp' /\ toApp'[k] = toApp[k]
  BY <1>1, <1>2, <1>3
<1>5. ASSUME NEW k \in DOMAIN toApp', k \notin DOMAIN toApp
      PROVE  toApp'[k] \in Range(s) /\ \A j \in DOMAIN toApp : j < k
  <2>1. k - Len(toApp) \in DOMAIN s /\ ~(k <= Len(toApp)) /\ \A j \in DOMAIN toApp : j < k
    BY <1>2, <1>3, <1>5
  <2>2. toApp'[k] = s[k - Len(toApp)]
    BY <1>1, <1>3, <2>1
  <2> QED BY <2>1, <2>2 DEF Range
<1>6. ASSUME NEW m \in Range(s) PROVE \E k \in DOMAIN toApp' : toApp'[k] = m
  <2>1. PICK i \in DOMAIN s : m = s[i]
    BY DEF Range
  <2>2. /\ Len(toApp) + i \in DOMAIN toApp' /\ ~(Len(toApp) + i <= Len(toApp))
        /\ (Len(toApp) + i) - Len(toApp) = i
    BY <1>2, <1>3
  <2>3. toApp'[Len(toApp) + i] = s[i]
    BY <1>1, <1>3, <2>2
  <2> QED BY <2>1, <2>2, <2>3
<1> QED BY <1>1, <1>4, <1>5, <1>6 DEF Grows

LEMMA StandsGrows ==
  ASSUME UNCHANGED toApp
  PROVE  Grows({})
BY DEF Grows

LEMMA TailLoses ==
  ASSUME toApp \in Seq(Message), toApp # <<>>, toApp' = Tail(toApp)
  PROVE  Loses(1) /\ toApp[1] = Head(toApp)
<1>1. /\ toApp' \in Seq(Message) /\ Head(toApp) = toApp[1] /\ 1 \in DOMAIN toApp
      /\ \A k \in DOMAIN toApp' : k + 1 \in DOMAIN toApp /\ k \in Nat /\ toApp'[k] = toApp[k + 1]
      /\ \A k \in DOMAIN toApp :
           k # 1 => k - 1 \in DOMAIN toApp' /\ k \in Nat /\ toApp'[k - 1] = toApp[k]
  BY Shortened
<1>2. \A k \in DOMAIN toApp' \cup DOMAIN toApp : ~(k < 1)
  BY <1>1
<1> QED BY <1>1, <1>2 DEF Loses

LEMMA RemoveLoses ==
  ASSUME toApp \in Seq(Message), NEW k \in DOMAIN toApp, toApp' = RemoveAt(toApp, k)
  PROVE  Loses(k)
BY RemovedMessage DEF Loses

\* The D-Bus library's answer is the first that the application will take.
LostAnswer(c) ==
  \E k \in DOMAIN toApp :
    toApp[k] = NoReply(c) /\ \A j \in DOMAIN toApp : Answers(toApp[j], c) => k <= j

\* The answer of the bus stays the first: when messages come, when the call had none
\* before, and when another message is taken.
LEMMA StillLost ==
  ASSUME toApp \in Seq(Message), toApp' \in Seq(Message), NEW N, Grows(N), NEW c, LostAnswer(c)
  PROVE  LostAnswer(c)'
<1>1. PICK k \in DOMAIN toApp :
        toApp[k] = NoReply(c) /\ \A j \in DOMAIN toApp : Answers(toApp[j], c) => k <= j
  BY DEF LostAnswer
<1>2. k \in DOMAIN toApp' /\ toApp'[k] = NoReply(c)
  BY <1>1 DEF Grows
<1>3. ASSUME NEW j \in DOMAIN toApp', Answers(toApp'[j], c) PROVE k <= j
  <2>1. CASE j \in DOMAIN toApp
    BY <1>1, <1>3, <2>1 DEF Grows
  <2>2. CASE j \notin DOMAIN toApp
    <3>1. k < j
      BY <2>2 DEF Grows
    <3>2. k \in Int /\ j \in Int
      OBVIOUS
    <3> QED BY <3>1, <3>2
  <2> QED BY <2>1, <2>2
<1>4. \A j \in DOMAIN toApp' : Answers(toApp'[j], c) => k <= j
  BY <1>3
<1> QED BY <1>2, <1>4 DEF LostAnswer, Answers

LEMMA NowLost ==
  ASSUME toApp' \in Seq(Message), NEW N, Grows(N), NEW c, ~Answered(c), NoReply(c) \in N,
         \A m \in N : Answers(m, c) => m = NoReply(c)
  PROVE  LostAnswer(c)'
<1> DEFINE A == {k \in 1 .. Len(toApp') : Answers(toApp'[k], c)}
<1>1. Len(toApp') \in Nat /\ DOMAIN toApp' = 1 .. Len(toApp')
  OBVIOUS
<1>2. A # {}
  <2>1. PICK k \in DOMAIN toApp' : toApp'[k] = NoReply(c)
    BY DEF Grows
  <2> QED BY <1>1, <2>1, NoReplyShape DEF Answers
<1>3. PICK k \in A : \A j \in A : k <= j
  <2>1. A \in SUBSET (1 .. Len(toApp'))
    OBVIOUS
  <2> HIDE DEF A
  <2> QED BY <1>1, <1>2, <2>1, LeastIndex
<1>4. k \notin DOMAIN toApp
  BY <1>3 DEF Answered, Grows
<1>5. toApp'[k] = NoReply(c)
  BY <1>1, <1>3, <1>4 DEF Grows
<1>6. \A j \in DOMAIN toApp' : Answers(toApp'[j], c) => k <= j
  BY <1>1, <1>3
<1> QED BY <1>1, <1>3, <1>5, <1>6 DEF LostAnswer, Answers

LEMMA LostStays ==
  ASSUME toApp \in Seq(Message), toApp' \in Seq(Message), NEW k, Loses(k), NEW c,
         ~Answers(toApp[k], c), LostAnswer(c)
  PROVE  LostAnswer(c)'
<1>1. PICK i \in DOMAIN toApp :
        toApp[i] = NoReply(c) /\ \A j \in DOMAIN toApp : Answers(toApp[j], c) => i <= j
  BY DEF LostAnswer
<1>2. i # k
  BY <1>1, NoReplyShape DEF Answers
<1>3. \A j \in DOMAIN toApp \cup DOMAIN toApp' : j \in Int
  OBVIOUS
<1>4. k \in Int /\ i \in Int
  BY <1>3 DEF Loses
<1>5. CASE i < k
  <2>1. i \in DOMAIN toApp' /\ toApp'[i] = NoReply(c)
    BY <1>1, <1>5 DEF Loses
  <2>2. ASSUME NEW j \in DOMAIN toApp', Answers(toApp'[j], c) PROVE i <= j
    <3>1. CASE j < k
      BY <1>1, <2>2, <3>1 DEF Loses
    <3>2. CASE ~(j < k)
      BY <1>3, <1>4, <1>5, <3>2
    <3> QED BY <3>1, <3>2
  <2> QED BY <2>1, <2>2 DEF LostAnswer, Answers
<1>6. CASE i > k
  <2>1. i - 1 \in DOMAIN toApp' /\ toApp'[i - 1] = NoReply(c)
    BY <1>1, <1>6 DEF Loses
  <2>2. ASSUME NEW j \in DOMAIN toApp', Answers(toApp'[j], c) PROVE i - 1 <= j
    <3>1. CASE j < k
      <4>1. j \in DOMAIN toApp /\ Answers(toApp[j], c)
        BY <2>2, <3>1 DEF Loses
      <4>2. i <= j
        BY <1>1, <4>1
      <4> QED BY <1>3, <1>4, <4>2
    <3>2. CASE ~(j < k)
      <4>1. j + 1 \in DOMAIN toApp /\ Answers(toApp[j + 1], c)
        BY <2>2, <3>2 DEF Loses
      <4>2. i <= j + 1
        BY <1>1, <4>1
      <4> QED BY <1>3, <1>4, <4>2
    <3> QED BY <3>1, <3>2
  <2> QED BY <2>1, <2>2 DEF LostAnswer, Answers
<1> QED BY <1>2, <1>4, <1>5, <1>6

-----------------------------------------------------------------------------
(* What the messages say *)

\* What a message to the application says is so: a signal, that the bus gave a call up,
\* or what the renderer made of the call.
Meant(m) ==
  \/ m \in Signals
  \/ /\ m.call \in Calls /\ request[m.call] # Null
     /\ \/ m = NoReply(m.call) /\ m.call \notin pending \ lost
        \/ done[m.call] # Null /\ m = Answer(m.call, request[m.call].op, done[m.call])

Mail == \A k \in DOMAIN toApp : Meant(toApp[k])

\* What a message says stays so.
LEMMA MeantStays ==
  ASSUME Steady, NEW m, Meant(m)
  PROVE  Meant(m)'
BY DEF Steady, Meant

\* How a step changes the queue at the application.
Moves ==
  \/ \E N \in SUBSET Message :
       /\ Grows(N) /\ UNCHANGED told /\ \A m \in N : Meant(m)'
       /\ \A c \in lost' \ lost :
            ~Answered(c) /\ NoReply(c) \in N /\ \A m \in N : Answers(m, c) => m = NoReply(c)
  \/ \E k \in DOMAIN toApp :
       /\ Loses(k) /\ UNCHANGED <<request, done, lost, gone>>
       /\ \/ toApp[k].type = "signal" /\ UNCHANGED <<told, pending>>
          \/ toApp[k].type # "signal" /\ toApp[k].call \notin pending /\ UNCHANGED <<told, pending>>
          \/ /\ toApp[k].type # "signal" /\ toApp[k].call \in pending
             /\ FirstAnswer(k, toApp[k].call) /\ Told(toApp[k].call, toApp[k])

\* The ways to send a message, and to send none.
LEMMA SendMoves ==
  ASSUME TypeInv, NEW m \in Message, toApp' = Append(toApp, m), UNCHANGED told, Meant(m)',
         \A c \in lost' \ lost : ~Answered(c) /\ m = NoReply(c)
  PROVE  Moves
<1>1. Grows({m})
  BY AppendGrows DEF TypeInv
<1>2. {m} \in SUBSET Message
  OBVIOUS
<1> QED BY <1>1, <1>2 DEF Moves

LEMMA StandMoves ==
  ASSUME UNCHANGED <<toApp, told, lost>>
  PROVE  Moves
<1>1. Grows({})
  BY StandsGrows
<1> QED BY <1>1 DEF Moves

LEMMA SignalMoves ==
  ASSUME TypeInv, NEW m \in Signals, toApp' = Append(toApp, m), UNCHANGED <<told, lost>>
  PROVE  Moves
<1>1. m \in Message /\ Meant(m)'
  BY DEF Message, Meant
<1> QED BY <1>1, SendMoves

\* The bus answers a call that the renderer has not answered.
LEMMA NoReplyMoves ==
  ASSUME TypeInv, Mail, NEW c \in Calls, toApp' = Append(toApp, NoReply(c)),
         UNCHANGED <<told, done>>,
         request'[c] # Null, c \in pending' => c \in lost', lost' \subseteq lost \cup {c},
         c \in lost' \ lost => ~Answered(c)
  PROVE  Moves
<1>1. NoReply(c) \in Message /\ NoReply(c).call = c
  BY NoReplyIsMessage, NoReplyShape
<1>2. PICK m \in Message : m = NoReply(c)
  BY <1>1
<1>3. Meant(m)'
  BY <1>1, <1>2 DEF Meant
<1> QED BY <1>2, <1>3, SendMoves

\* A call is not answered before it is made, and a call that waits and that is neither
\* given up nor done has no answer.
LEMMA NotAnswered ==
  ASSUME TypeInv, Mail, NEW c \in Calls, request[c] = Null \/ (c \in pending \ lost /\ done[c] = Null)
  PROVE  ~Answered(c)
<1>1. ASSUME NEW k \in DOMAIN toApp, Answers(toApp[k], c) PROVE FALSE
  <2>1. toApp[k] \in Message /\ toApp[k] \notin Signals
    <3>1. toApp[k] \in Message
      BY DEF TypeInv
    <3> QED BY <1>1, <3>1, MessageShape DEF Answers
  <2> QED BY <1>1, <2>1 DEF Mail, Meant, Answers
<1> QED BY <1>1 DEF Answered

\* The renderer's answer to a call.
LEMMA AnswerMoves ==
  ASSUME NullIsNoRecord, TypeInv,
         NEW c \in Calls, NEW op \in AllOps, NEW outcome \in OutcomesOf(op),
         request[c] # Null, op = request[c].op, done' = [done EXCEPT ![c] = outcome],
         toApp' = Append(toApp, Answer(c, op, outcome)), UNCHANGED <<told, lost, request>>
  PROVE  Moves
<1>1. Answer(c, op, outcome) \in Message /\ Answer(c, op, outcome).call = c
  BY AnswerIsMessage, AnswerShape
<1>2. PICK m \in Message : m = Answer(c, op, outcome)
  BY <1>1
<1>3. outcome # Null
  BY DEF OutcomesOf, Success, Failed, NullIsNoRecord
<1>4. done'[c] = outcome
  BY DEF TypeInv
<1>5. Meant(m)'
  BY <1>1, <1>2, <1>3, <1>4 DEF Meant
<1> QED BY <1>2, <1>5, SendMoves

\* Every step changes the queue in one of these ways.
LEMMA StepMoves ==
  ASSUME NullIsNoRecord, TypeInv, Books, Work, Mail, [Next]_vars
  PROVE  Moves
<1>1. toApp \in Seq(Message) /\ pending \subseteq Calls
  BY DEF TypeInv
<1>2. ASSUME NEW c \in Calls, Request(c) PROVE Moves
  <2>1. PICK op \in AllOps : \E args \in RequestArgs(op) : CallRenderer(c, op, args)
    BY <1>2, RequestIsCall
  <2>2. PICK args \in RequestArgs(op) : CallRenderer(c, op, args)
    BY <2>1
  <2>3. CASE service = "exported"
    <3>1. UNCHANGED <<toApp, told, lost>>
      BY <2>2, <2>3 DEF CallRenderer
    <3> QED BY <3>1, StandMoves
  <2>4. CASE service # "exported"
    <3>1. /\ request[c] = Null /\ toApp' = Append(toApp, NoReply(c)) /\ lost' = lost \cup {c}
          /\ UNCHANGED <<told, done>>
      BY <2>2, <2>4 DEF CallRenderer, wrapper
    <3>2. request'[c] # Null
      BY <2>2, <3>1 DEF CallRenderer, TypeInv, NullIsNoRecord
    <3>3. ~Answered(c)
      BY <3>1, NotAnswered
    <3> QED BY <3>1, <3>2, <3>3, NoReplyMoves
  <2> QED BY <2>3, <2>4
<1>3. CASE Release \/ StartWork \/ Unexport
  BY <1>3, StandMoves DEF Release, StartWork, Unexport, proxy
<1>4. ASSUME NEW c \in Calls, Timeout(c) PROVE Moves
  <2>1. /\ c \in pending /\ ~Answered(c) /\ toApp' = Append(toApp, NoReply(c))
        /\ lost' = lost \cup {c} /\ UNCHANGED <<told, done, request>>
    BY <1>4 DEF Timeout, wrapper
  <2>2. request[c] # Null
    BY <2>1 DEF Books
  <2> QED BY <2>1, <2>2, NoReplyMoves
<1>5. CASE DispatchAnswer
  <2>1. /\ toApp # <<>> /\ Head(toApp).type # "signal" /\ toApp' = Tail(toApp)
        /\ UNCHANGED <<request, done, lost, gone>>
    BY <1>5 DEF DispatchAnswer, wrapper
  <2>2. Loses(1) /\ toApp[1] = Head(toApp) /\ 1 \in DOMAIN toApp
    BY <1>1, <2>1, TailLoses DEF Loses
  <2>3. CASE Head(toApp).call \in pending
    <3>1. Told(Head(toApp).call, Head(toApp))
      BY <1>5, <2>3 DEF DispatchAnswer
    <3>2. FirstAnswer(1, Head(toApp).call)
      BY <1>1, <2>1, <2>2 DEF FirstAnswer, Answers
    <3> QED BY <2>1, <2>2, <2>3, <3>1, <3>2 DEF Moves
  <2>4. CASE Head(toApp).call \notin pending
    <3>1. UNCHANGED <<told, pending>>
      BY <1>5, <2>4 DEF DispatchAnswer
    <3> QED BY <2>1, <2>2, <2>4, <3>1 DEF Moves
  <2> QED BY <2>3, <2>4
<1>6. CASE AssignReturns
  <2>1. PICK k \in DOMAIN toApp : TakesAnswer(k)
    BY <1>1, <1>6, AssignTakes
  <2>2. /\ blocked \in pending /\ Told(blocked, toApp[k]) /\ FirstAnswer(k, blocked)
        /\ UNCHANGED <<request, done, lost, gone>> /\ toApp' = RemoveAt(toApp, k)
    BY <2>1 DEF TakesAnswer, Books, wrapper
  <2>3. toApp[k].type # "signal" /\ toApp[k].call = blocked
    BY <2>2 DEF FirstAnswer, Answers
  <2>4. Loses(k)
    BY <1>1, <2>2, RemoveLoses
  <2> QED BY <2>2, <2>3, <2>4 DEF Moves
<1>7. CASE DispatchSignal
  <2>1. /\ toApp # <<>> /\ Head(toApp).type = "signal" /\ toApp' = Tail(toApp)
        /\ UNCHANGED <<request, done, lost, gone, told, pending>>
    BY <1>7 DEF DispatchSignal, wrapper
  <2>2. Loses(1) /\ toApp[1] = Head(toApp) /\ 1 \in DOMAIN toApp
    BY <1>1, <2>1, TailLoses DEF Loses
  <2> QED BY <2>1, <2>2 DEF Moves
<1>8. CASE AssignPlaylist
  <2>1. toWrapper # <<>> /\ UNCHANGED <<told, lost, request>>
    BY <1>8 DEF AssignPlaylist, proxy
  <2>2. PICK c \in Calls : c = Head(toWrapper).call
    BY <2>1, HeadOfCalls
  <2>3. PICK outcome \in OutcomesOf("assign_playlist") :
          /\ done' = [done EXCEPT ![c] = outcome]
          /\ toApp' = Append(toApp, Answer(c, "assign_playlist", outcome))
    BY <1>8, <2>2, AssignOutcome
  <2>4. Head(toWrapper) \in Range(toWrapper)
    BY <2>1, HeadOfCalls DEF Range
  <2>5. request[c] # Null /\ request[c].op = "assign_playlist"
    BY <1>8, <2>2, <2>4 DEF Work, Fresh, Undone, AssignPlaylist
  <2>6. "assign_playlist" \in AllOps
    BY DEF AllOps
  <2> QED BY <2>1, <2>3, <2>5, <2>6, AnswerMoves
<1>9. CASE UnknownMethod
  <2>1. toWrapper # <<>> /\ UNCHANGED <<told, done, request, pending>>
    BY <1>9 DEF UnknownMethod, wrapper
  <2>2. PICK c \in Calls : c = Head(toWrapper).call
    BY <2>1, HeadOfCalls
  <2>3. /\ toApp' = Append(toApp, NoReply(c))
        /\ lost' = IF c \in pending THEN lost \cup {c} ELSE lost
    BY <1>9, <2>2 DEF UnknownMethod
  <2>4. Head(toWrapper) \in Range(toWrapper)
    BY <2>1, HeadOfCalls DEF Range
  <2>5. request[c] # Null /\ done[c] = Null
    BY <2>2, <2>4 DEF Work, Fresh, Undone
  <2>6. c \in lost' \ lost => ~Answered(c)
    <3>1. c \in lost' \ lost => c \in pending \ lost
      BY <2>3
    <3> QED BY <2>5, <3>1, NotAnswered
  <2> QED BY <2>1, <2>3, <2>5, <2>6, NoReplyMoves
<1>10. ASSUME NEW c \in Calls, Complete(c) PROVE Moves
  <2>1. UNCHANGED <<told, lost, request>> /\ request[c] # Null
    BY <1>10 DEF Complete, proxy, Work, Undone
  <2>2. PICK outcome \in OutcomesOf(request[c].op) :
          /\ done' = [done EXCEPT ![c] = outcome]
          /\ toApp' = Append(toApp, Answer(c, request[c].op, outcome))
    BY <1>10, CompleteOutcome
  <2>3. PICK op \in AllOps : op = request[c].op
    BY <2>1, RequestedOp
  <2> QED BY <2>1, <2>2, <2>3, AnswerMoves
<1>11. ASSUME NEW status \in 1 .. Full, buffering_info(status) PROVE Moves
  <2>1. /\ toApp' = toApp \/ toApp' = Append(toApp, Buffering(status))
        /\ UNCHANGED <<told, lost>>
    BY <1>11 DEF buffering_info, emit_buffering_info, Emit, Buffering, proxy
  <2>2. PICK m \in Signals : m = Buffering(status)
    BY BufferingShape
  <2> QED BY <2>1, <2>2, SignalMoves, StandMoves
<1>12. CASE emit_buffering_info_tout
  <2>1. toApp' = Append(toApp, Buffering(last_state)) /\ UNCHANGED <<told, lost>> /\ timer
    BY <1>12 DEF emit_buffering_info_tout, emit_buffering_info, Emit, Buffering, proxy
  <2>2. last_state \in 1 .. Full
    <3>1. last_state # 0 /\ last_state \in 0 .. Full
      BY <2>1 DEF Work, TypeInv
    <3>2. Full \in Nat
      BY InstanceAssumption
    <3> QED BY <3>1, <3>2
  <2>3. PICK m \in Signals : m = Buffering(last_state)
    BY <2>2, BufferingShape
  <2> QED BY <2>1, <2>3, SignalMoves
<1>13. CASE state_changed
  <2>1. toApp' = Append(toApp, StateChanged) /\ UNCHANGED <<told, lost>>
    BY <1>13 DEF state_changed, Emit, StateChanged, proxy
  <2>2. PICK m \in Signals : m = StateChanged
    BY StateChangedShape
  <2> QED BY <2>1, <2>2, SignalMoves
<1>14. CASE Forwards
  <2>1. (\E m \in Forwarded : toApp' = Append(toApp, m)) /\ UNCHANGED <<told, lost>>
    BY <1>14, ForwardsSend DEF proxy
  <2>2. PICK m \in Signals : toApp' = Append(toApp, m)
    BY <2>1 DEF Forwarded
  <2> QED BY <2>1, <2>2, SignalMoves
<1>15. CASE Crash
  <2>1. UNCHANGED <<told, done, request, pending>> /\ lost' = lost \cup {c \in pending : ~Answered(c)}
    BY <1>15 DEF Crash
  <2>2. PICK s \in Seq(Message) :
          /\ toApp' = toApp \o s
          /\ \A k \in DOMAIN s : \E c \in {c \in pending : ~Answered(c)} : s[k] = NoReply(c)
          /\ \A c \in {c \in pending : ~Answered(c)} : \E k \in DOMAIN s : s[k] = NoReply(c)
    BY <1>15, CrashAnswers
  <2>3. Grows(Range(s)) /\ Range(s) \in SUBSET Message
    <3>1. Range(s) \in SUBSET Message
      BY DEF Range
    <3> QED BY <1>1, <2>2, <3>1, ConcatGrows
  <2>4. ASSUME NEW m \in Range(s)
        PROVE  \E c \in pending : ~Answered(c) /\ m = NoReply(c)
    BY <2>2 DEF Range
  <2>5. ASSUME NEW m \in Range(s) PROVE Meant(m)'
    <3>1. PICK c \in pending : ~Answered(c) /\ m = NoReply(c)
      BY <2>4
    <3>2. m.call = c /\ c \in Calls /\ request'[c] # Null /\ c \in lost'
      BY <1>1, <2>1, <3>1, NoReplyShape DEF Books
    <3> QED BY <3>1, <3>2 DEF Meant
  <2>6. ASSUME NEW c \in lost' \ lost
        PROVE  /\ ~Answered(c) /\ NoReply(c) \in Range(s)
               /\ \A m \in Range(s) : Answers(m, c) => m = NoReply(c)
    <3>1. c \in pending /\ ~Answered(c)
      BY <2>1
    <3>2. NoReply(c) \in Range(s)
      BY <2>2, <3>1 DEF Range
    <3>3. \A m \in Range(s) : Answers(m, c) => m = NoReply(c)
      BY <2>4, NoReplyShape DEF Answers
    <3> QED BY <3>1, <3>2, <3>3
  <2> QED BY <2>1, <2>3, <2>5, <2>6 DEF Moves
<1>16. ASSUME NEW p \in Playlists, Destroy(p) PROVE Moves
  BY <1>16, StandMoves DEF Destroy, proxy
<1>17. CASE UNCHANGED vars
  BY <1>17, StandMoves DEF vars, proxy
<1> QED BY <1>2, <1>3, <1>4, <1>5, <1>6, <1>7, <1>8, <1>9, <1>10, <1>11, <1>12, <1>13, <1>14,
           <1>15, <1>16, <1>17 DEF Next, Forwards

-----------------------------------------------------------------------------
(* What callers are told is true *)

\* What the messages say is so, at first and with each step.
LEMMA MailKept ==
  ASSUME Mail, Steady, Moves
  PROVE  Mail'
<1>1. ASSUME NEW k \in DOMAIN toApp, NEW m, m = toApp[k] PROVE Meant(m)'
  BY <1>1, MeantStays DEF Mail
<1>2. ASSUME NEW k \in DOMAIN toApp', NEW m, m = toApp'[k] PROVE Meant(m)'
  <2>1. CASE \E N \in SUBSET Message : Grows(N) /\ \A n \in N : Meant(n)'
    <3>1. PICK N \in SUBSET Message : Grows(N) /\ \A n \in N : Meant(n)'
      BY <2>1
    <3>2. m \in N \/ (k \in DOMAIN toApp /\ m = toApp[k])
      BY <1>2, <3>1 DEF Grows
    <3> QED BY <1>1, <3>1, <3>2
  <2>2. CASE \E i \in DOMAIN toApp : Loses(i)
    <3>1. (k \in DOMAIN toApp /\ m = toApp[k]) \/ (k + 1 \in DOMAIN toApp /\ m = toApp[k + 1])
      BY <1>2, <2>2 DEF Loses
    <3> QED BY <1>1, <3>1
  <2> QED BY <2>1, <2>2 DEF Moves
<1> QED BY <1>2 DEF Mail, Meant

\* What a call that is acknowledged, assign_playlist(), was made of.
Assigned(c) ==
  request[c] # Null /\ request[c].op = "assign_playlist" /\ done[c] # Null /\ done[c].error = Null =>
    done[c].vals[1] \in {request[c].args[1].val} \cup
                          (IF request[c].args[1].val \in gone THEN {0} ELSE {})

TellsTrue(c) ==
  told[c] # Null =>
    IF c \in lost THEN told[c].error # Null /\ told[c].error.code = NotAvailable
    ELSE done[c] # Null /\ TrueTo(request[c].op, done[c], told[c], c \in unasked)

Truth ==
  /\ \A c \in pending \cap lost : LostAnswer(c)
  /\ \A c \in Calls : Assigned(c) /\ TellsTrue(c)

LEMMA InitTruth == ASSUME Init PROVE Mail /\ Truth
<1>1. DOMAIN toApp = {}
  BY DEF Init
<1> QED BY <1>1 DEF Init, Mail, Truth, Assigned, TellsTrue

\* A call that the bus gave up finds the answer of the bus.
LEMMA LostKept ==
  ASSUME TypeInv, TypeInv', Books, Truth, Steady, Moves
  PROVE  \A c \in pending' \cap lost' : LostAnswer(c)'
<1>1. toApp \in Seq(Message) /\ toApp' \in Seq(Message)
  BY DEF TypeInv
<1>2. ASSUME NEW c \in pending' \cap lost', c \notin lost PROVE LostAnswer(c)'
  <2>1. \E N \in SUBSET Message :
          /\ Grows(N) /\ ~Answered(c) /\ NoReply(c) \in N
          /\ \A m \in N : Answers(m, c) => m = NoReply(c)
    BY <1>2 DEF Moves
  <2> QED BY <1>1, <2>1, NowLost
<1>3. ASSUME NEW c \in pending' \cap lost', c \in lost PROVE LostAnswer(c)'
  <2>1. c \in Calls /\ request[c] # Null
    BY <1>3 DEF Books
  <2>2. c \in pending /\ LostAnswer(c)
    BY <1>3, <2>1 DEF Steady, Truth
  <2>3. CASE \E N \in SUBSET Message : Grows(N)
    BY <1>1, <2>2, <2>3, StillLost
  <2>4. ASSUME NEW k \in DOMAIN toApp, Loses(k), ~Answers(toApp[k], c) PROVE LostAnswer(c)'
    BY <1>1, <2>2, <2>4, LostStays
  <2>5. ASSUME NEW k \in DOMAIN toApp, Answers(toApp[k], c),
               \/ toApp[k].type = "signal" /\ UNCHANGED <<told, pending>>
               \/ toApp[k].type # "signal" /\ toApp[k].call \notin pending /\ UNCHANGED <<told, pending>>
               \/ /\ toApp[k].type # "signal" /\ toApp[k].call \in pending
                  /\ FirstAnswer(k, toApp[k].call) /\ Told(toApp[k].call, toApp[k])
        PROVE  FALSE
    BY <1>3, <2>2, <2>5 DEF Answers, Told
  <2> QED BY <2>3, <2>4, <2>5 DEF Moves
<1> QED BY <1>2, <1>3

\* What a caller is told stays true.
LEMMA ToldStays ==
  ASSUME TypeInv, Work, Books, Steady, NEW c \in Calls, told[c] # Null, TellsTrue(c)
  PROVE  TellsTrue(c)'
<1>1. request[c] # Null /\ c \notin pending
  BY DEF Work, Books
<1>2. request'[c] = request[c] /\ told'[c] = told[c] /\ (c \in lost' <=> c \in lost)
  BY <1>1 DEF Steady
<1>3. CASE c \in lost
  BY <1>2, <1>3 DEF TellsTrue
<1>4. CASE c \notin lost
  <2>1. done[c] # Null /\ TrueTo(request[c].op, done[c], told[c], c \in unasked)
        /\ done'[c] = done[c]
    BY <1>4 DEF TellsTrue, Steady
  <2>2. gone \subseteq gone' /\ unasked \subseteq unasked'
    BY DEF Steady
  <2>3. TrueTo(request[c].op, done[c], told[c], c \in unasked)'
    BY <1>2, <2>1, <2>2 DEF TrueTo, MayBeTold
  <2> QED BY <1>2, <1>4, <2>1, <2>3 DEF TellsTrue
<1> QED BY <1>3, <1>4

\* A caller is told the truth.
LEMMA ToldIsTrue ==
  ASSUME NullIsNoRecord, TypeInv, Books, Work, Mail, Truth,
         NEW k \in DOMAIN toApp, NEW c \in pending,
         FirstAnswer(k, c), Told(c, toApp[k]), UNCHANGED <<request, done, lost, gone>>
  PROVE  TellsTrue(c)'
<1>1. c \in Calls /\ request[c] # Null /\ gone \subseteq Playlists
  BY DEF TypeInv, Books
<1>2. PICK found \in Lookups(request[c].op, toApp[k]) :
        /\ told'[c] = Outcome(request[c].op, toApp[k], found.playlist)
        /\ found.error # Null => c \in unasked'
  BY <1>1 DEF Told, TypeInv
<1>3. Answers(toApp[k], c) /\ \A j \in DOMAIN toApp : Answers(toApp[j], c) => k <= j
  BY DEF FirstAnswer
<1>4. toApp[k] \in Message /\ toApp[k] \notin Signals /\ toApp[k].call = c
  <2>1. toApp[k] \in Message
    BY DEF TypeInv
  <2> QED BY <1>3, <2>1, MessageShape DEF Answers
<1>5. CASE c \in lost
  <2>1. PICK i \in DOMAIN toApp :
          toApp[i] = NoReply(c) /\ \A j \in DOMAIN toApp : Answers(toApp[j], c) => i <= j
    BY <1>5 DEF Truth, LostAnswer
  <2>2. Answers(toApp[i], c)
    BY <2>1, NoReplyShape DEF Answers
  <2>3. i <= k /\ k <= i
    BY <1>3, <2>1, <2>2
  <2>4. i \in Int /\ k \in Int
    BY DEF TypeInv
  <2>5. toApp[k] = NoReply(c)
    BY <2>1, <2>3, <2>4
  <2> QED BY <1>2, <1>5, <2>5, NoReplyTold DEF TellsTrue
<1>6. CASE c \notin lost
  <2>1. done[c] # Null /\ toApp[k] = Answer(c, request[c].op, done[c])
    BY <1>4, <1>6 DEF Mail, Meant
  <2>2. done[c] \in OutcomesOf(request[c].op) /\ request[c].op \in AllOps
    BY <1>1, <2>1, RequestedOp DEF Work
  <2>3. TrueTo(request[c].op, done[c],
               Outcome(request[c].op, Answer(c, request[c].op, done[c]), found.playlist),
               c \in unasked')
    BY <1>1, <1>2, <2>1, <2>2, AnswerTold
  <2>4. TrueTo(request[c].op, done[c], told[c], c \in unasked)'
    BY <1>2, <2>1, <2>3 DEF TrueTo, MayBeTold
  <2> QED BY <1>6, <2>1, <2>4 DEF TellsTrue
<1> QED BY <1>5, <1>6

\* Callers are told the truth with each step.
LEMMA TellsKept ==
  ASSUME NullIsNoRecord, TypeInv, Books, Work, Mail, Truth, Steady, Moves
  PROVE  \A c \in Calls : TellsTrue(c)'
<1>1. ASSUME NEW c \in Calls, told[c] # Null PROVE TellsTrue(c)'
  BY <1>1, ToldStays DEF Truth
<1>2. ASSUME NEW c \in Calls, told[c] = Null, told'[c] # Null PROVE TellsTrue(c)'
  <2>1. PICK k \in DOMAIN toApp :
          /\ toApp[k].call \in pending /\ FirstAnswer(k, toApp[k].call)
          /\ Told(toApp[k].call, toApp[k]) /\ UNCHANGED <<request, done, lost, gone>>
    BY <1>2 DEF Moves
  <2>2. toApp[k].call = c
    BY <1>2, <2>1 DEF Told, TypeInv
  <2> QED BY <2>1, <2>2, ToldIsTrue
<1>3. ASSUME NEW c \in Calls, told'[c] = Null PROVE TellsTrue(c)'
  BY <1>3 DEF TellsTrue
<1> QED BY <1>1, <1>2, <1>3

\* The renderer's outcomes come about in two actions.
LEMMA DoneStands ==
  ASSUME [Next]_vars, ~AssignPlaylist, \A c \in Calls : ~Complete(c)
  PROVE  UNCHANGED done
<1>1. ASSUME NEW c \in Calls, Request(c) PROVE UNCHANGED done
  BY <1>1, RequestIsCall DEF CallRenderer, wrapper
<1>2. CASE Release \/ DispatchAnswer \/ AssignReturns \/ DispatchSignal \/ StartWork \/ UnknownMethod
  BY <1>2 DEF Release, DispatchAnswer, AssignReturns, DispatchSignal, StartWork, UnknownMethod,
     wrapper
<1>3. ASSUME NEW c \in Calls, Timeout(c) PROVE UNCHANGED done
  BY <1>3 DEF Timeout, wrapper
<1>4. ASSUME NEW status \in 1 .. Full, buffering_info(status) PROVE UNCHANGED done
  BY <1>4 DEF buffering_info
<1>5. CASE emit_buffering_info_tout \/ state_changed \/ Unexport \/ Crash
  BY <1>5 DEF emit_buffering_info_tout, state_changed, Unexport, Crash
<1>6. CASE Forwards
  BY <1>6, ForwardsSend DEF wrapper
<1>7. ASSUME NEW p \in Playlists, Destroy(p) PROVE UNCHANGED done
  BY <1>7 DEF Destroy, wrapper
<1>8. CASE UNCHANGED vars
  BY <1>8 DEF vars, wrapper
<1> QED BY <1>1, <1>2, <1>3, <1>4, <1>5, <1>6, <1>7, <1>8 DEF Next, Forwards

\* What was acknowledged, before and with the step.
LEMMA AssignedStays ==
  ASSUME Work, Steady, NEW c \in Calls, done[c] # Null, Assigned(c)
  PROVE  Assigned(c)'
<1>1. request'[c] = request[c] /\ done'[c] = done[c] /\ gone \subseteq gone'
  <2>1. request[c] # Null
    BY DEF Work
  <2> QED BY <2>1 DEF Steady
<1> QED BY <1>1 DEF Assigned

LEMMA NewlyAssigned ==
  ASSUME NullIsNoRecord, TypeInv, Work, AssignPlaylist, NEW c \in Calls, c = Head(toWrapper).call
  PROVE  Assigned(c)'
<1>1. toWrapper # <<>> /\ UNCHANGED <<request, gone>>
  BY DEF AssignPlaylist, proxy
<1>3. Head(toWrapper) \in Range(toWrapper)
  BY <1>1, HeadOfCalls DEF Range
<1>4. Head(toWrapper).args = request[c].args
  BY <1>3 DEF Work, Fresh
<1>5. PICK p \in Playlists \cup {0} : \E outcome \in Assignments(p) :
        /\ Head(toWrapper).args[1].val = p /\ done' = [done EXCEPT ![c] = outcome]
  BY AssignOutcome
<1>6. PICK outcome \in Assignments(p) :
        done' = [done EXCEPT ![c] = outcome]
  BY <1>5
<1>7. done'[c] = outcome /\ request'[c].args[1].val = p
  BY <1>1, <1>4, <1>5, <1>6 DEF TypeInv
<1>8. CASE outcome = Failed(Failure)
  <2>1. done'[c].error # Null
    BY <1>7, <1>8, FailureIsSome
  <2> QED BY <2>1 DEF Assigned
<1>9. ASSUME NEW found \in get_playlist(p), found.error = Null,
             outcome = Success(<<found.playlist>>)
      PROVE  Assigned(c)'
  <2>1. done'[c].vals[1] = found.playlist
    BY <1>7, <1>9 DEF Success
  <2>2. done'[c].vals[1] \in {p} \cup (IF p \in gone' THEN {0} ELSE {})
    BY <1>1, <1>9, <2>1, FoundIs
  <2> QED BY <1>7, <2>2 DEF Assigned
<1> QED BY <1>6, <1>8, <1>9 DEF Assignments

LEMMA AssignedKept ==
  ASSUME NullIsNoRecord, TypeInv, Work, Truth, Steady, [Next]_vars
  PROVE  \A c \in Calls : Assigned(c)'
<1>1. ASSUME NEW c \in Calls, done[c] # Null PROVE Assigned(c)'
  BY <1>1, AssignedStays DEF Truth
<1>2. ASSUME NEW c \in Calls, done'[c] = Null PROVE Assigned(c)'
  BY <1>2 DEF Assigned
<1>3. ASSUME NEW c \in Calls, done[c] = Null, done'[c] # Null PROVE Assigned(c)'
  <2>1. CASE AssignPlaylist
    <3>1. \E outcome : done' = [done EXCEPT ![Head(toWrapper).call] = outcome]
      BY <2>1, AssignOutcome
    <3>2. c = Head(toWrapper).call
      BY <1>3, <3>1 DEF TypeInv
    <3> QED BY <2>1, <3>2, NewlyAssigned
  <2>2. ASSUME NEW d \in Calls, Complete(d) PROVE Assigned(c)'
    <3>1. \E outcome : done' = [done EXCEPT ![d] = outcome]
      BY <2>2, CompleteOutcome
    <3>2. c = d
      BY <1>3, <3>1 DEF TypeInv
    <3>3. request'[c].op # "assign_playlist"
      BY <2>2, <3>2 DEF Complete, Work, proxy
    <3> QED BY <3>3 DEF Assigned
  <2> QED BY <1>3, <2>1, <2>2, DoneStands
<1> QED BY <1>1, <1>2, <1>3

\* The mail and the truth with each step.
LEMMA TruthKept ==
  ASSUME NullIsNoRecord, TypeInv, TypeInv', Books, Work, Mail, Truth, [Next]_vars
  PROVE  Mail' /\ Truth'
<1>1. Steady /\ Moves
  BY Steadfast, StepMoves
<1>2. Mail'
  BY <1>1, MailKept
<1>3. \A c \in pending' \cap lost' : LostAnswer(c)'
  BY <1>1, LostKept
<1>4. \A c \in Calls : Assigned(c)'
  BY <1>1, AssignedKept
<1>5. \A c \in Calls : TellsTrue(c)'
  BY <1>1, TellsKept
<1> QED BY <1>2, <1>3, <1>4, <1>5 DEF Truth

-----------------------------------------------------------------------------
(* The throttle *)

\* The signals that tell of the buffering, and what they tell.
Reports(m) == m.type = "signal" /\ m.member \in {"buffering_info", "state_changed"}
Shows(m) == IF m.member = "state_changed" THEN Null ELSE m.args[1].val

\* View, of any queue.
ReportsAt(q) == {i \in 1 .. Len(q) : Reports(q[i])}
ViewOf(q, s) == IF ReportsAt(q) = {} THEN s ELSE Shows(q[Max(ReportsAt(q))])

\* The last of a set of numbers is what Max chooses.
LEMMA LastIs ==
  ASSUME NEW I \in SUBSET Nat, NEW k \in I, \A j \in I : j <= k
  PROVE  I # {} /\ Max(I) = k
<1>1. \A x \in I : (\A y \in I : x >= y) => x = k
  OBVIOUS
<1> QED BY <1>1 DEF Max

\* There is a last report if there is any.
LEMMA LastReport ==
  ASSUME NEW q \in Seq(Message), ReportsAt(q) # {}
  PROVE  /\ Max(ReportsAt(q)) \in ReportsAt(q) /\ Max(ReportsAt(q)) \in Nat \ {0}
         /\ \A j \in ReportsAt(q) : j <= Max(ReportsAt(q))
<1>1. Len(q) \in Nat /\ ReportsAt(q) \in SUBSET (1 .. Len(q))
  BY DEF ReportsAt
<1>2. PICK k \in ReportsAt(q) : \A j \in ReportsAt(q) : j <= k
  BY <1>1, LastIndex
<1>3. ReportsAt(q) \in SUBSET Nat
  BY <1>1
<1>4. Max(ReportsAt(q)) = k
  BY <1>2, <1>3, LastIs
<1>5. k \in Nat \ {0}
  BY <1>1
<1> QED BY <1>2, <1>4, <1>5

\* View is what it is for the queue at the application.
LEMMA ViewIs ==
  ASSUME toApp \in Seq(Message)
  PROVE  View = ViewOf(toApp, shown)
<1>1. CASE ReportsAt(toApp) = {}
  <2>1. {i \in 1 .. Len(toApp) :
           /\ toApp[i].type = "signal"
           /\ toApp[i].member \in {"buffering_info", "state_changed"}} = {}
    BY <1>1 DEF ReportsAt, Reports
  <2> QED BY <1>1, <2>1, Zenon DEF View, ViewOf, SelectLastInSeq
<1>2. CASE ReportsAt(toApp) # {}
  <2> DEFINE k == Max(ReportsAt(toApp))
  <2>1. k # 0
    BY <1>2, LastReport
  <2>2. /\ k = Max({i \in 1 .. Len(toApp) :
                      /\ toApp[i].type = "signal"
                      /\ toApp[i].member \in {"buffering_info", "state_changed"}})
        /\ {i \in 1 .. Len(toApp) :
              /\ toApp[i].type = "signal"
              /\ toApp[i].member \in {"buffering_info", "state_changed"}} # {}
    BY <1>2 DEF ReportsAt, Reports
  <2>3. ViewOf(toApp, shown) = Shows(toApp[k])
    BY <1>2 DEF ViewOf
  <2> HIDE DEF k
  <2> QED BY <2>1, <2>2, <2>3, Zenon DEF View, SelectLastInSeq, Shows
<1> QED BY <1>1, <1>2

\* The view is what the last report shows.
LEMMA ViewAt ==
  ASSUME NEW q \in Seq(Message), NEW s, NEW l \in ReportsAt(q), \A j \in ReportsAt(q) : j <= l
  PROVE  ViewOf(q, s) = Shows(q[l])
<1>1. ReportsAt(q) \in SUBSET Nat
  BY DEF ReportsAt
<1>2. ReportsAt(q) # {} /\ Max(ReportsAt(q)) = l
  BY <1>1, LastIs
<1> QED BY <1>2 DEF ViewOf

LEMMA ReportsIndex ==
  ASSUME NEW q \in Seq(Message)
  PROVE  \A j : j \in ReportsAt(q) <=> j \in DOMAIN q /\ Reports(q[j])
BY DEF ReportsAt

\* The view when other messages are sent, and when a report is.
LEMMA ViewExtends ==
  ASSUME NEW q \in Seq(Message), NEW r \in Seq(Message), NEW s,
         \A k \in DOMAIN q : k \in DOMAIN r /\ r[k] = q[k],
         \A k \in DOMAIN r : k \in DOMAIN q \/ ~Reports(r[k])
  PROVE  ViewOf(r, s) = ViewOf(q, s)
<1>1. ReportsAt(r) = ReportsAt(q)
  BY ReportsIndex
<1>2. CASE ReportsAt(q) = {}
  BY <1>1, <1>2 DEF ViewOf
<1>3. CASE ReportsAt(q) # {}
  <2>1. Max(ReportsAt(q)) \in DOMAIN q
    BY <1>3, LastReport, ReportsIndex
  <2> QED BY <1>1, <1>3, <2>1 DEF ViewOf
<1> QED BY <1>2, <1>3

LEMMA ViewAppends ==
  ASSUME NEW q \in Seq(Message), NEW m \in Message, Reports(m), NEW s
  PROVE  ViewOf(Append(q, m), s) = Shows(m)
<1> DEFINE r == Append(q, m)
<1>1. /\ r \in Seq(Message) /\ Len(q) + 1 \in DOMAIN r /\ r[Len(q) + 1] = m
      /\ \A k \in DOMAIN r : k \in DOMAIN q \/ k = Len(q) + 1
      /\ Len(q) \in Nat /\ DOMAIN q = 1 .. Len(q)
  BY Appended
<1> HIDE DEF r
<1>2. Len(q) + 1 \in ReportsAt(r)
  BY <1>1, ReportsIndex
<1>3. \A j \in ReportsAt(r) : j <= Len(q) + 1
  <2>1. \A j \in ReportsAt(r) : j \in DOMAIN r
    BY <1>1, ReportsIndex
  <2> QED BY <1>1, <2>1
<1>4. ViewOf(r, s) = Shows(r[Len(q) + 1])
  BY <1>1, <1>2, <1>3, ViewAt
<1> QED BY <1>1, <1>4 DEF r

\* One message fewer.
Drops(q, r, k) ==
  /\ k \in DOMAIN q
  /\ \A j \in DOMAIN r :
       /\ j < k => j \in DOMAIN q /\ r[j] = q[j]
       /\ ~(j < k) => j + 1 \in DOMAIN q /\ r[j] = q[j + 1]
  /\ \A j \in DOMAIN q :
       /\ j < k => j \in DOMAIN r /\ r[j] = q[j]
       /\ j > k => j - 1 \in DOMAIN r /\ r[j - 1] = q[j]

\* A message that is no report is taken.
LEMMA ViewDrops ==
  ASSUME NEW q \in Seq(Message), NEW r \in Seq(Message), NEW k, Drops(q, r, k), NEW s,
         ~Reports(q[k])
  PROVE  ViewOf(r, s) = ViewOf(q, s)
<1>1. \A j \in DOMAIN q \cup DOMAIN r : j \in Int
  OBVIOUS
<1>2. k \in Int
  BY <1>1 DEF Drops
<1>3. CASE ReportsAt(q) = {}
  <2>1. ASSUME NEW j \in ReportsAt(r) PROVE FALSE
    BY <1>3, ReportsIndex DEF Drops
  <2> QED BY <1>3, <2>1 DEF ViewOf
<1>4. CASE ReportsAt(q) # {}
  <2>1. PICK l \in ReportsAt(q) : \A j \in ReportsAt(q) : j <= l
    BY <1>4, LastReport
  <2>2. ViewOf(q, s) = Shows(q[l])
    BY <2>1, ViewAt
  <2>3. l \in DOMAIN q /\ Reports(q[l]) /\ l # k /\ l \in Int
    BY <1>1, ReportsIndex
  <2>4. \A j \in ReportsAt(r) : j \in DOMAIN r /\ j \in Int
    BY <1>1, ReportsIndex
  <2>5. CASE l < k
    <3>1. l \in ReportsAt(r) /\ r[l] = q[l]
      BY <2>3, <2>5, ReportsIndex DEF Drops
    <3>2. ASSUME NEW j \in ReportsAt(r) PROVE j <= l
      <4>1. CASE j < k
        <5>1. j \in ReportsAt(q)
          BY <2>4, <4>1, ReportsIndex DEF Drops
        <5> QED BY <2>1, <5>1
      <4>2. CASE ~(j < k)
        <5>1. j + 1 \in ReportsAt(q)
          BY <2>4, <4>2, ReportsIndex DEF Drops
        <5>2. j + 1 <= l
          BY <2>1, <5>1
        <5> QED BY <1>2, <2>3, <2>4, <2>5, <4>2, <5>2
      <4> QED BY <4>1, <4>2
    <3> QED BY <2>2, <3>1, <3>2, ViewAt
  <2>6. CASE l > k
    <3>1. l - 1 \in ReportsAt(r) /\ r[l - 1] = q[l]
      BY <2>3, <2>6, ReportsIndex DEF Drops
    <3>2. ASSUME NEW j \in ReportsAt(r) PROVE j <= l - 1
      <4>1. CASE j < k
        BY <1>2, <2>3, <2>4, <2>6, <4>1
      <4>2. CASE ~(j < k)
        <5>1. j + 1 \in ReportsAt(q)
          BY <2>4, <4>2, ReportsIndex DEF Drops
        <5>2. j + 1 <= l
          BY <2>1, <5>1
        <5> QED BY <2>3, <2>4, <5>2
      <4> QED BY <4>1, <4>2
    <3> QED BY <2>2, <3>1, <3>2, ViewAt
  <2> QED BY <1>2, <2>3, <2>5, <2>6
<1> QED BY <1>3, <1>4

\* The first report is taken, and seen.
LEMMA ViewShifts ==
  ASSUME NEW q \in Seq(Message), NEW r \in Seq(Message), Drops(q, r, 1), NEW s, Reports(q[1])
  PROVE  ViewOf(r, Shows(q[1])) = ViewOf(q, s)
<1>1. \A j \in DOMAIN q \cup DOMAIN r : j \in Nat \ {0}
  OBVIOUS
<1>2. PICK l \in ReportsAt(q) : \A j \in ReportsAt(q) : j <= l
  BY LastReport, ReportsIndex DEF Drops
<1>3. ViewOf(q, s) = Shows(q[l])
  BY <1>2, ViewAt
<1>4. l \in DOMAIN q /\ Reports(q[l]) /\ l \in Nat \ {0}
  BY <1>1, ReportsIndex
<1>5. ASSUME NEW j \in ReportsAt(r) PROVE j + 1 \in ReportsAt(q) /\ j \in Nat \ {0}
  <2>1. j \in DOMAIN r /\ Reports(r[j])
    BY ReportsIndex
  <2>2. j \in Nat \ {0} /\ ~(j < 1)
    BY <1>1, <2>1
  <2> QED BY <2>1, <2>2, ReportsIndex DEF Drops
<1>6. CASE l = 1
  <2>1. ASSUME NEW j \in ReportsAt(r) PROVE FALSE
    <3>1. j + 1 <= l
      BY <1>2, <1>5
    <3> QED BY <1>5, <1>6, <3>1
  <2> QED BY <1>3, <1>6, <2>1 DEF ViewOf
<1>7. CASE l # 1
  <2>1. l > 1
    BY <1>4, <1>7
  <2>2. l - 1 \in ReportsAt(r) /\ r[l - 1] = q[l]
    BY <1>4, <2>1, ReportsIndex DEF Drops
  <2>3. ASSUME NEW j \in ReportsAt(r) PROVE j <= l - 1
    <3>1. j + 1 <= l
      BY <1>2, <1>5
    <3> QED BY <1>4, <1>5, <3>1
  <2> QED BY <1>3, <2>2, <2>3, ViewAt
<1> QED BY <1>6, <1>7

\* What the application will have seen is what the renderer reported.
Throttle ==
  service = "exported" /\ refs > 0 =>
    /\ ~timer \/ reported = Full => ViewOf(toApp, shown) = reported
    /\ reported = Null => ViewOf(toApp, shown) = Null

\* When neither the throttle nor the view changes.
LEMMA ThrottleFrame ==
  ASSUME Throttle, UNCHANGED <<service, timer, reported>>, refs' > 0 => refs > 0,
         ViewOf(toApp', shown') = ViewOf(toApp, shown)
  PROVE  Throttle'
BY DEF Throttle

\* Neither an answer nor a forwarded signal is a report.
LEMMA SendsNoReport ==
  ASSUME toApp \in Seq(Message), NEW m \in Message, ~Reports(m), toApp' = Append(toApp, m)
  PROVE  ViewOf(toApp', shown) = ViewOf(toApp, shown)
<1>1. /\ toApp' \in Seq(Message)
      /\ \A k \in DOMAIN toApp : k \in DOMAIN toApp' /\ toApp'[k] = toApp[k]
      /\ Len(toApp) + 1 \in DOMAIN toApp' /\ toApp'[Len(toApp) + 1] = m
      /\ \A k \in DOMAIN toApp' : k \in DOMAIN toApp \/ k = Len(toApp) + 1
  BY Appended
<1> QED BY <1>1, ViewExtends

LEMMA AnswerReportsNot ==
  /\ \A c : ~Reports(NoReply(c))
  /\ \A c, op, outcome : ~Reports(Answer(c, op, outcome))
BY NoReplyShape, AnswerShape DEF Reports

\* Nor is the view changed when one of them is taken.
LEMMA TakesNoReport ==
  ASSUME toApp \in Seq(Message), toApp' \in Seq(Message), NEW k, Loses(k), ~Reports(toApp[k])
  PROVE  ViewOf(toApp', shown) = ViewOf(toApp, shown)
<1>1. Drops(toApp, toApp', k)
  BY DEF Drops, Loses
<1> QED BY <1>1, ViewDrops

\* A report that is sent is the view then; one that is seen has been it before.
LEMMA ReportSent ==
  ASSUME toApp \in Seq(Message), NEW status \in 1 .. Full, toApp' = Append(toApp, Buffering(status))
  PROVE  ViewOf(toApp', shown') = status
<1>1. /\ Buffering(status) \in Message /\ Reports(Buffering(status))
      /\ Shows(Buffering(status)) = status
  BY BufferingShape DEF Reports, Shows
<1> QED BY <1>1, ViewAppends

LEMMA ReportSeen ==
  ASSUME TypeInv, TypeInv', DispatchSignal, refs > 0
  PROVE  ViewOf(toApp', shown') = ViewOf(toApp, shown)
<1>1. toApp \in Seq(Message) /\ toApp' \in Seq(Message) /\ toApp # <<>> /\ toApp' = Tail(toApp)
  BY DEF TypeInv, DispatchSignal
<1>2. Loses(1) /\ toApp[1] = Head(toApp) /\ 1 \in DOMAIN toApp
  BY <1>1, TailLoses DEF Loses
<1>3. Head(toApp) \in Signals
  <2>1. Head(toApp) \in Message
    BY <1>1
  <2> QED BY <2>1, MessageShape DEF DispatchSignal
<1>4. CASE ~Reports(Head(toApp))
  <2>1. shown' = shown
    BY <1>4 DEF DispatchSignal, Reports
  <2> QED BY <1>1, <1>2, <1>4, <2>1, TakesNoReport
<1>5. CASE Reports(Head(toApp))
  <2>1. shown' = Shows(Head(toApp))
    <3>1. CASE Head(toApp).member = "state_changed"
      BY <3>1 DEF DispatchSignal, Shows
    <3>2. CASE Head(toApp).member = "buffering_info"
      <4>1. /\ Head(toApp).args \in SignalArgs("buffering_info")
            /\ Head(toApp) = mafw_dbus_signal("buffering_info", Head(toApp).args)
        BY <1>3, <3>2, SignalShape
      <4>2. PICK status \in 1 .. Full : Head(toApp).args = <<Basic("d", status)>>
        BY <4>1 DEF SignalArgs
      <4>3. /\ clever_parse_valist(SignalWants(Head(toApp).member), Head(toApp).items).vals[1] = status
            /\ Head(toApp).args[1].val = status
        BY <4>1, <4>2, BufferingUnderstood
      <4> QED BY <3>2, <4>3 DEF DispatchSignal, Shows
    <3> QED BY <1>5, <3>1, <3>2 DEF Reports
  <2>2. Drops(toApp, toApp', 1)
    BY <1>2 DEF Drops, Loses
  <2> QED BY <1>1, <1>2, <1>5, <2>1, <2>2, ViewShifts
<1> QED BY <1>4, <1>5

\* A proxy that is disposed of does not come back.
LEMMA ToldRefs ==
  ASSUME TypeInv, NEW c, NEW m, Told(c, m)
  PROVE  refs' > 0 => refs > 0
<1>1. Freed(c, m) \in {0, 1} /\ refs \in Int /\ refs' = refs - Freed(c, m)
  BY FreedIs DEF TypeInv, Told
<1> QED BY <1>1

\* The throttle, at first and with each step.
LEMMA InitThrottle == ASSUME Init PROVE Throttle
<1>1. ReportsAt(toApp) = {}
  BY DEF Init, ReportsAt
<1>2. Null # Full
  <2>1. Full \in 1 .. Full
    <3>1. Full \in Nat \ {0}
      BY InstanceAssumption
    <3> QED BY <3>1
  <2> QED BY <2>1, InstanceAssumption
<1> QED BY <1>1, <1>2 DEF Init, Throttle, ViewOf

LEMMA ThrottleKept ==
  ASSUME NullIsNoRecord, TypeInv, TypeInv', Books, Work, Throttle, [Next]_vars
  PROVE  Throttle'
<1>1. toApp \in Seq(Message) /\ toApp' \in Seq(Message)
  BY DEF TypeInv
<1>2. ASSUME NEW c \in Calls, Request(c) PROVE Throttle'
  <2>1. PICK op \in AllOps : \E args \in RequestArgs(op) : CallRenderer(c, op, args)
    BY <1>2, RequestIsCall
  <2>2. PICK args \in RequestArgs(op) : CallRenderer(c, op, args)
    BY <2>1
  <2>3. UNCHANGED <<service, timer, reported, shown>> /\ held
    BY <2>2 DEF CallRenderer, wrapper
  <2>4. refs > 0
    <3>1. refs = 1 + Cardinality(Waiting)
      BY <2>3 DEF Books, Waiting
    <3>2. Cardinality(Waiting) \in Nat
      <4>1. pending \subseteq {d \in Calls : request[d] # Null}
        BY DEF Books
      <4> QED BY <4>1, WaitingFinite
    <3> QED BY <3>1, <3>2
  <2>5. CASE service = "exported"
    <3>1. toApp' = toApp
      BY <2>2, <2>5 DEF CallRenderer
    <3> QED BY <2>3, <2>4, <3>1, ThrottleFrame
  <2>6. CASE service # "exported"
    BY <2>3, <2>6 DEF Throttle
  <2> QED BY <2>5, <2>6
<1>3. CASE Release
  <2>1. refs' = refs - 1 /\ UNCHANGED <<service, timer, reported, toApp, shown>>
    BY <1>3 DEF Release, wrapper
  <2>2. refs' > 0 => refs > 0
    <3>1. refs \in Int
      BY DEF TypeInv
    <3> QED BY <2>1, <3>1
  <2> QED BY <2>1, <2>2, ThrottleFrame
<1>4. ASSUME NEW c \in Calls, Timeout(c) PROVE Throttle'
  <2>1. toApp' = Append(toApp, NoReply(c)) /\ UNCHANGED <<service, timer, reported, refs, shown>>
    BY <1>4 DEF Timeout, wrapper
  <2>2. ViewOf(toApp', shown) = ViewOf(toApp, shown)
    BY <1>1, <2>1, NoReplyIsMessage, AnswerReportsNot, SendsNoReport
  <2> QED BY <2>1, <2>2, ThrottleFrame
<1>5. CASE DispatchAnswer
  <2>1. /\ toApp # <<>> /\ Head(toApp).type # "signal" /\ toApp' = Tail(toApp)
        /\ UNCHANGED <<service, timer, reported, shown>>
    BY <1>5 DEF DispatchAnswer, wrapper
  <2>2. Loses(1) /\ toApp[1] = Head(toApp)
    BY <1>1, <2>1, TailLoses
  <2>3. ViewOf(toApp', shown) = ViewOf(toApp, shown)
    BY <1>1, <2>1, <2>2, TakesNoReport DEF Reports
  <2>4. refs' > 0 => refs > 0
    <3>1. CASE Head(toApp).call \in pending
      BY <1>5, <3>1, ToldRefs DEF DispatchAnswer
    <3>2. CASE Head(toApp).call \notin pending
      BY <1>5, <3>2 DEF DispatchAnswer
    <3> QED BY <3>1, <3>2
  <2> QED BY <2>1, <2>3, <2>4, ThrottleFrame
<1>6. CASE AssignReturns
  <2>1. PICK k \in DOMAIN toApp : TakesAnswer(k)
    BY <1>1, <1>6, AssignTakes
  <2>2. /\ Told(blocked, toApp[k]) /\ FirstAnswer(k, blocked) /\ toApp' = RemoveAt(toApp, k)
        /\ UNCHANGED <<service, timer, reported, shown>>
    BY <2>1 DEF TakesAnswer, wrapper
  <2>3. ViewOf(toApp', shown) = ViewOf(toApp, shown)
    <3>1. ~Reports(toApp[k])
      BY <2>2 DEF FirstAnswer, Answers, Reports
    <3>2. Loses(k)
      BY <1>1, <2>2, RemoveLoses
    <3> QED BY <1>1, <3>1, <3>2, TakesNoReport
  <2>4. refs' > 0 => refs > 0
    BY <2>2, ToldRefs
  <2> QED BY <2>2, <2>3, <2>4, ThrottleFrame
<1>7. CASE DispatchSignal
  <2>1. UNCHANGED <<service, timer, reported, refs>>
    BY <1>7 DEF DispatchSignal, wrapper
  <2>2. CASE refs > 0
    BY <1>7, <2>1, <2>2, ReportSeen, ThrottleFrame
  <2>3. CASE ~(refs > 0)
    BY <2>1, <2>3 DEF Throttle
  <2> QED BY <2>2, <2>3
<1>8. ASSUME NEW c \in Calls, NEW op \in AllOps, NEW outcome \in OutcomesOf(op),
             toApp' = Append(toApp, Answer(c, op, outcome)),
             UNCHANGED <<service, timer, reported, refs, shown>>
      PROVE  Throttle'
  <2>1. ViewOf(toApp', shown) = ViewOf(toApp, shown)
    BY <1>1, <1>8, AnswerIsMessage, AnswerReportsNot, SendsNoReport
  <2> QED BY <1>8, <2>1, ThrottleFrame
<1>9. CASE AssignPlaylist
  <2>1. toWrapper # <<>> /\ UNCHANGED <<service, timer, reported, refs, shown>>
    BY <1>9 DEF AssignPlaylist, proxy
  <2>2. Head(toWrapper).call \in Calls
    BY <2>1, HeadOfCalls
  <2>3. PICK outcome \in OutcomesOf("assign_playlist") :
          toApp' = Append(toApp, Answer(Head(toWrapper).call, "assign_playlist", outcome))
    BY <1>9, AssignOutcome
  <2>4. "assign_playlist" \in AllOps
    BY DEF AllOps
  <2> QED BY <1>8, <2>1, <2>2, <2>3, <2>4
<1>10. CASE UnknownMethod
  <2>1. /\ toWrapper # <<>> /\ toApp' = Append(toApp, NoReply(Head(toWrapper).call))
        /\ UNCHANGED <<service, timer, reported, refs, shown>>
    BY <1>10 DEF UnknownMethod, wrapper
  <2>2. Head(toWrapper).call \in Calls
    BY <2>1, HeadOfCalls
  <2>3. ViewOf(toApp', shown) = ViewOf(toApp, shown)
    BY <1>1, <2>1, <2>2, NoReplyIsMessage, AnswerReportsNot, SendsNoReport
  <2> QED BY <2>1, <2>3, ThrottleFrame
<1>11. ASSUME NEW c \in Calls, Complete(c) PROVE Throttle'
  <2>1. UNCHANGED <<service, timer, reported, refs, shown>> /\ request[c] # Null
    BY <1>11 DEF Complete, proxy, Work, Undone
  <2>2. PICK outcome \in OutcomesOf(request[c].op) :
          toApp' = Append(toApp, Answer(c, request[c].op, outcome))
    BY <1>11, CompleteOutcome
  <2>3. request[c].op \in AllOps
    BY <2>1, RequestedOp
  <2> QED BY <1>8, <2>1, <2>2, <2>3
<1>12. ASSUME NEW status \in 1 .. Full, buffering_info(status) PROVE Throttle'
  <2>1. reported' = status /\ reported' # Null /\ UNCHANGED shown
    BY <1>12, InstanceAssumption DEF buffering_info, proxy
  <2>2. CASE toApp' = Append(toApp, Buffering(status))
    <3>1. ViewOf(toApp', shown') = status
      BY <1>1, <2>2, ReportSent
    <3> QED BY <2>1, <3>1 DEF Throttle
  <2>3. CASE timer /\ status # Full
    <3>1. timer' = timer
      BY <1>12, <2>3 DEF buffering_info
    <3> QED BY <2>1, <2>3, <3>1 DEF Throttle
  <2> QED BY <1>12, <2>2, <2>3 DEF buffering_info, emit_buffering_info, Emit, Buffering
<1>13. CASE emit_buffering_info_tout
  <2>1. /\ toApp' = Append(toApp, Buffering(last_state)) /\ timer
        /\ UNCHANGED <<reported, shown>>
    BY <1>13 DEF emit_buffering_info_tout, emit_buffering_info, Emit, Buffering, proxy
  <2>2. last_state \in 1 .. Full /\ reported = last_state
    <3>1. last_state # 0 /\ last_state \in 0 .. Full /\ reported = last_state
      BY <2>1 DEF Work, TypeInv
    <3>2. Full \in Nat
      BY InstanceAssumption
    <3>3. last_state \in 1 .. Full
      BY <3>1, <3>2
    <3> QED BY <3>1, <3>3
  <2>3. ViewOf(toApp', shown') = last_state
    BY <1>1, <2>1, <2>2, ReportSent
  <2>4. reported' # Null
    BY <2>1, <2>2, InstanceAssumption
  <2> QED BY <2>1, <2>2, <2>3, <2>4 DEF Throttle
<1>14. CASE state_changed
  <2>1. toApp' = Append(toApp, StateChanged) /\ reported' = Null
    BY <1>14 DEF state_changed, Emit, StateChanged
  <2>2. StateChanged \in Message /\ Reports(StateChanged) /\ Shows(StateChanged) = Null
    BY StateChangedShape DEF Reports, Shows
  <2>3. ViewOf(toApp', shown') = Null
    BY <1>1, <2>1, <2>2, ViewAppends
  <2> QED BY <2>1, <2>3 DEF Throttle
<1>15. CASE Forwards
  <2>1. (\E m \in Forwarded : toApp' = Append(toApp, m)) /\ UNCHANGED <<wrapper, proxy>>
    BY <1>15, ForwardsSend
  <2>2. PICK m \in Forwarded : toApp' = Append(toApp, m)
    BY <2>1
  <2>3. m \in Message /\ ~Reports(m)
    BY DEF Forwarded, Message, Reports
  <2>4. ViewOf(toApp', shown) = ViewOf(toApp, shown)
    BY <1>1, <2>2, <2>3, SendsNoReport
  <2>5. UNCHANGED <<service, timer, reported, refs, shown>>
    BY <2>1 DEF wrapper, proxy
  <2> QED BY <2>4, <2>5, ThrottleFrame
<1>16. CASE Unexport \/ Crash
  BY <1>16 DEF Unexport, Crash, Throttle
<1>17. ASSUME NEW p \in Playlists, Destroy(p) PROVE Throttle'
  BY <1>17, ThrottleFrame DEF Destroy, wrapper, proxy
<1>18. CASE StartWork \/ UNCHANGED vars
  BY <1>18, ThrottleFrame DEF StartWork, vars, wrapper, proxy
<1> QED BY <1>2, <1>3, <1>4, <1>5, <1>6, <1>7, <1>9, <1>10, <1>11, <1>12, <1>13, <1>14,
           <1>15, <1>16, <1>17, <1>18 DEF Next, Forwards

-----------------------------------------------------------------------------
(* The theorems *)

Inv == TypeInv /\ Books /\ Work /\ Mail /\ Truth /\ Throttle

\* The invariant holds at first, is kept by each step, and so always holds.
LEMMA InitInv == NullIsNoRecord /\ Init => Inv
BY InitType, InitBooks, InitWork, InitTruth, InitThrottle DEF Inv

LEMMA NextInv == NullIsNoRecord /\ Inv /\ [Next]_vars => Inv'
<1> SUFFICES ASSUME NullIsNoRecord, Inv, [Next]_vars PROVE Inv'
  OBVIOUS
<1>1. TypeInv /\ Books /\ Work /\ Mail /\ Truth /\ Throttle
  BY DEF Inv
<1>2. TypeInv'
  BY <1>1, TypeKept
<1>3. Books' /\ Work'
  BY <1>1, BooksKept, WorkKept
<1>4. Mail' /\ Truth'
  BY <1>1, <1>2, TruthKept
<1>5. Throttle'
  BY <1>1, <1>2, ThrottleKept
<1> QED BY <1>2, <1>3, <1>4, <1>5 DEF Inv

LEMMA InvHolds ==
  ASSUME NullIsNoRecord
  PROVE  Spec => []Inv
<1>1. Init => Inv
  BY InitInv
<1>2. Inv /\ [Next]_vars => Inv'
  BY NextInv
<1> QED BY <1>1, <1>2, PTL DEF Spec

\* What the invariant says of the properties.
LEMMA TypeOf == ASSUME Inv PROVE TypeOK
<1>1. Full \in Nat
  BY InstanceAssumption
<1>2. /\ service \in {"exported", "unexported", "gone"}
      /\ timer => service = "exported"
      /\ last_state \in 0 .. Full /\ {reported, shown} \subseteq (1 .. Full) \cup {Null}
      /\ gone \subseteq Playlists
  BY DEF Inv, TypeInv, Work
<1>3. working \subseteq {c \in Calls : request[c] # Null /\ done[c] = Null}
  BY DEF Inv, TypeInv, Work, Undone
<1>4. /\ pending = {c \in Calls : request[c] # Null /\ told[c] = Null}
      /\ blocked \in pending \cup {Null} /\ lost \subseteq {c \in Calls : request[c] # Null}
  BY DEF Inv, Books
<1>5. refs \in Nat
  <2>1. refs = (IF held THEN 1 ELSE 0) + Cardinality(Waiting)
    BY DEF Inv, Books, Waiting
  <2>2. Cardinality(Waiting) \in Nat
    <3>1. pending \subseteq {c \in Calls : request[c] # Null}
      BY <1>4
    <3> QED BY <3>1, WaitingFinite
  <2>3. CASE held
    BY <2>1, <2>2, <2>3
  <2>4. CASE ~held
    BY <2>1, <2>2, <2>4
  <2> QED BY <2>3, <2>4
<1>6. unasked \subseteq {c \in Calls : told[c] # Null /\ request[c].op = "get_status"}
  BY DEF Inv, Books
<1> QED BY <1>2, <1>3, <1>4, <1>5, <1>6 DEF TypeOK

LEMMA ParsesOf == ASSUME NullIsNoRecord, Faults = {}, Inv PROVE MessagesParse
<1>1. ASSUME NEW k \in DOMAIN toWrapper
      PROVE  Carries(toWrapper[k], RequestWants(toWrapper[k].op))
  <2>1. toWrapper[k] \in CallMessages
    BY DEF Inv, TypeInv
  <2> QED BY <2>1, CallShape, CallCarries
<1>2. ASSUME NEW k \in DOMAIN toApp, toApp[k].type = "reply"
      PROVE  Carries(toApp[k], ReplyWants(request[toApp[k].call].op))
  <2> DEFINE c == toApp[k].call
  <2>1. toApp[k] \notin Signals /\ toApp[k] # NoReply(c)
    BY <1>2, SignalShape, NoReplyShape
  <2>2. /\ c \in Calls /\ request[c] # Null /\ done[c] # Null
        /\ toApp[k] = Answer(c, request[c].op, done[c])
    BY <2>1 DEF Inv, Mail, Meant
  <2>3. done[c] \in OutcomesOf(request[c].op) /\ request[c].op \in AllOps
    BY <2>2, RequestedOp DEF Inv, Work
  <2>4. done[c].error = Null
    BY <1>2, <2>2 DEF Answer, mafw_dbus_gerror
  <2>5. PICK vals \in ResultsOf(request[c].op) : done[c] = Success(vals)
    BY <2>3, <2>4, FailureIsSome DEF OutcomesOf
  <2>6. toApp[k] = mafw_dbus_reply(c, request[c].op, vals)
    BY <2>2, <2>4, <2>5 DEF Answer, Success
  <2> HIDE DEF c
  <2>7. Carries(mafw_dbus_reply(c, request[c].op, vals), ReplyWants(request[c].op))
    BY <2>3, ReplyCarries
  <2> QED BY <2>6, <2>7 DEF c
<1>3. ASSUME NEW k \in DOMAIN toApp, toApp[k].type = "signal"
      PROVE  Carries(toApp[k], SignalWants(toApp[k].member))
  <2>1. toApp[k] \in Message
    BY DEF Inv, TypeInv
  <2>2. toApp[k] \in Signals
    BY <1>3, <2>1, MessageShape
  <2> QED BY <2>2, SignalShape, SignalCarries
<1> QED BY <1>1, <1>2, <1>3 DEF MessagesParse

LEMMA TrueOf == ASSUME Inv PROVE OutcomeIsTrue
<1> SUFFICES ASSUME NEW c \in Calls, told[c] # Null
             PROVE  IF c \in lost THEN told[c].error # Null /\ told[c].error.code = NotAvailable
                    ELSE /\ done[c] # Null
                         /\ IF request[c].op = "assign_playlist"
                            THEN /\ told[c].error = done[c].error
                                 /\ told[c].error = Null =>
                                      done[c].vals[1] \in {request[c].args[1].val} \cup
                                        (IF request[c].args[1].val \in gone THEN {0} ELSE {})
                            ELSE told[c] \in MayBeTold(request[c].op, done[c], c \in unasked)
  BY DEF OutcomeIsTrue
<1>1. TellsTrue(c) /\ Assigned(c) /\ request[c] # Null
  BY DEF Inv, Truth, Work
<1> QED BY <1>1 DEF TellsTrue, Assigned, TrueTo

LEMMA ShownOf == ASSUME Inv PROVE ShownIsReported
<1>1. View = ViewOf(toApp, shown)
  BY ViewIs DEF Inv, TypeInv
<1> QED BY <1>1 DEF Inv, Throttle, ShownIsReported

\* TypeOK holds always: the states of the wrapper and of the proxy agree, the timer of
\* the throttle runs only while the renderer is exported, and only a call that was asked
\* for is worked on, waits or was lost.
THEOREM TypeCorrect == ASSUME NullIsNoRecord PROVE Spec => []TypeOK
<1>1. Inv => TypeOK
  BY TypeOf
<1> QED BY <1>1, InvHolds, PTL

\* RefsAreHolders holds always, for any number of calls: the references to the proxy are
\* those of the application and of the calls that wait, and no call but
\* get_extension_property() tells its caller of a proxy that was disposed of.
THEOREM RefsHold == ASSUME NullIsNoRecord PROVE Spec => []RefsAreHolders
<1>1. Inv => RefsAreHolders
  BY DEF Inv, Books, Waits, RefsAreHolders
<1> QED BY <1>1, InvHolds, PTL

\* MessagesParse holds always, if no renderer signals metadata without values: what the two
\* sides say of each call, reply and signal agrees, and no process aborts over a message.
THEOREM MessagesUnderstood == ASSUME NullIsNoRecord, Faults = {} PROVE Spec => []MessagesParse
<1>1. Inv => MessagesParse
  BY ParsesOf
<1> QED BY <1>1, InvHolds, PTL

\* OutcomeIsTrue holds always, for any number of calls: a caller is told what the renderer
\* made of its very call, or that it cannot be reached; the one thing that may be missing is
\* the playlist of a status, if it is gone or if the lookup made for that call failed.
THEOREM OutcomesTrue == ASSUME NullIsNoRecord PROVE Spec => []OutcomeIsTrue
<1>1. Inv => OutcomeIsTrue
  BY TrueOf
<1> QED BY <1>1, InvHolds, PTL

\* ShownIsReported holds always: the throttle of the buffering reports loses no last word,
\* and no report from before a change of state follows it.
THEOREM ThrottleLosesNothing == ASSUME NullIsNoRecord PROVE Spec => []ShownIsReported
<1>1. Inv => ShownIsReported
  BY ShownOf
<1> QED BY <1>1, InvHolds, PTL
=============================================================================
