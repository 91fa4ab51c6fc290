--------------------------- MODULE TransactionProofs ---------------------------
(***************************************************************************)
(* Proofs about Transaction for any uploads, actions and certificates.     *)
(* The clients are those of the publication tools: they abandon a          *)
(* transaction after an error and append signatures only.                  *)
(* Then proofs about LockFile, the lock under which packages are added.    *)
(***************************************************************************)
EXTENDS Transaction, LockFile, FiniteSetTheorems, WellFoundedInduction, TLAPS

TypeNames == {"set", "depend", "file", "signature"}
ObjType == [append : BOOLEAN, obsolete : BOOLEAN, renamed : BOOLEAN, reqdeps : BOOLEAN,
            types : SUBSET TypeNames, remaining : Int, loaded : BOOLEAN]

TypeInv ==
    /\ dir \in {"none", "open", "append"}
    /\ man \in Seq(Action) /\ pkg \in Seq(Action)
    /\ files \subseteq Cert /\ store \subseteq Cert
    /\ obj \in ObjType
    /\ error \in BOOLEAN /\ restarted \in BOOLEAN

(* An object that obeys the rules for obsolete and renamed packages.       *)
Sound(o) ==
    /\ o.obsolete => o.types \subseteq {"set", "signature"}
    /\ o.renamed => o.types \subseteq {"set", "depend", "signature"}
    /\ ~(o.obsolete /\ o.renamed)

(* The object o knows of the actions A, and of what p knew.                *)
Adds(o, p, A) ==
    /\ o.obsolete = (p.obsolete \/ "obsolete" \in A)
    /\ o.renamed = (p.renamed \/ "renamed" \in A)
    /\ o.reqdeps = (p.reqdeps \/ "require" \in A)
    /\ o.types = p.types \cup {TypeName(a) : a \in A}

(* The flags of the object are those of the manifest.  (Of the pkg.fmri    *)
(* that open() writes the object does not know the type.)                  *)
Matches(o) ==
    /\ o.obsolete = ("obsolete" \in ToSet(man))
    /\ o.renamed = ("renamed" \in ToSet(man))
    /\ o.reqdeps = ("require" \in ToSet(man))
    /\ o.types \cup {"set"} = {TypeName(a) : a \in ToSet(man)}

(* The object belongs to the transaction; as long as nothing was refused   *)
(* it knows the manifest, which obeys the rules, restarted or not.         *)
ObjInv ==
    /\ dir = "none" => ~obj.loaded
    /\ obj.loaded => obj.append = (dir = "append")
    /\ dir = "open" => "set" \in ToSet(man)
    /\ dir = "open" /\ ~error => Sound(Reopened) /\ (obj.loaded => Matches(obj))

(* A transaction that appends holds the package, and signatures after it.  *)
AppendInv ==
    /\ dir = "open" => pkg = <<>>
    /\ dir = "append" =>
           /\ Len(pkg) <= Len(man)
           /\ \A i \in 1 .. Len(pkg) : man[i] = pkg[i]
           /\ \A i \in Len(pkg) + 1 .. Len(man) : TypeName(man[i]) = "signature"

(* The certificates that are missing were announced and are still counted. *)
ChainInv ==
    dir = "append" /\ ~restarted =>
        /\ obj.loaded
        /\ "chainsig" \in ToSet(man) \ ToSet(pkg) =>
               \/ files \cup store = Cert
               \/ Cardinality(Cert \ files) <= obj.remaining

-----------------------------------------------------------------------------
(* Every set of natural numbers has a least element.                       *)
LEMMA Least == ASSUME NEW T \in SUBSET Nat, T # {} PROVE \E x \in T : \A y \in T : x <= y
<1> DEFINE R == {ss \in Nat \X Nat : ss[1] < ss[2]}
<1>1. IsWellFoundedOn(R, Nat)
    BY NatLessThanWellFounded, Zenon DEF OpToRel
<1>2. PICK x \in T : \A y \in T : ~ (<<y, x>> \in R)
    <2> HIDE DEF R
    <2> QED
        BY <1>1, WFMin
<1>3. \A y \in T : ~(y < x)
    BY <1>2
<1> QED
    BY <1>3

(* The first n + 1 steps of Checked().                                     *)
Check(s, a) == IF s.ok THEN Validate(s.o, a) ELSE s
Trace(t, n, o, content) ==
    t = [i \in 0 .. n |-> IF i = 0 THEN [o |-> o, ok |-> TRUE]
                          ELSE Check(t[i - 1], content[i])]

(* The recursion of Checked() is well founded: there are such steps.       *)
LEMMA TraceExists == ASSUME NEW o, NEW content, NEW N \in Nat
                     PROVE  \E t : Trace(t, N, o, content)
<1> DEFINE T == {n \in Nat : ~\E t : Trace(t, n, o, content)}
<1> SUFFICES ASSUME T # {} PROVE FALSE
    OBVIOUS
<1>1. PICK n \in T : \A m \in T : n <= m
    BY Least
<1>2. n \in Nat /\ ~\E t : Trace(t, n, o, content)
    OBVIOUS
<1>3. CASE n = 0
    <2> DEFINE t == [i \in 0 .. n |-> [o |-> o, ok |-> TRUE]]
    <2>1. Trace(t, n, o, content)
        BY <1>3 DEF Trace
    <2> QED
        BY <1>2, <2>1
<1>4. CASE n # 0
    <2>1. n - 1 \in Nat /\ n - 1 \notin T
        BY <1>1, <1>2, <1>4
    <2>2. PICK t : Trace(t, n - 1, o, content)
        BY <2>1
    <2> DEFINE u == [i \in 0 .. n |-> IF i = n THEN Check(t[n - 1], content[n]) ELSE t[i]]
    <2>3. ASSUME NEW i \in 0 .. n
          PROVE  u[i] = IF i = 0 THEN [o |-> o, ok |-> TRUE]
                        ELSE Check(u[i - 1], content[i])
        <3>1. CASE i = n
            <4>1. u[i] = Check(t[n - 1], content[n])
                BY <3>1
            <4>2. u[n - 1] = t[n - 1]
                BY <1>2, <1>4
            <4> QED
                BY <1>4, <3>1, <4>1, <4>2
        <3>2. CASE i # n
            <4>1. i \in 0 .. n - 1 /\ u[i] = t[i]
                BY <1>2, <3>2
            <4>2. t[i] = IF i = 0 THEN [o |-> o, ok |-> TRUE] ELSE Check(t[i - 1], content[i])
                BY <2>2, <4>1 DEF Trace
            <4>3. i # 0 => u[i - 1] = t[i - 1]
                BY <1>2, <4>1
            <4> QED
                BY <4>1, <4>2, <4>3
        <3> QED
            BY <3>1, <3>2
    <2>4. u = [i \in 0 .. n |-> IF i = 0 THEN [o |-> o, ok |-> TRUE]
                                ELSE Check(u[i - 1], content[i])]
        BY <2>3
    <2> QED
        BY <1>2, <2>4 DEF Trace
<1> QED
    BY <1>3, <1>4

(* What Checked() returns is the end of such steps.                        *)
LEMMA CheckedIsTrace ==
    ASSUME NEW o, NEW content \in Seq(Action)
    PROVE  \E t : Trace(t, Len(content), o, content) /\ Checked(o, content) = t[Len(content)]
<1> DEFINE u == CHOOSE t : Trace(t, Len(content), o, content)
<1>1. Checked(o, content) = u[Len(content)]
    BY Zenon DEF Checked, Trace, Check
<1>2. Len(content) \in Nat
    OBVIOUS
<1>3. Trace(u, Len(content), o, content)
    BY <1>2, TraceExists, Zenon
<1> QED
    BY <1>1, <1>3, Zenon

(* The outcome v of checking the actions A against the object o: they are  *)
(* noted, and if they are accepted the rules are obeyed as they were.      *)
Kept(v, o, A) ==
    /\ v.o \in ObjType /\ v.ok \in BOOLEAN
    /\ v.o.append = o.append /\ v.o.loaded = o.loaded
    /\ v.o.remaining = o.remaining
    /\ v.ok => Adds(v.o, o, A) /\ (Sound(o) => Sound(v.o))

(* An action that is checked is noted; one that is accepted obeys the      *)
(* rules, if everything before it did.                                     *)
LEMMA ValidateKeeps ==
    ASSUME NEW o \in ObjType, NEW a \in Action
    PROVE  Kept(Validate(o, a), o, {a})
<1> DEFINE v == Validate(o, a)
           marked == [o EXCEPT !.obsolete = @ \/ a = "obsolete", !.renamed = @ \/ a = "renamed"]
           dep == [marked EXCEPT !.reqdeps = @ \/ a = "require"]
           allowed == IF a = "obsolete" THEN {"set", "signature"}
                                        ELSE {"set", "depend", "signature"}
           mixed == a \in {"obsolete", "renamed"} /\ ~(o.types \subseteq allowed)
           both == dep.obsolete /\ dep.renamed
           old == dep.obsolete /\ TypeName(a) \notin {"set", "signature"}
           moved == dep.renamed /\ TypeName(a) \notin {"depend", "set", "signature"}
<1>1. v = IF mixed THEN [o |-> marked, ok |-> FALSE]
          ELSE IF both /\ a = "obsolete"
          THEN [o |-> [dep EXCEPT !.obsolete = FALSE], ok |-> FALSE]
          ELSE IF both /\ a \in {"set", "renamed"}
          THEN [o |-> [dep EXCEPT !.renamed = FALSE], ok |-> FALSE]
          ELSE IF both THEN [o |-> dep, ok |-> FALSE]
          ELSE IF old THEN [o |-> dep, ok |-> FALSE]
          ELSE IF moved THEN [o |-> dep, ok |-> FALSE]
          ELSE [o |-> [dep EXCEPT !.types = @ \cup {TypeName(a)}], ok |-> TRUE]
    BY Zenon DEF Validate
<1> SUFFICES Kept(v, o, {a})
    OBVIOUS
<1> USE DEF Kept
<1> HIDE DEF v
<1>2. TypeName(a) \in TypeNames
    BY DEF TypeName, TypeNames
<1>3. /\ dep \in ObjType /\ marked \in ObjType
      /\ dep.append = o.append /\ dep.loaded = o.loaded /\ dep.remaining = o.remaining
      /\ marked.append = o.append /\ marked.loaded = o.loaded /\ marked.remaining = o.remaining
      /\ dep.types = o.types
      /\ dep.obsolete = (o.obsolete \/ a = "obsolete")
      /\ dep.renamed = (o.renamed \/ a = "renamed")
      /\ dep.reqdeps = (o.reqdeps \/ a = "require")
    BY Zenon DEF ObjType
<1> HIDE DEF dep, marked
<1>4. CASE mixed \/ both \/ old \/ moved
    <2>1. /\ v.ok = FALSE
          /\ v.o \in {marked, [dep EXCEPT !.obsolete = FALSE], [dep EXCEPT !.renamed = FALSE], dep}
        BY <1>1, <1>4
    <2>2. CASE v.o \in {marked, dep}
        BY <1>3, <2>1, <2>2
    <2>3. CASE v.o = [dep EXCEPT !.obsolete = FALSE]
        BY <1>3, <2>1, <2>3 DEF ObjType
    <2>4. CASE v.o = [dep EXCEPT !.renamed = FALSE]
        BY <1>3, <2>1, <2>4 DEF ObjType
    <2> QED
        BY <2>1, <2>2, <2>3, <2>4
<1>5. CASE ~(mixed \/ both \/ old \/ moved)
    <2>1. v.ok = TRUE /\ v.o = [dep EXCEPT !.types = @ \cup {TypeName(a)}]
        BY <1>1, <1>5
    <2>2. /\ v.o \in ObjType
          /\ v.o.append = dep.append /\ v.o.loaded = dep.loaded
          /\ v.o.remaining = dep.remaining
          /\ v.o.types = o.types \cup {TypeName(a)}
          /\ v.o.obsolete = dep.obsolete /\ v.o.renamed = dep.renamed
          /\ v.o.reqdeps = dep.reqdeps
        BY <1>2, <1>3, <2>1 DEF ObjType
    <2>3. Adds(v.o, o, {a})
        BY <1>3, <2>2, Zenon DEF Adds
    <2>4. ASSUME Sound(o) PROVE Sound(v.o)
        <3>1. dep.obsolete => v.o.types \subseteq {"set", "signature"}
            BY <1>3, <1>5, <2>2, <2>4 DEF Sound
        <3>2. dep.renamed => v.o.types \subseteq {"set", "depend", "signature"}
            BY <1>3, <1>5, <2>2, <2>4 DEF Sound
        <3>3. ~(dep.obsolete /\ dep.renamed)
            BY <1>5
        <3>4. v.o.obsolete = dep.obsolete /\ v.o.renamed = dep.renamed
            BY <2>2
        <3> HIDE DEF both, mixed, old, moved
        <3> QED
            BY <3>1, <3>2, <3>3, <3>4 DEF Sound
    <2> QED
        BY <1>3, <2>1, <2>2, <2>3, <2>4
<1> QED
    BY <1>4, <1>5

(* The same for all actions of an upload.                                  *)
LEMMA CheckedKeeps ==
    ASSUME NEW o \in ObjType, NEW content \in Seq(Action)
    PROVE  Kept(Checked(o, content), o, ToSet(content))
<1>1. PICK t : /\ Trace(t, Len(content), o, content)
               /\ Checked(o, content) = t[Len(content)]
    BY CheckedIsTrace
<1> DEFINE upto(n) == {content[i] : i \in 1 .. n}
           P(n) == Kept(t[n], o, upto(n))
           T == {n \in 0 .. Len(content) : ~P(n)}
<1>2. t[0] = [o |-> o, ok |-> TRUE]
    BY <1>1 DEF Trace
<1>3. ASSUME NEW n \in 1 .. Len(content) PROVE t[n] = Check(t[n - 1], content[n])
    <2>1. n \in 0 .. Len(content) /\ n # 0
        OBVIOUS
    <2> QED
        BY <1>1, <2>1 DEF Trace
<1>4. P(0)
    <2>1. t[0].o = o /\ t[0].ok = TRUE
        BY <1>2
    <2>2. upto(0) = {}
        OBVIOUS
    <2>3. Adds(o, o, {})
        BY DEF Adds, ObjType
    <2> QED
        BY <2>1, <2>2, <2>3 DEF Kept
<1>5. ASSUME NEW n \in 1 .. Len(content), P(n - 1) PROVE P(n)
    <2>1. content[n] \in Action
        OBVIOUS
    <2>2. upto(n) = upto(n - 1) \cup {content[n]}
        OBVIOUS
    <2> DEFINE u == t[n - 1]
    <2>3. t[n] = IF u.ok THEN Validate(u.o, content[n]) ELSE u
        BY <1>3 DEF Check
    <2>4. CASE u.ok
        <3>1. t[n] = Validate(u.o, content[n])
            BY <2>3, <2>4
        <3>2. u.o \in ObjType
            BY <1>5 DEF Kept
        <3>a. Kept(Validate(u.o, content[n]), u.o, {content[n]})
            BY <2>1, <3>2, ValidateKeeps
        <3>b. Kept(t[n], u.o, {content[n]})
            BY <3>1, <3>a
        <3>3. ASSUME Adds(t[n].o, u.o, {content[n]}), Adds(u.o, o, upto(n - 1))
              PROVE  Adds(t[n].o, o, upto(n))
            BY <2>2, <3>3 DEF Adds
        <3> HIDE DEF upto
        <3> QED
            BY <1>5, <2>4, <3>b, <3>3 DEF Kept
    <2>5. CASE ~u.ok
        BY <1>5, <2>3, <2>5 DEF Kept
    <2> QED
        BY <2>4, <2>5
<1>6. T = {}
    <2> SUFFICES ASSUME T # {} PROVE FALSE
        OBVIOUS
    <2>1. T \in SUBSET Nat
        OBVIOUS
    <2> HIDE DEF P
    <2>2. PICK n \in T : \A m \in T : n <= m
        BY <2>1, Least
    <2>3. n # 0
        BY <1>4
    <2>4. n \in 1 .. Len(content) /\ n - 1 \notin T
        BY <2>2, <2>3
    <2> QED
        BY <1>5, <2>4
<1>7. P(Len(content))
    <2> HIDE DEF P
    <2> QED
        BY <1>6
<1>8. upto(Len(content)) = ToSet(content)
    BY DEF ToSet
<1> QED
    BY <1>1, <1>7, <1>8

(* What the publication tools upload when they append: signatures, and in  *)
(* pkgsign, none whose certificates are counted.                           *)
SignsOnly == \A up \in AppendUploads : \A i \in 1 .. Len(up) : TypeName(up[i]) = "signature"
ChainsAreAdded == \A up \in AppendUploads : "chainsig" \notin ToSet(up)

-----------------------------------------------------------------------------
(* The object that a call works on.                                        *)
LEMMA ObjectFacts ==
    ASSUME TypeInv, ObjInv, dir # "none"
    PROVE  /\ Reopened \in ObjType /\ Object \in ObjType /\ Object.loaded
           /\ Object.append = (dir = "append")
           /\ dir = "open" /\ ~error => Sound(Object) /\ Matches(Object)
<1>1. Reopened \in ObjType
    <2>1. \A a : TypeName(a) \in TypeNames
        BY DEF TypeName, TypeNames
    <2>2. {TypeName(a) : a \in ToSet(man)} \in SUBSET TypeNames
        BY <2>1
    <2>3. 0 \in Int /\ \A x : (x \in ToSet(man)) \in BOOLEAN /\ (dir = "append") \in BOOLEAN
        OBVIOUS
    <2> QED
        BY <2>2, <2>3 DEF Reopened, ObjType
<1>2. CASE obj.loaded
    <2>1. Object = obj
        BY <1>2 DEF Object
    <2>2. /\ Reopened.obsolete = ("obsolete" \in ToSet(man))
          /\ Reopened.renamed = ("renamed" \in ToSet(man))
          /\ Reopened.types = {TypeName(a) : a \in ToSet(man)}
        BY DEF Reopened
    <2>3. Sound(Reopened) /\ Matches(obj) => Sound(obj)
        BY <2>2 DEF Sound, Matches
    <2> QED
        BY <1>1, <1>2, <2>1, <2>3 DEF TypeInv, ObjInv
<1>3. CASE ~obj.loaded
    <2>1. Object = Reopened
        BY <1>3 DEF Object
    <2>2. Reopened.loaded /\ Reopened.append = (dir = "append")
        BY DEF Reopened
    <2>3. dir = "open" => Matches(Reopened)
        <3>1. TypeName("set") = "set"
            BY DEF TypeName
        <3> QED
            BY <3>1 DEF ObjInv, Matches, Reopened
    <2> QED
        BY <1>1, <2>1, <2>2, <2>3 DEF ObjInv
<1> QED
    BY <1>2, <1>3

(* The actions of a manifest that grows.                                   *)
LEMMA SetOfConcat ==
    ASSUME NEW m \in Seq(Action), NEW up \in Seq(Action)
    PROVE  m \o up \in Seq(Action) /\ ToSet(m \o up) = ToSet(m) \cup ToSet(up)
<1>1. /\ m \o up \in Seq(Action) /\ Len(m \o up) = Len(m) + Len(up)
      /\ \A i \in 1 .. Len(m) : (m \o up)[i] = m[i]
      /\ \A i \in 1 .. Len(up) : (m \o up)[Len(m) + i] = up[i]
    OBVIOUS
<1>2. ASSUME NEW x \in ToSet(m \o up) PROVE x \in ToSet(m) \cup ToSet(up)
    <2>1. PICK i \in 1 .. Len(m \o up) : x = (m \o up)[i]
        BY DEF ToSet
    <2>2. CASE i <= Len(m)
        BY <1>1, <2>1, <2>2 DEF ToSet
    <2>3. CASE i > Len(m)
        <3>1. i - Len(m) \in 1 .. Len(up) /\ i = Len(m) + (i - Len(m))
            BY <1>1, <2>3
        <3>2. x = up[i - Len(m)]
            BY <1>1, <2>1, <3>1
        <3> QED
            BY <3>1, <3>2 DEF ToSet
    <2> QED
        BY <2>2, <2>3
<1>3. ASSUME NEW x \in ToSet(m) PROVE x \in ToSet(m \o up)
    <2>1. PICK i \in 1 .. Len(m) : x = m[i]
        BY DEF ToSet
    <2> QED
        BY <1>1, <2>1 DEF ToSet
<1>4. ASSUME NEW x \in ToSet(up) PROVE x \in ToSet(m \o up)
    <2>1. PICK i \in 1 .. Len(up) : x = up[i]
        BY DEF ToSet
    <2>2. Len(m) + i \in 1 .. Len(m \o up)
        BY <1>1
    <2> QED
        BY <1>1, <2>1, <2>2 DEF ToSet
<1> QED
    BY <1>1, <1>2, <1>3, <1>4

(* ... by one action.                                                      *)
LEMMA SetOfAppend ==
    ASSUME NEW m \in Seq(Action), NEW a \in Action
    PROVE  Append(m, a) \in Seq(Action) /\ ToSet(Append(m, a)) = ToSet(m) \cup {a}
<1>1. <<a>> \in Seq(Action) /\ ToSet(<<a>>) = {a}
    BY DEF ToSet
<1>2. Append(m, a) = m \o <<a>>
    OBVIOUS
<1> QED
    BY <1>1, <1>2, SetOfConcat

(* If the actions that are added to the manifest, and some that are in it, *)
(* were accepted, the object still matches and the manifest is sound.      *)
LEMMA AddedMatches ==
    ASSUME NEW new, NEW A, Sound(Object), Matches(Object),
           new \subseteq A, A \subseteq ToSet(man) \cup new,
           ToSet(man') = ToSet(man) \cup new,
           Adds(obj', Object, A), Sound(Object) => Sound(obj')
    PROVE  Sound(Reopened)' /\ Matches(obj)'
<1>1. Matches(obj)'
    <2> DEFINE T(X) == {TypeName(a) : a \in X}
    <2>0. \A x : (x \in ToSet(man')) = (x \in ToSet(man) \/ x \in A)
        OBVIOUS
    <2>1. /\ obj'.obsolete = ("obsolete" \in ToSet(man'))
          /\ obj'.renamed = ("renamed" \in ToSet(man'))
          /\ obj'.reqdeps = ("require" \in ToSet(man'))
        BY <2>0, Zenon DEF Matches, Adds
    <2>2. T(ToSet(man')) = T(ToSet(man)) \cup T(A)
        OBVIOUS
    <2>3. obj'.types = Object.types \cup T(A) /\ Object.types \cup {"set"} = T(ToSet(man))
        BY DEF Adds, Matches
    <2>4. obj'.types \cup {"set"} = T(ToSet(man'))
        <3> HIDE DEF T
        <3> QED
            BY <2>2, <2>3
    <2> QED
        BY <2>1, <2>4 DEF Matches
<1>2. /\ Reopened'.obsolete = obj'.obsolete /\ Reopened'.renamed = obj'.renamed
      /\ Reopened'.types = obj'.types \cup {"set"}
    BY <1>1 DEF Reopened, Matches
<1>3. Sound(obj')
    OBVIOUS
<1> QED
    BY <1>1, <1>2, <1>3 DEF Sound

(* What add_content() does.                                                *)
LEMMA AddContentFacts ==
    ASSUME NEW a \in Action, TypeInv, ObjInv, AddContent(a)
    PROVE  /\ obj' \in ObjType /\ obj'.loaded /\ obj'.append = (dir = "append")
           /\ error' \in BOOLEAN
           /\ ~error' => /\ man' = Append(man, a)
                         /\ Adds(obj', Object, {a}) /\ (Sound(Object) => Sound(obj'))
                         /\ dir = "append" => TypeName(a) = "signature"
                         /\ obj'.remaining = ChainSize(a)
           /\ error' => man' = man
<1>1. dir # "none"
    BY DEF AddContent, InTransaction
<1>2. Object \in ObjType /\ Object.loaded /\ Object.append = (dir = "append")
    BY <1>1, ObjectFacts
<1>3. CASE Object.append /\ TypeName(a) # "signature"
    <2>1. obj' = Object /\ error' = TRUE /\ man' = man
        BY <1>3 DEF AddContent
    <2> QED
        BY <1>2, <2>1
<1>4. CASE ~(Object.append /\ TypeName(a) # "signature")
    <2> DEFINE o == [Object EXCEPT !.remaining = ChainSize(a)]
               v == Validate(o, a)
    <2>1. obj' = v.o /\ error' = ~v.ok /\ man' = IF v.ok THEN Append(man, a) ELSE man
        BY <1>4 DEF AddContent
    <2>2. ChainSize(a) \in Int
        <3>1. Cardinality(Cert) \in Nat
            BY CertAssumption, FS_CardinalityType
        <3> QED
            BY <3>1 DEF ChainSize
    <2>3. o \in ObjType /\ o.append = Object.append /\ o.loaded = Object.loaded
          /\ o.remaining = ChainSize(a) /\ o.types = Object.types
          /\ o.obsolete = Object.obsolete /\ o.renamed = Object.renamed
          /\ o.reqdeps = Object.reqdeps
        BY <1>2, <2>2 DEF ObjType
    <2> HIDE DEF o
    <2>4. Kept(v, o, {a})
        BY <2>3, ValidateKeeps
    <2> HIDE DEF v
    <2>5. /\ obj' \in ObjType /\ obj'.append = Object.append /\ obj'.loaded = Object.loaded
          /\ obj'.remaining = ChainSize(a) /\ error' \in BOOLEAN
        BY <2>1, <2>3, <2>4 DEF Kept
    <2>6. Adds(v.o, o, {a}) => Adds(v.o, Object, {a})
        BY <2>3, Zenon DEF Adds
    <2>7. Sound(o) <=> Sound(Object)
        BY <2>3, Zenon DEF Sound
    <2>8. ~error' => /\ man' = Append(man, a)
                     /\ Adds(obj', Object, {a}) /\ (Sound(Object) => Sound(obj'))
        BY <2>1, <2>4, <2>6, <2>7 DEF Kept
    <2>9. error' => man' = man
        BY <2>1, <2>4 DEF Kept
    <2> QED
        BY <1>2, <1>4, <2>5, <2>8, <2>9
<1> QED
    BY <1>3, <1>4

(* What add_manifest() does: what was checked includes all that is new.    *)
LEMMA AddManifestFacts ==
    ASSUME NEW up \in Uploads, TypeInv, ObjInv, AddManifest(up)
    PROVE  /\ up \in Seq(Action)
           /\ obj' \in ObjType /\ obj'.loaded /\ obj'.append = (dir = "append")
           /\ obj'.remaining = Object.remaining /\ error' \in BOOLEAN
           /\ ~error' => \E A : /\ ToSet(up) \subseteq A /\ A \subseteq ToSet(man) \cup ToSet(up)
                                /\ Adds(obj', Object, A) /\ (Sound(Object) => Sound(obj'))
<1>1. dir # "none"
    BY DEF AddManifest, InTransaction
<1>2. Object \in ObjType /\ Object.loaded /\ Object.append = (dir = "append")
    BY <1>1, ObjectFacts
<1>3. up \in Seq(Action) /\ man \in Seq(Action)
    BY UploadsAssumption DEF TypeInv
<1>4. PICK content \in {up, man \o up} :
          obj' = Checked(Object, content).o /\ error' = ~Checked(Object, content).ok
    BY DEF AddManifest
<1>5. /\ content \in Seq(Action) /\ ToSet(up) \subseteq ToSet(content)
      /\ ToSet(content) \subseteq ToSet(man) \cup ToSet(up)
    BY <1>3, <1>4, SetOfConcat
<1> DEFINE v == Checked(Object, content)
<1>6. Kept(v, Object, ToSet(content))
    BY <1>2, <1>5, CheckedKeeps
<1> HIDE DEF v
<1>7. obj' = v.o /\ error' = ~v.ok
    BY <1>4 DEF v
<1>8. /\ obj' \in ObjType /\ obj'.loaded /\ obj'.append = (dir = "append")
      /\ obj'.remaining = Object.remaining /\ error' \in BOOLEAN
    BY <1>2, <1>6, <1>7 DEF Kept
<1>9. ~error' => Adds(obj', Object, ToSet(content)) /\ (Sound(Object) => Sound(obj'))
    BY <1>6, <1>7 DEF Kept
<1> QED
    BY <1>3, <1>5, <1>8, <1>9

(* A payload file changes nothing but the count of the object.             *)
LEMMA AddFileFacts ==
    ASSUME NEW c \in Cert, TypeInv, ObjInv, AddFile(c)
    PROVE  /\ obj' \in ObjType /\ obj'.loaded /\ obj'.append = (dir = "append")
           /\ obj'.remaining = Object.remaining - 1 /\ obj'.types = Object.types
           /\ obj'.obsolete = Object.obsolete /\ obj'.renamed = Object.renamed
           /\ obj'.reqdeps = Object.reqdeps
<1>1. dir # "none"
    BY DEF AddFile, InTransaction
<1>2. Object \in ObjType /\ Object.loaded /\ Object.append = (dir = "append")
    BY <1>1, ObjectFacts
<1>3. obj' = [Object EXCEPT !.remaining = @ - 1]
    BY DEF AddFile
<1>4. Object.remaining \in Int
    BY <1>2 DEF ObjType
<1> HIDE DEF Object
<1> QED
    BY <1>2, <1>3, <1>4 DEF ObjType

(* What __init__ leaves.                                                   *)
LEMMA NewObjFacts ==
    ASSUME NEW append \in BOOLEAN
    PROVE  /\ NewObj(append) \in ObjType /\ NewObj(append).loaded
           /\ NewObj(append).append = append /\ NewObj(append).types = {}
           /\ ~NewObj(append).obsolete /\ ~NewObj(append).renamed /\ ~NewObj(append).reqdeps
           /\ NewObj(append).remaining = 0
           /\ NoObj \in ObjType /\ ~NoObj.loaded
<1>1. NoObj \in ObjType
    BY DEF NoObj, ObjType
<1>2. /\ ~NoObj.obsolete /\ ~NoObj.renamed /\ ~NoObj.reqdeps /\ ~NoObj.loaded
      /\ NoObj.types = {} /\ NoObj.remaining = 0
    BY DEF NoObj
<1>3. NewObj(append) = [NoObj EXCEPT !.loaded = TRUE, !.append = append]
    BY DEF NewObj
<1> HIDE DEF NoObj
<1>4. /\ NewObj(append) \in ObjType /\ NewObj(append).loaded
      /\ NewObj(append).append = append /\ NewObj(append).types = {}
      /\ NewObj(append).remaining = 0
    BY <1>1, <1>2, <1>3 DEF ObjType
<1>5. ~NewObj(append).obsolete /\ ~NewObj(append).renamed /\ ~NewObj(append).reqdeps
    BY <1>1, <1>2, <1>3 DEF ObjType
<1> QED
    BY <1>1, <1>2, <1>4, <1>5

(* Every step keeps the types.                                             *)
LEMMA TypeStep == ASSUME TypeInv, ObjInv, [Next]_vars PROVE TypeInv'
<1> USE NewObjFacts
<1>1. CASE UNCHANGED vars
    BY <1>1 DEF vars, TypeInv
<1>2. CASE Open
    <2>1. <<"set">> \in Seq(Action)
        BY DEF Action
    <2> QED
        BY <1>2, <2>1 DEF Open, TypeInv
<1>3. CASE Append_
    BY <1>3 DEF Append_, TypeInv
<1>4. CASE Close
    <2>1. dir # "none"
        BY <1>4 DEF Close, InTransaction
    <2>2. Object \in ObjType
        BY <2>1, ObjectFacts
    <2>3. <<>> \in Seq(Action)
        OBVIOUS
    <2> HIDE DEF NoObj
    <2> QED
        BY <1>4, <2>2, <2>3 DEF Close, TypeInv
<1>5. CASE Abandon
    <2>1. <<>> \in Seq(Action)
        OBVIOUS
    <2> HIDE DEF NoObj
    <2> QED
        BY <1>5, <2>1 DEF Abandon, TypeInv
<1>6. CASE Restart
    BY <1>6 DEF Restart, TypeInv
<1>7. ASSUME NEW a \in Acts, AddContent(a) PROVE TypeInv'
    <2>1. a \in Action
        BY ActsAssumption
    <2>2. man' \in Seq(Action) /\ obj' \in ObjType /\ error' \in BOOLEAN
        BY <1>7, <2>1, AddContentFacts, SetOfAppend DEF TypeInv
    <2> QED
        BY <1>7, <2>2 DEF AddContent, TypeInv
<1>8. ASSUME NEW c \in Cert, AddFile(c) PROVE TypeInv'
    <2>1. obj' \in ObjType
        BY <1>8, AddFileFacts
    <2> QED
        BY <1>8, <2>1 DEF AddFile, TypeInv
<1>9. ASSUME NEW up \in Uploads, AddManifest(up) PROVE TypeInv'
    <2>1. up \in Seq(Action) /\ obj' \in ObjType /\ error' \in BOOLEAN
        BY <1>9, AddManifestFacts
    <2>2. man' \in Seq(Action)
        BY <1>9, <2>1 DEF AddManifest, TypeInv
    <2> QED
        BY <1>9, <2>1, <2>2 DEF AddManifest, TypeInv
<1> QED
    BY <1>1, <1>2, <1>3, <1>4, <1>5, <1>6, <1>7, <1>8, <1>9 DEF Next

(* A client who stops after an error leaves object and manifest in step.   *)
LEMMA ObjStep == ASSUME StopOnError, TypeInv, ObjInv, [Next]_vars PROVE ObjInv'
<1> USE NewObjFacts
<1>0. dir # "none" => /\ Object \in ObjType /\ Object.loaded
                      /\ Object.append = (dir = "append")
                      /\ dir = "open" /\ ~error => Sound(Object) /\ Matches(Object)
    BY ObjectFacts
<1>1. CASE UNCHANGED vars
    BY <1>1 DEF vars, ObjInv, Reopened, Matches
<1>2. CASE Open
    <2>1. dir' = "open" /\ man' = <<"set">> /\ obj' = NewObj(FALSE)
        BY <1>2 DEF Open
    <2>2. ToSet(man') = {"set"} /\ {TypeName(a) : a \in {"set"}} = {"set"}
        BY <2>1 DEF ToSet, TypeName
    <2>3. Matches(obj)'
        <3>1. ~obj'.obsolete /\ ~obj'.renamed /\ ~obj'.reqdeps /\ obj'.types = {}
            BY <2>1
        <3>2. obj'.obsolete \in BOOLEAN /\ obj'.renamed \in BOOLEAN /\ obj'.reqdeps \in BOOLEAN
            BY <2>1 DEF ObjType
        <3>3. /\ "obsolete" \notin ToSet(man') /\ "renamed" \notin ToSet(man')
              /\ "require" \notin ToSet(man')
              /\ {} \cup {"set"} = {TypeName(a) : a \in ToSet(man')}
            BY <2>2
        <3> QED
            BY <3>1, <3>2, <3>3 DEF Matches
    <2>4. Sound(Reopened)'
        BY <2>2 DEF Sound, Reopened
    <2> QED
        BY <2>1, <2>2, <2>3, <2>4 DEF ObjInv
<1>3. CASE Append_
    BY <1>3 DEF Append_, ObjInv
<1>4. CASE Close
    <2>1. dir # "none" /\ ~error
        BY <1>4 DEF Close, InTransaction, TypeInv
    <2>2. CASE Accepted(Object)
        BY <1>4, <2>2 DEF Close, ObjInv
    <2>3. CASE ~Accepted(Object)
        <3>1. dir' = dir /\ man' = man /\ obj' = Object /\ error' = TRUE
            BY <1>4, <2>3 DEF Close
        <3> QED
            BY <1>0, <2>1, <3>1 DEF ObjInv
    <2> QED
        BY <2>2, <2>3
<1>5. CASE Abandon
    BY <1>5 DEF Abandon, ObjInv
<1>6. CASE Restart
    <2>1. dir' = dir /\ man' = man /\ error' = error /\ obj' = NoObj
        BY <1>6 DEF Restart
    <2>2. Sound(Reopened)' = Sound(Reopened)
        BY <2>1 DEF Reopened
    <2> QED
        BY <2>1, <2>2 DEF ObjInv
<1>7. ASSUME NEW a \in Acts, AddContent(a) PROVE ObjInv'
    <2>1. a \in Action /\ man \in Seq(Action)
        BY ActsAssumption DEF TypeInv
    <2>2. dir # "none" /\ ~error /\ dir' = dir
        BY <1>7 DEF AddContent, InTransaction, TypeInv
    <2>3. /\ obj'.loaded /\ obj'.append = (dir = "append")
          /\ ~error' => /\ man' = Append(man, a)
                        /\ Adds(obj', Object, {a}) /\ (Sound(Object) => Sound(obj'))
          /\ error' => man' = man
        BY <1>7, <2>1, AddContentFacts
    <2>4. ~error' => ToSet(man') = ToSet(man) \cup {a}
        BY <2>1, <2>3, SetOfAppend
    <2>5. ~error' /\ dir = "open" => Sound(Reopened)' /\ Matches(obj)'
        BY <1>0, <2>2, <2>3, <2>4, AddedMatches
    <2> QED
        BY <2>2, <2>3, <2>4, <2>5 DEF ObjInv
<1>8. ASSUME NEW c \in Cert, AddFile(c) PROVE ObjInv'
    <2>1. dir # "none" /\ ~error /\ dir' = dir /\ man' = man
        BY <1>8 DEF AddFile, InTransaction, TypeInv
    <2>2. /\ obj'.loaded /\ obj'.append = (dir = "append") /\ obj'.types = Object.types
          /\ obj'.obsolete = Object.obsolete /\ obj'.renamed = Object.renamed
          /\ obj'.reqdeps = Object.reqdeps
        BY <1>8, AddFileFacts
    <2>3. dir = "open" => Matches(obj)'
        BY <1>0, <2>1, <2>2 DEF Matches
    <2>4. Sound(Reopened)' = Sound(Reopened)
        BY <2>1 DEF Reopened
    <2> QED
        BY <2>1, <2>2, <2>3, <2>4 DEF ObjInv
<1>9. ASSUME NEW up \in Uploads, AddManifest(up) PROVE ObjInv'
    <2>1. dir # "none" /\ ~error /\ dir' = dir /\ man' = man \o up /\ man \in Seq(Action)
        BY <1>9 DEF AddManifest, InTransaction, TypeInv
    <2>2. /\ up \in Seq(Action) /\ obj'.loaded /\ obj'.append = (dir = "append")
          /\ ~error' => \E A : /\ ToSet(up) \subseteq A /\ A \subseteq ToSet(man) \cup ToSet(up)
                               /\ Adds(obj', Object, A) /\ (Sound(Object) => Sound(obj'))
        BY <1>9, AddManifestFacts
    <2>3. ToSet(man') = ToSet(man) \cup ToSet(up)
        BY <2>1, <2>2, SetOfConcat
    <2>4. ~error' /\ dir = "open" => Sound(Reopened)' /\ Matches(obj)'
        <3> SUFFICES ASSUME ~error', dir = "open" PROVE Sound(Reopened)' /\ Matches(obj)'
            OBVIOUS
        <3>1. PICK A : /\ ToSet(up) \subseteq A /\ A \subseteq ToSet(man) \cup ToSet(up)
                       /\ Adds(obj', Object, A) /\ (Sound(Object) => Sound(obj'))
            BY <2>2
        <3> QED
            BY <1>0, <2>1, <2>3, <3>1, AddedMatches
    <2> QED
        BY <2>1, <2>2, <2>3, <2>4 DEF ObjInv
<1> QED
    BY <1>1, <1>2, <1>3, <1>4, <1>5, <1>6, <1>7, <1>8, <1>9 DEF Next

(* Whoever appends adds signatures at the end.                             *)
LEMMA AppendStep ==
    ASSUME SignsOnly, TypeInv, ObjInv, AppendInv, [Next]_vars PROVE AppendInv'
<1>1. CASE UNCHANGED vars
    BY <1>1 DEF vars, AppendInv
<1>2. CASE Open
    BY <1>2 DEF Open, AppendInv
<1>3. CASE Append_
    BY <1>3 DEF Append_, AppendInv, TypeInv
<1>4. CASE Close
    BY <1>4 DEF Close, AppendInv
<1>5. CASE Abandon
    BY <1>5 DEF Abandon, AppendInv
<1>6. CASE Restart
    BY <1>6 DEF Restart, AppendInv
<1>7. ASSUME NEW a \in Acts, AddContent(a) PROVE AppendInv'
    <2>1. a \in Action /\ man \in Seq(Action) /\ pkg \in Seq(Action)
        BY ActsAssumption DEF TypeInv
    <2>2. dir' = dir /\ pkg' = pkg
        BY <1>7 DEF AddContent
    <2>3. /\ error' \in BOOLEAN
          /\ error' => man' = man
          /\ ~error' => man' = Append(man, a) /\ (dir = "append" => TypeName(a) = "signature")
        BY <1>7, <2>1, AddContentFacts
    <2>4. CASE man' = man
        BY <2>2, <2>4 DEF AppendInv
    <2>5. CASE man' = Append(man, a) /\ (dir = "append" => TypeName(a) = "signature")
        <3>1. /\ Len(man') = Len(man) + 1 /\ man'[Len(man) + 1] = a
              /\ \A i \in 1 .. Len(man) : man'[i] = man[i]
            BY <2>1, <2>5
        <3> QED
            BY <2>1, <2>2, <2>5, <3>1 DEF AppendInv
    <2> QED
        BY <2>3, <2>4, <2>5
<1>8. ASSUME NEW c \in Cert, AddFile(c) PROVE AppendInv'
    BY <1>8 DEF AddFile, AppendInv
<1>9. ASSUME NEW up \in Uploads, AddManifest(up) PROVE AppendInv'
    <2>1. up \in Seq(Action) /\ man \in Seq(Action) /\ pkg \in Seq(Action)
        BY UploadsAssumption DEF TypeInv
    <2>2. dir' = dir /\ pkg' = pkg /\ man' = man \o up
        BY <1>9 DEF AddManifest
    <2>3. dir = "append" => \A i \in 1 .. Len(up) : TypeName(up[i]) = "signature"
        BY <1>9 DEF AddManifest, SignsOnly
    <2>4. /\ Len(man') = Len(man) + Len(up)
          /\ \A i \in 1 .. Len(man) : man'[i] = man[i]
          /\ \A i \in Len(man) + 1 .. Len(man') :
                 i - Len(man) \in 1 .. Len(up) /\ man'[i] = up[i - Len(man)]
        BY <2>1, <2>2
    <2>5. dir = "append" => \A i \in Len(man) + 1 .. Len(man') : TypeName(man'[i]) = "signature"
        BY <2>3, <2>4
    <2> QED
        BY <2>1, <2>2, <2>4, <2>5 DEF AppendInv
<1> QED
    BY <1>1, <1>2, <1>3, <1>4, <1>5, <1>6, <1>7, <1>8, <1>9 DEF Next

(* A package only changes when a transaction is closed.                    *)
LEMMA Published ==
    ASSUME StopOnError, TypeInv, [Next]_vars, pkg' # pkg
    PROVE  /\ Close /\ dir # "none" /\ ~error /\ Accepted(Object)
           /\ pkg' = man /\ store' = store \cup files
    BY DEF Next, vars, Open, Append_, Close, Abandon, Restart, AddContent, AddFile, AddManifest,
           InTransaction

(* What is closed obeys the rules.                                         *)
LEMMA PublishStep ==
    ASSUME StopOnError, TypeInv, ObjInv, AppendInv, PublishedIsConsistent, [Next]_vars
    PROVE  PublishedIsConsistent'
<1>1. CASE pkg' = pkg
    BY <1>1 DEF PublishedIsConsistent
<1>2. CASE pkg' # pkg
    <2>1. dir # "none" /\ ~error /\ Accepted(Object) /\ pkg' = man
        BY <1>2, Published
    <2> DEFINE Types(m) == {TypeName(a) : a \in ToSet(m)}
    <2>2. CASE dir = "open"
        <3>1. Matches(Object) /\ Sound(Reopened)
            BY <2>1, <2>2, ObjectFacts DEF ObjInv
        <3>2. "renamed" \in ToSet(man) => "require" \in ToSet(man)
            BY <2>1, <3>1 DEF Matches, Accepted
        <3>3. /\ "obsolete" \in ToSet(man) => Types(man) \subseteq {"set", "signature"}
              /\ "renamed" \in ToSet(man) => Types(man) \subseteq {"set", "depend", "signature"}
              /\ ~("obsolete" \in ToSet(man) /\ "renamed" \in ToSet(man))
            BY <3>1 DEF Sound, Reopened
        <3> QED
            BY <2>1, <3>2, <3>3 DEF PublishedIsConsistent, Consistent
    <2>3. CASE dir = "append"
        <3>1. ASSUME NEW x \in ToSet(man)
              PROVE  x \in ToSet(pkg) \/ TypeName(x) = "signature"
            <4>1. PICK i \in 1 .. Len(man) : x = man[i]
                BY DEF ToSet, TypeInv
            <4>2. CASE i <= Len(pkg)
                BY <2>3, <4>1, <4>2 DEF AppendInv, ToSet, TypeInv
            <4>3. CASE i > Len(pkg)
                BY <2>3, <4>1, <4>3 DEF AppendInv, TypeInv
            <4> QED
                BY <4>1, <4>2, <4>3 DEF TypeInv
        <3>2. \A x \in ToSet(pkg) : x \in ToSet(man)
            BY <2>3 DEF AppendInv, ToSet, TypeInv
        <3>3. /\ Types(man) \subseteq Types(pkg) \cup {"signature"}
              /\ "obsolete" \in ToSet(man) => "obsolete" \in ToSet(pkg)
              /\ "renamed" \in ToSet(man) => "renamed" \in ToSet(pkg)
            <4>1. TypeName("obsolete") = "set" /\ TypeName("renamed") = "set"
                BY DEF TypeName
            <4> QED
                BY <3>1, <4>1
        <3>4. /\ "obsolete" \in ToSet(pkg) => Types(pkg) \subseteq {"set", "signature"}
              /\ "renamed" \in ToSet(pkg) => /\ Types(pkg) \subseteq {"set", "depend", "signature"}
                                             /\ "require" \in ToSet(pkg)
              /\ ~("obsolete" \in ToSet(pkg) /\ "renamed" \in ToSet(pkg))
            BY DEF PublishedIsConsistent, Consistent
        <3>5. /\ "obsolete" \in ToSet(man) => Types(man) \subseteq {"set", "signature"}
              /\ "renamed" \in ToSet(man) => /\ Types(man) \subseteq {"set", "depend", "signature"}
                                             /\ "require" \in ToSet(man)
              /\ ~("obsolete" \in ToSet(man) /\ "renamed" \in ToSet(man))
            <4> HIDE DEF Types
            <4> QED
                BY <3>2, <3>3, <3>4
        <3> QED
            BY <2>1, <3>5 DEF PublishedIsConsistent, Consistent
    <2> QED
        BY <2>1, <2>2, <2>3 DEF TypeInv
<1> QED
    BY <1>1, <1>2

(* The count of certificates covers those that are missing: it is set when *)
(* a signature announces them, and each is sent once.                      *)
LEMMA ChainStep ==
    ASSUME ChainsAreAdded, TypeInv, ObjInv, ChainInv, [Next]_vars PROVE ChainInv'
<1> USE NewObjFacts
<1>0. /\ IsFiniteSet(Cert \ files) /\ Cardinality(Cert \ files) \in Nat
      /\ Cardinality(Cert \ files) <= Cardinality(Cert)
    <2>1. Cert \ files \in SUBSET Cert
        OBVIOUS
    <2> QED
        BY <2>1, CertAssumption, FS_Subset, FS_CardinalityType
<1>1. CASE UNCHANGED vars
    BY <1>1 DEF vars, ChainInv
<1>2. CASE Open
    BY <1>2 DEF Open, ChainInv
<1>3. CASE Append_
    BY <1>3 DEF Append_, ChainInv
<1>4. CASE Close
    <2>1. CASE Accepted(Object)
        BY <1>4, <2>1 DEF Close, ChainInv
    <2>2. CASE ~Accepted(Object)
        BY <1>4, <2>2 DEF Close, ChainInv, Object
    <2> QED
        BY <2>1, <2>2
<1>5. CASE Abandon
    BY <1>5 DEF Abandon, ChainInv
<1>6. CASE Restart
    BY <1>6 DEF Restart, ChainInv
<1>7. ASSUME NEW a \in Acts, AddContent(a) PROVE ChainInv'
    <2>1. a \in Action /\ man \in Seq(Action)
        BY ActsAssumption DEF TypeInv
    <2>2. /\ UNCHANGED <<dir, files, store, pkg, restarted>>
          /\ "chainsig" \in ToSet(man) => files \cup store = Cert
        BY <1>7 DEF AddContent, ChainSent
    <2>3. /\ obj'.loaded /\ error' \in BOOLEAN
          /\ error' => man' = man
          /\ ~error' => man' = Append(man, a) /\ obj'.remaining = ChainSize(a)
        BY <1>7, <2>1, AddContentFacts
    <2>4. ASSUME "chainsig" \in ToSet(man') \ ToSet(man)
          PROVE  Cardinality(Cert \ files) <= obj'.remaining
        <3>1. man' # man /\ ~error'
            BY <2>3, <2>4
        <3>2. a = "chainsig"
            BY <2>1, <2>3, <2>4, <3>1, SetOfAppend
        <3>3. obj'.remaining = Cardinality(Cert)
            BY <2>3, <3>1, <3>2 DEF ChainSize
        <3> QED
            BY <1>0, <3>3
    <2> QED
        BY <2>2, <2>3, <2>4 DEF ChainInv
<1>8. ASSUME NEW c \in Cert, AddFile(c) PROVE ChainInv'
    <2>1. /\ UNCHANGED <<dir, man, store, pkg, restarted>>
          /\ files' = files \cup {c} /\ c \notin files
        BY <1>8 DEF AddFile
    <2>2. obj'.loaded /\ obj'.remaining = Object.remaining - 1
        BY <1>8, AddFileFacts
    <2>3. Cert \ files' = (Cert \ files) \ {c} /\ c \in Cert \ files
        BY <2>1
    <2>4. Cardinality(Cert \ files') = Cardinality(Cert \ files) - 1
        BY <1>0, <2>3, FS_RemoveElement
    <2>5. files \cup store = Cert => files' \cup store' = Cert
        BY <2>1
    <2>6. obj.loaded => Object = obj /\ obj.remaining \in Int
        BY DEF Object, TypeInv, ObjType
    <2> QED
        BY <1>0, <2>1, <2>2, <2>4, <2>5, <2>6 DEF ChainInv
<1>9. ASSUME NEW up \in Uploads, AddManifest(up) PROVE ChainInv'
    <2>1. /\ UNCHANGED <<dir, files, store, pkg, restarted>> /\ man' = man \o up
          /\ "chainsig" \in ToSet(man) => files \cup store = Cert
          /\ dir = "append" => "chainsig" \notin ToSet(up)
        BY <1>9 DEF AddManifest, ChainSent, ChainsAreAdded
    <2>2. up \in Seq(Action) /\ man \in Seq(Action) /\ obj'.loaded
        BY <1>9, AddManifestFacts DEF TypeInv
    <2>3. ToSet(man') = ToSet(man) \cup ToSet(up)
        BY <2>1, <2>2, SetOfConcat
    <2> QED
        BY <2>1, <2>2, <2>3 DEF ChainInv
<1> QED
    BY <1>1, <1>2, <1>3, <1>4, <1>5, <1>6, <1>7, <1>8, <1>9 DEF Next

(* All of it holds when the server starts.                                 *)
LEMMA InitHolds ==
    ASSUME Init PROVE TypeInv /\ ObjInv /\ AppendInv /\ ChainInv /\ PublishedIsConsistent
<1>1. TypeInv
    <2>1. <<>> \in Seq(Action)
        OBVIOUS
    <2> QED
        BY <2>1, NewObjFacts DEF Init, TypeInv
<1>2. ObjInv
    BY NewObjFacts DEF Init, ObjInv
<1>3. AppendInv /\ ChainInv
    BY DEF Init, AppendInv, ChainInv
<1>4. PublishedIsConsistent
    <2>1. ToSet(pkg) = {}
        BY DEF Init, ToSet
    <2> QED
        BY <2>1 DEF PublishedIsConsistent, Consistent
<1> QED
    BY <1>1, <1>2, <1>3, <1>4

-----------------------------------------------------------------------------
(* The server's state is well formed and the flags of the transaction are  *)
(* in step with its manifest.                                              *)
LEMMA ObjInvariance == ASSUME StopOnError PROVE Spec => [](TypeInv /\ ObjInv)
    BY InitHolds, TypeStep, ObjStep, PTL DEF Spec

(* A restart of the server between two calls, which drops the object that  *)
(* open(), add_content() and add_manifest() keep, loses nothing: reopen()  *)
(* finds the same marks in the directory.                                  *)
THEOREM RestartCorrect == ASSUME StopOnError PROVE Spec => []RestartForgetsNothing
<1>1. TypeInv /\ ObjInv => RestartForgetsNothing
    BY DEF ObjInv, RestartForgetsNothing, Matches, Reopened
<1> QED
    BY <1>1, ObjInvariance, PTL

(* Whatever is added action by action or uploaded, checked or checked      *)
(* twice, refused, abandoned or interrupted by restarts: what is published *)
(* obeys the rules for obsolete and renamed packages.                      *)
THEOREM PublishedCorrect ==
    ASSUME StopOnError, SignsOnly PROVE Spec => []PublishedIsConsistent
<1>1. TypeInv /\ ObjInv /\ AppendInv /\ PublishedIsConsistent /\ [Next]_vars
      => AppendInv' /\ PublishedIsConsistent'
    BY AppendStep, PublishStep
<1> QED
    BY <1>1, InitHolds, ObjInvariance, PTL DEF Spec

(* accept_append() counts well: a signature that is appended without a     *)
(* restart comes with all certificates of its chain.                       *)
THEOREM ChainCorrect ==
    ASSUME StopOnError, ChainsAreAdded PROVE Spec => ChainIsCompleteUnlessRestarted
<1>1. ASSUME TypeInv, ObjInv, ChainInv, [Next]_vars
      PROVE  [\/ restarted
              \/ dir = "append" /\ "chainsig" \in ToSet(pkg') \ ToSet(pkg) => store' = Cert]_pkg
    <2> SUFFICES ASSUME pkg' # pkg, ~restarted, dir = "append",
                        "chainsig" \in ToSet(pkg') \ ToSet(pkg)
                 PROVE  store' = Cert
        OBVIOUS
    <2>1. Accepted(Object) /\ pkg' = man /\ store' = store \cup files
        BY <1>1, Published
    <2>2. obj.loaded /\ (files \cup store = Cert \/ Cardinality(Cert \ files) <= obj.remaining)
        BY <1>1, <2>1 DEF ChainInv
    <2>3. Object = obj /\ obj.append /\ obj.remaining \in Int
        BY <1>1, <2>2 DEF Object, ObjInv, TypeInv, ObjType
    <2>4. obj.remaining <= 0
        BY <2>1, <2>3 DEF Accepted
    <2>5. IsFiniteSet(Cert \ files)
        BY CertAssumption, FS_Difference
    <2>6. CASE files \cup store = Cert
        BY <2>1, <2>6
    <2>7. CASE Cardinality(Cert \ files) <= obj.remaining
        <3>1. Cardinality(Cert \ files) \in Nat
            BY <2>5, FS_CardinalityType
        <3>2. Cardinality(Cert \ files) = 0
            BY <2>3, <2>4, <2>7, <3>1
        <3>3. Cert \ files = {}
            BY <2>5, <3>2, FS_EmptySet
        <3> QED
            BY <1>1, <2>1, <3>3 DEF TypeInv
    <2> QED
        BY <2>2, <2>6, <2>7
<1>2. TypeInv /\ ObjInv /\ ChainInv /\ [Next]_vars => ChainInv'
    BY ChainStep
<1> QED
    BY <1>1, <1>2, InitHolds, ObjInvariance, PTL DEF Spec, ChainIsCompleteUnlessRestarted

-----------------------------------------------------------------------------
(***************************************************************************)
(* The lock of the store, under which a closed transaction is published:   *)
(* LockFile, for any processes, threads and uses.  Types and the exclusion *)
(* between the threads of a process hold in every configuration.  The      *)
(* exclusion between processes needs SafeUse: without it TLC finds         *)
(* counterexamples to MutualExclusion (see the README).                    *)
(***************************************************************************)
USE DEF Locations

(* How the lock is used never changes.                                     *)
LEMMA UseStep ==
    [LockNext]_lockvars => /\ Wrapper' = Wrapper
                   /\ (LockfNeverFails' <=> LockfNeverFails)
                   /\ (SafeUse' <=> SafeUse)
<1> SUFFICES ASSUME [LockNext]_lockvars
             PROVE  /\ Wrapper' = Wrapper
                    /\ (LockfNeverFails' <=> LockfNeverFails)
                    /\ (SafeUse' <=> SafeUse)
    OBVIOUS
<1> use' = use
    BY DEF LockNext, lockvars
<1> QED
    BY DEF Wrapper, Blocking, Errnos, LockfNeverFails, SafeUse,
           OneThreadPerProcess

(* Every step of lock(), unlock() and of a crash keeps the types.          *)
LEMMA LockTypeStep == TypeOK /\ [LockNext]_lockvars => TypeOK'
<1> SUFFICES ASSUME TypeOK, [LockNext]_lockvars PROVE TypeOK'
    OBVIOUS
<1> use' = use
    BY DEF LockNext, lockvars
<1> USE ProcessAssumption, NoOneAssumption DEF TypeOK
<1>1. CASE UNCHANGED lockvars
    BY <1>1 DEF lockvars
<1>2. ASSUME NEW t \in Thread, Call(t) PROVE TypeOK'
    BY <1>2, UsesAssumption DEF Call, Goto, Blocking, Use
<1>3. ASSUME NEW t \in Thread, Step(t) PROVE TypeOK'
    <2> ProcOf[t] \in Process
        OBVIOUS
    <2> USE DEF Goto, Release, FlockDropped
    <2>1. CASE Acquire(t)        BY <2>1 DEF Acquire
    <2>2. CASE AcquireFails(t)   BY <2>2 DEF AcquireFails
    <2>3. CASE OpenFile(t)           BY <2>3 DEF OpenFile
    <2>4. CASE OpenFails(t)      BY <2>4 DEF OpenFails, Handle
    <2>5. CASE ThreadOnly(t)     BY <2>5 DEF ThreadOnly
    <2>6. CASE Lockf(t)          BY <2>6 DEF Lockf
    <2>7. CASE LockfFails(t)     BY <2>7 DEF LockfFails
    <2>8. CASE Raise(t)          BY <2>8 DEF Raise
    <2>9. CASE Unwind(t)         BY <2>9 DEF Unwind
    <2>10. CASE Write(t)         BY <2>10 DEF Write
    <2>11. CASE WriteFails(t)    BY <2>11 DEF WriteFails, Handle
    <2>12. CASE Unlock(t)        BY <2>12 DEF Unlock
    <2>13. CASE UnlockFails(t)   BY <2>13 DEF UnlockFails
    <2>14. CASE Truncate(t)      BY <2>14 DEF Truncate
    <2>15. CASE Finish(t)        BY <2>15 DEF Finish, ClearFileobj
    <2>16. CASE Clear(t)         BY <2>16 DEF Clear, ClearFileobj
    <2>17. CASE UnlockThread(t)  BY <2>17 DEF UnlockThread
    <2>18. CASE UnlockAsserts(t) BY <2>18 DEF UnlockAsserts
    <2> QED
        BY <1>3, <2>1, <2>2, <2>3, <2>4, <2>5, <2>6, <2>7, <2>8, <2>9, <2>10,
           <2>11, <2>12, <2>13, <2>14, <2>15, <2>16, <2>17, <2>18 DEF Step
<1>4. ASSUME NEW p \in Process, Crash(p) PROVE TypeOK'
    BY <1>4 DEF Crash
<1> QED
    BY <1>1, <1>2, <1>3, <1>4 DEF LockNext

(* The type invariant holds in every reachable state of the lock.          *)
THEOREM LockTyping == LockSpec => []TypeOK
<1>1. LockInit => TypeOK
    BY ProcessAssumption DEF LockInit, TypeOK
<1> QED
    BY <1>1, LockTypeStep, PTL DEF LockSpec

-----------------------------------------------------------------------------
(* The exclusion of the threads of a process.  A wrapper releases its      *)
(* thread lock one step after Finish, so it still owns it in "clear".      *)
OwnsMutex ==
    \A t \in Thread :
        pc[t] \in Owning \/ (Wrapper # "own" /\ pc[t] = "clear")
            => mutex[ProcOf[t]] = t

(* Every step keeps the owner of the NRLock where its code says.           *)
LEMMA OwnsMutexStep ==
    TypeOK /\ OwnsMutex /\ [LockNext]_lockvars => OwnsMutex'
<1> SUFFICES ASSUME TypeOK, OwnsMutex, [LockNext]_lockvars,
                    NEW u \in Thread,
                    pc'[u] \in Owning \/ (Wrapper # "own" /\ pc'[u] = "clear")
             PROVE  mutex'[ProcOf[u]] = u
    BY UseStep DEF OwnsMutex, Owning
<1> USE ProcessAssumption, NoOneAssumption DEF TypeOK, OwnsMutex, Owning
<1>1. CASE UNCHANGED lockvars
    BY <1>1 DEF lockvars
<1>2. ASSUME NEW t \in Thread, Call(t) PROVE mutex'[ProcOf[u]] = u
    BY <1>2 DEF Call, Goto
<1>3. ASSUME NEW t \in Thread, Step(t) PROVE mutex'[ProcOf[u]] = u
    <2> ProcOf[t] \in Process /\ ProcOf[u] \in Process
        OBVIOUS
    <2> USE DEF Goto, Release
    <2>1. CASE Acquire(t)        BY <2>1 DEF Acquire
    <2>2. CASE AcquireFails(t)   BY <2>2 DEF AcquireFails
    <2>3. CASE OpenFile(t)           BY <2>3 DEF OpenFile
    <2>4. CASE OpenFails(t)      BY <2>4 DEF OpenFails, Handle
    <2>5. CASE ThreadOnly(t)     BY <2>5 DEF ThreadOnly
    <2>6. CASE Lockf(t)          BY <2>6 DEF Lockf
    <2>7. CASE LockfFails(t)     BY <2>7 DEF LockfFails
    <2>8. CASE Raise(t)          BY <2>8 DEF Raise
    <2>9. CASE Unwind(t)         BY <2>9 DEF Unwind
    <2>10. CASE Write(t)         BY <2>10 DEF Write
    <2>11. CASE WriteFails(t)    BY <2>11 DEF WriteFails, Handle
    <2>12. CASE Unlock(t)        BY <2>12 DEF Unlock
    <2>13. CASE UnlockFails(t)   BY <2>13 DEF UnlockFails
    <2>14. CASE Truncate(t)      BY <2>14 DEF Truncate
    <2>15. CASE Finish(t)        BY <2>15 DEF Finish, ClearFileobj
    <2>16. CASE Clear(t)         BY <2>16 DEF Clear, ClearFileobj
    <2>17. CASE UnlockThread(t)  BY <2>17 DEF UnlockThread
    <2>18. CASE UnlockAsserts(t) BY <2>18 DEF UnlockAsserts
    <2> QED
        BY <1>3, <2>1, <2>2, <2>3, <2>4, <2>5, <2>6, <2>7, <2>8, <2>9, <2>10,
           <2>11, <2>12, <2>13, <2>14, <2>15, <2>16, <2>17, <2>18 DEF Step
<1>4. ASSUME NEW p \in Process, Crash(p) PROVE mutex'[ProcOf[u]] = u
    BY <1>4 DEF Crash
<1> QED
    BY <1>1, <1>2, <1>3, <1>4 DEF LockNext

(* Threads of one process exclude each other whatever the wrapper, the     *)
(* errors and the kind of calls.                                           *)
THEOREM ThreadsExcludeEachOther == LockSpec => []ThreadExclusion
<1>1. LockInit => OwnsMutex
    BY DEF LockInit, OwnsMutex, Owning
<1>2. OwnsMutex => ThreadExclusion
    BY DEF OwnsMutex, ThreadExclusion
<1> QED
    BY <1>1, <1>2, OwnsMutexStep, LockTyping, PTL DEF LockSpec

-----------------------------------------------------------------------------
(* The strengthening of MutualExclusion.  The record lock must be there    *)
(* from the moment lockf() succeeds; nothing may close a descriptor of the *)
(* process under the holder, so no thread of the process can be unwinding  *)
(* a failed call or hold a stale _fileobj when another one goes on.        *)
Unlocking == {"held", "truncate", "finish"}
                 \cup (IF Wrapper = "own" THEN {"clear"} ELSE {})

LockIsKept ==
    \A t \in Thread : pc[t] \in {"write", "held"} => flock = ProcOf[t]
FileobjIsUsed ==
    \A p \in Process :
        fileobj[p] # NoOne =>
            \E t \in Thread : ProcOf[t] = p /\ pc[t] \in Unlocking
NoFailedCall ==
    LockfNeverFails => \A t \in Thread : /\ pc[t] \notin {"failed", "raised"}
                                         /\ pc[t] # "idle" => blocking[t] = TRUE

LockInv == TypeOK /\ OwnsMutex /\ LockIsKept /\ FileobjIsUsed /\ NoFailedCall

(* With the NRLock, or with a single thread, only one thread of a process  *)
(* is at a place from which it can close a descriptor.                     *)
LEMMA Alone ==
    ASSUME SafeUse, LockInv,
           NEW t \in Thread, NEW u \in Thread,
           ProcOf[t] = ProcOf[u],
           pc[t] \in {"write", "held", "truncate", "finish", "clear"},
           pc[u] \notin {"idle", "acquire"}
    PROVE  t = u
<1>1. CASE OneThreadPerProcess
    BY <1>1 DEF OneThreadPerProcess
<1>2. CASE Wrapper # "own" /\ LockfNeverFails
    <2>1. mutex[ProcOf[t]] = t
        BY <1>2 DEF LockInv, OwnsMutex, Owning
    <2>2. pc[u] \notin {"failed", "raised"} /\ pc[u] \in Locations
        BY <1>2 DEF LockInv, NoFailedCall, TypeOK
    <2>3. mutex[ProcOf[u]] = u
        BY <1>2, <2>2 DEF LockInv, OwnsMutex, Owning
    <2> QED
        BY <2>1, <2>3
<1> QED
    BY <1>1, <1>2 DEF SafeUse

(* One step of a thread t keeps the three parts.                           *)
LEMMA StepKeepsLock ==
    ASSUME SafeUse, LockInv, NEW t \in Thread, Step(t), [LockNext]_lockvars
    PROVE  LockIsKept' /\ FileobjIsUsed' /\ NoFailedCall'
<1> USE ProcessAssumption, NoOneAssumption
        DEF LockInv, TypeOK, LockIsKept, FileobjIsUsed, NoFailedCall, Unlocking,
            Goto, Release, FlockDropped
<1> Wrapper' = Wrapper /\ (LockfNeverFails' <=> LockfNeverFails)
    BY UseStep
<1>1. ProcOf[t] \in Process
    OBVIOUS
<1>2. ASSUME NEW u \in Thread, ProcOf[u] = ProcOf[t], u # t,
             pc[t] \notin {"idle", "acquire"}
      PROVE  pc[u] \notin {"write", "held", "truncate", "finish", "clear"}
    BY <1>2, Alone DEF LockInv
<1>3. ASSUME NEW u \in Thread, ProcOf[u] = ProcOf[t], u # t,
             pc[t] \in {"write", "held", "truncate", "finish", "clear"}
      PROVE  pc[u] \in {"idle", "acquire"}
    BY <1>3, Alone DEF LockInv
<1> USE <1>1, <1>2, <1>3
<1>4. CASE Acquire(t)         BY <1>4 DEF Acquire
<1>5. CASE AcquireFails(t)    BY <1>5 DEF AcquireFails
<1>6. CASE OpenFile(t)            BY <1>6 DEF OpenFile
<1>7. CASE OpenFails(t)       BY <1>7 DEF OpenFails, Handle
<1>8. CASE ThreadOnly(t)      BY <1>8 DEF ThreadOnly
<1>9. CASE Lockf(t)           BY <1>9 DEF Lockf
<1>10. CASE LockfFails(t)
    <2>1. LockIsKept' /\ FileobjIsUsed'
        BY <1>10 DEF LockfFails
    <2>2. ~LockfNeverFails
        BY <1>10 DEF LockfFails, LockfNeverFails
    <2> QED
        BY <2>1, <2>2
<1>11. CASE Raise(t)          BY <1>11 DEF Raise
<1>12. CASE Unwind(t)         BY <1>12 DEF Unwind
<1>13. CASE Write(t)          BY <1>13 DEF Write
<1>14. CASE WriteFails(t)     BY <1>14 DEF WriteFails, Handle
<1>15. CASE Unlock(t)         BY <1>15 DEF Unlock
<1>16. CASE UnlockFails(t)    BY <1>16 DEF UnlockFails
<1>17. CASE Truncate(t)       BY <1>17 DEF Truncate
<1>18. CASE Finish(t)         BY <1>18 DEF Finish, ClearFileobj
<1>19. CASE Clear(t)          BY <1>19 DEF Clear, ClearFileobj
<1>20. CASE UnlockThread(t)   BY <1>20 DEF UnlockThread
<1>21. CASE UnlockAsserts(t)  BY <1>21 DEF UnlockAsserts
<1> QED
    BY <1>4, <1>5, <1>6, <1>7, <1>8, <1>9, <1>10, <1>11, <1>12, <1>13, <1>14,
       <1>15, <1>16, <1>17, <1>18, <1>19, <1>20, <1>21 DEF Step

(* Every step keeps the invariant of the safe uses.                        *)
LEMMA LockInvStep == SafeUse /\ LockInv /\ [LockNext]_lockvars => LockInv'
<1> SUFFICES ASSUME SafeUse, LockInv, [LockNext]_lockvars PROVE LockInv'
    OBVIOUS
<1> USE ProcessAssumption, NoOneAssumption
<1>1. TypeOK' /\ OwnsMutex'
    BY LockTypeStep, OwnsMutexStep DEF LockInv
<1>2. LockIsKept' /\ FileobjIsUsed' /\ NoFailedCall'
    <2> USE DEF LockInv, TypeOK, LockIsKept, FileobjIsUsed, NoFailedCall, Unlocking
    <2> Wrapper' = Wrapper /\ (LockfNeverFails' <=> LockfNeverFails)
        BY UseStep
    <2>1. CASE UNCHANGED lockvars
        BY <2>1 DEF lockvars
    <2>2. ASSUME NEW t \in Thread, Call(t)
          PROVE  LockIsKept' /\ FileobjIsUsed' /\ NoFailedCall'
        <3>1. LockIsKept' /\ FileobjIsUsed'
            BY <2>2 DEF Call, Goto
        <3>2. LockfNeverFails => blocking'[t] = TRUE
            BY <2>2, ZenonT(60) DEF Call, LockfNeverFails
        <3>3. NoFailedCall'
            BY <2>2, <3>2 DEF Call, Goto
        <3> QED
            BY <3>1, <3>3
    <2>3. ASSUME NEW t \in Thread, Step(t)
          PROVE  LockIsKept' /\ FileobjIsUsed' /\ NoFailedCall'
        BY <2>3, StepKeepsLock
    <2>4. ASSUME NEW p \in Process, Crash(p)
          PROVE  LockIsKept' /\ FileobjIsUsed' /\ NoFailedCall'
        BY <2>4 DEF Crash
    <2> QED
        BY <2>1, <2>2, <2>3, <2>4 DEF LockNext
<1> QED
    BY <1>1, <1>2 DEF LockInv

(* Used safely, the lock file excludes: at most one thread of all the      *)
(* processes is between lock() and unlock(), and the kernel's record lock  *)
(* is its process's, through every crash and every error path.             *)
THEOREM LockFileExcludes == LockSpec => []SafeExclusion
<1>1. LockInit => LockInv
    BY ProcessAssumption
       DEF LockInit, LockInv, TypeOK, OwnsMutex, Owning, LockIsKept, FileobjIsUsed,
           NoFailedCall
<1>2. LockInv => MutualExclusion \/ ~SafeUse
    BY Alone DEF LockInv, LockIsKept, MutualExclusion
<1>3. (SafeUse => LockInv) /\ [LockNext]_lockvars => (SafeUse => LockInv)'
    BY LockInvStep, UseStep
<1>4. (SafeUse => LockInv) => SafeExclusion
    BY <1>2 DEF SafeExclusion
<1> QED
    BY <1>1, <1>3, <1>4, PTL DEF LockSpec
=============================================================================
