-------------------------- MODULE CardFilesProofs --------------------------
(***************************************************************************)
(* Proofs about CardFiles for any number of files, any file parameters,    *)
(* paths, names and P1-P2: the types, that contents and parents are one    *)
(* tree, that identifiers are unique in a DF and names on the card, and    *)
(* that the path of a file leads to it.                                    *)
(*                                                                         *)
(* The last needs to know what walk and getpath, which are recursive,      *)
(* compute.  That they are defined at all, and what holds of their values, *)
(* is proved by the least number of which it would not be so (Least).      *)
(***************************************************************************)
EXTENDS CardFiles, TLAPS, WellFoundedInduction

IInv == TypeOK /\ IsDF(MF) /\ TreeIsTree /\ FidsAreUnique /\ NamesAreKnown

\* The steps there are, whatever command takes them.
Deleted(f) == /\ f # MF
              /\ content' = [content EXCEPT ![parent[f]] = @ \ {f}]
              /\ UNCHANGED <<made, attr, parent, named, current, alive>>

Appended(d, as, n) ==
  /\ n \in 1 .. 2 /\ made + n <= MaxFiles
  /\ \A i \in 1 .. n : as[i] \in Descriptions
  /\ Accepts(d, as[1], {})
  /\ n = 2 => Accepts(d, as[2], {as[1]})
  /\ Added(d, as, n)

-----------------------------------------------------------------------------
\* MF.currentDF is a DF of the card.
LEMMA CurrentDFIsDF ==
  ASSUME TypeOK, IsDF(MF), TreeIsTree
  PROVE  CurrentDF \in MF .. made /\ IsDF(CurrentDF)
<1>1. CASE IsDF(current)
  BY <1>1 DEF CurrentDF, TypeOK
<1>2. CASE ~IsDF(current)
  <2>1. current \in MF + 1 .. made
    BY <1>2 DEF TypeOK, MF, Files
  <2>2. parent[current] \in MF .. current - 1 /\ IsDF(parent[current])
    BY <2>1 DEF TreeIsTree
  <2> QED BY <1>2, <2>1, <2>2 DEF CurrentDF, TypeOK, MF, Files
<1> QED BY <1>1, <1>2

\* The fields of a description, and a description with other fields.
LEMMA DescriptionTypes ==
  ASSUME NEW a \in Descriptions
  PROVE  a.short \in Shorts \cup {None} /\ a.name \in Names \cup {None}
  BY DEF Descriptions
LEMMA DescriptionUpdate ==
  ASSUME NEW a \in Descriptions, NEW s \in Shorts \cup {None}, NEW m \in Names \cup {None}
  PROVE  [a EXCEPT !.short = s, !.name = m] \in Descriptions
  BY DEF Descriptions

\* A file inherits a short identifier and a name of the right type.
LEMMA InheritedTypes ==
  ASSUME NEW a \in Descriptions, NEW b \in Descriptions
  PROVE  [a EXCEPT !.short = Inherited(a.short, b.short),
                   !.name  = Inherited(a.name, b.name)] \in Descriptions
<1>1. /\ Inherited(a.short, b.short) \in Shorts \cup {None}
      /\ Inherited(a.name, b.name) \in Names \cup {None}
  BY DescriptionTypes, Zenon DEF Inherited
<1> QED BY <1>1, DescriptionUpdate, Zenon

\* The arguments of the constructors are of the types they expect.
LEMMA ArgumentTypes ==
  ASSUME NEW n \in 1 .. 2, NEW fcps \in [1 .. n -> Fcps], NEW i \in 1 .. n
  PROVE  Arguments(n, fcps)[i] \in Descriptions
<1>1. fcps[i] \in Descriptions /\ fcps[1] \in Descriptions
  BY FilesAssumption
<1>2. [fcps[i] EXCEPT !.short = Inherited(fcps[i].short, fcps[1].short),
                      !.name  = Inherited(fcps[i].name, fcps[1].name)] \in Descriptions
  BY <1>1, InheritedTypes, Zenon
<1> QED BY <1>2, Zenon DEF Arguments

\* What DF.append has found when it accepts a file.
LEMMA AcceptsFacts ==
  ASSUME NEW d, NEW a, NEW S, Accepts(d, a, S)
  PROVE  /\ a.fid # attr[d].fid /\ a.fid # MFid
         /\ \A g \in content[d] : ~Clash(a, attr[g])
         /\ \A g \in named : ~Same(a.name, attr[g].name)
         /\ \A b \in S : ~Clash(a, b) /\ ~Same(a.name, b.name)
<1>1. /\ \A g \in content[d] : attr[g] \in S \cup {attr[h] : h \in content[d]}
      /\ \A g \in named : attr[g] \in S \cup {attr[h] : h \in named}
  OBVIOUS
<1> QED BY <1>1, Zenon DEF Accepts

\* Every command selects, deletes, appends or ends the card.
LEMMA StepKinds ==
  ASSUME IInv, Next
  PROVE  \/ Die
         \/ \E f \in MF .. made : Select(f)
         \/ \E f \in MF .. made : Deleted(f)
         \/ \E n \in 1 .. 2 : \E as : Appended(CurrentDF, as, n)
<1>1. ASSUME NEW s \in Selections, SelectFile(s)
      PROVE  Die \/ \E f \in MF .. made : Select(f)
  BY <1>1 DEF SelectFile, Found
<1>2. ASSUME NEW s \in Selections, DeleteFile(s)
      PROVE  Die \/ \E f \in MF .. made : Deleted(f)
  BY <1>2 DEF DeleteFile, Found, Deleted
<1>3. ASSUME NEW n \in 1 .. 2, NEW fcps \in [1 .. n -> Fcps], CreateFile(n, fcps)
      PROVE  Die \/ \E m \in 1 .. 2 : \E as : Appended(CurrentDF, as, m)
  <2> DEFINE as == Arguments(n, fcps)
  <2>1. \A i \in 1 .. n : as[i] \in Descriptions
    BY ArgumentTypes
  <2>3. made \in Nat
    BY DEF IInv, TypeOK, Files
  <2>4. CASE Die
    BY <2>4
  <2>5. CASE /\ made + n <= MaxFiles
             /\ Accepts(CurrentDF, as[1], {})
             /\ n = 2
             /\ Accepts(CurrentDF, as[2], {as[1]})
             /\ Added(CurrentDF, as, 2)
    BY <2>1, <2>5 DEF Appended
  <2>6. CASE /\ made + n <= MaxFiles
             /\ Accepts(CurrentDF, as[1], {})
             /\ Added(CurrentDF, as, 1)
    <3>1. made + 1 <= MaxFiles /\ as[1] \in Descriptions
      BY <2>1, <2>3, <2>6, FilesAssumption
    <3> HIDE DEF as
    <3>2. 1 \in 1 .. 2 /\ ~(1 = 2) /\ \A i \in 1 .. 1 : i = 1
      OBVIOUS
    <3>3. Appended(CurrentDF, as, 1)
      BY <2>6, <3>1, <3>2, Zenon DEF Appended
    <3> QED BY <3>2, <3>3, Zenon
  <2> QED BY <1>3, <2>4, <2>5, <2>6 DEF CreateFile
<1>4. ASSUME NEW x \in Shorts, BinaryPlain(x) \/ Record(x)
      PROVE  Die \/ \E f \in MF .. made : Select(f)
  BY <1>4 DEF BinaryPlain, Record, Found
<1>5. ASSUME NEW p \in Octets, BinaryEncapsulated(p) \/ DataEncapsulated(p)
      PROVE  Die \/ \E f \in MF .. made : Select(f)
  BY <1>5 DEF BinaryEncapsulated, DataEncapsulated, Found
<1>6. Reset => \E f \in MF .. made : Select(f)
  BY DEF Reset, IInv, TypeOK, Files, MF
<1> QED BY <1>1, <1>2, <1>3, <1>4, <1>5, <1>6 DEF Next

-----------------------------------------------------------------------------
\* What appending does to the variables, file by file.
AppendedResult(d, n) ==
  /\ made' = made + n /\ made' \in Files
  /\ New(n) \subseteq MF + 1 .. made'
  /\ \A f \in MF .. made : f \notin New(n) /\ f \in MF .. made'
  /\ \A f \in MF .. made' : f \in MF .. made \/ f \in New(n)
  /\ \A f \in New(n) : attr'[f] \in Descriptions
  /\ \A f \in New(n) :
       /\ attr'[f].fid # attr[d].fid /\ attr'[f].fid # MFid
       /\ \A g \in content[d] : ~Clash(attr'[f], attr[g])
       /\ \A g \in named : ~Same(attr'[f].name, attr[g].name)
  /\ \A f \in New(n) : parent'[f] = d
  /\ \A f \in Files \ New(n) : attr'[f] = attr[f] /\ parent'[f] = parent[f]
  /\ \A f, g \in New(n) : f # g => /\ ~Clash(attr'[f], attr'[g])
                                 /\ ~Same(attr'[f].name, attr'[g].name)
  /\ content'[d] = content[d] \cup New(n)
  /\ \A e \in Files \ {d} : content'[e] = content[e]
  /\ named' = named \cup {f \in New(n) : attr'[f].name # None}

LEMMA AppendedFacts ==
  ASSUME IInv, NEW n \in 1 .. 2, NEW as, NEW d \in MF .. made, Appended(d, as, n)
  PROVE  AppendedResult(d, n)
<1>1. made \in Nat /\ made + n <= MaxFiles /\ MaxFiles \in Nat /\ made' = made + n
  BY FilesAssumption DEF IInv, TypeOK, Files, MF, Appended, Added
<1>2. /\ made' \in Files
      /\ New(n) \subseteq MF + 1 .. made' /\ New(n) \subseteq Files
      /\ MF .. made \subseteq Files
      /\ \A f \in MF .. made : f \notin New(n) /\ f \in MF .. made'
      /\ \A f \in MF .. made' : f \in MF .. made \/ f \in New(n)
  BY <1>1 DEF Files, MF, New
<1>3. \A f \in New(n) : f - made \in 1 .. n
  BY <1>1 DEF New
<1>4. Accepts(d, as[2], {as[1]}) => Accepts(d, as[2], {})
  BY DEF Accepts
<1>11. \A i \in 1 .. n : i = 1 \/ (n = 2 /\ i = 2)
  OBVIOUS
<1>5. \A i \in 1 .. n : as[i] \in Descriptions /\ Accepts(d, as[i], {})
  BY <1>4, <1>11, Zenon DEF Appended
<1>6. \A f \in New(n) : attr'[f] = as[f - made] /\ parent'[f] = d
  BY <1>2 DEF Appended, Added
<1>7. \A f \in Files \ New(n) : attr'[f] = attr[f] /\ parent'[f] = parent[f]
  BY DEF Appended, Added
<1>8. /\ content'[d] = content[d] \cup New(n)
      /\ \A e \in Files \ {d} : content'[e] = content[e]
  BY <1>2 DEF Appended, Added, IInv, TypeOK
<1>12. \A f \in New(n) :
         /\ attr'[f].fid # attr[d].fid /\ attr'[f].fid # MFid
         /\ \A g \in content[d] : ~Clash(attr'[f], attr[g])
         /\ \A g \in named : ~Same(attr'[f].name, attr[g].name)
  <2> TAKE f \in New(n)
  <2>1. Accepts(d, attr'[f], {})
    BY <1>3, <1>5, <1>6, Zenon
  <2> QED BY <2>1, AcceptsFacts, Zenon
<1>9. named' = named \cup {f \in New(n) : attr'[f].name # None}
  BY <1>6 DEF Appended, Added
<1>13. \A f, g \in New(n) : f # g => /\ ~Clash(attr'[f], attr'[g])
                                    /\ ~Same(attr'[f].name, attr'[g].name)
  <2> SUFFICES ASSUME NEW f \in New(n), NEW g \in New(n), f # g
               PROVE  ~Clash(attr'[f], attr'[g]) /\ ~Same(attr'[f].name, attr'[g].name)
    BY Zenon
  <2>1. n = 2 /\ \/ f - made = 2 /\ g - made = 1
                 \/ f - made = 1 /\ g - made = 2
    BY <1>1 DEF New
  <2>2. ~Clash(as[2], as[1]) /\ ~Same(as[2].name, as[1].name)
    BY <2>1, AcceptsFacts, Zenon DEF Appended
  <2>3. ~Clash(as[1], as[2]) /\ ~Same(as[1].name, as[2].name)
    BY <2>2, Zenon DEF Clash, Same
  <2> QED BY <1>6, <2>1, <2>2, <2>3, Zenon
<1> QED BY <1>1, <1>2, <1>3, <1>5, <1>6, <1>7, <1>8, <1>9, <1>12, <1>13, ZenonT(60)
     DEF AppendedResult

-----------------------------------------------------------------------------
LEMMA InitInv == Init => IInv
<1> SUFFICES ASSUME Init PROVE IInv
  OBVIOUS
<1>1. MFattr \in Descriptions
  <2>1. MFid \in Fids /\ "df" \in Kinds
    BY DEF MFid, Fids, Kinds
  <2> QED BY <2>1 DEF MFattr, Descriptions
<1>2. MF \in Files
  BY FilesAssumption DEF MF, Files
<1>3. TypeOK
  BY <1>1, <1>2 DEF Init, TypeOK, MF
<1>4. \A f \in Files : IsDF(f) /\ attr[f].name = None
  BY DEF Init, IsDF, MFattr
<1>5. TreeIsTree
  BY <1>2 DEF Init, TreeIsTree, MF
<1>6. FidsAreUnique
  BY <1>2 DEF Init, FidsAreUnique, MF, Files
<1>7. NamesAreKnown
  BY <1>2, <1>4 DEF Init, NamesAreKnown, MF, Files
<1> QED BY <1>2, <1>3, <1>4, <1>5, <1>6, <1>7 DEF IInv

\* The end of the card and a selection leave the tree alone.
LEMMA SelectInv ==
  ASSUME IInv, \/ Die \/ UNCHANGED vars
               \/ \E f \in MF .. made : Select(f)
  PROVE  IInv'
<1>1. UNCHANGED <<made, attr, parent, content, named>>
  BY DEF Die, Select, vars
<1>2. current' \in MF .. made /\ alive' \in BOOLEAN
  BY DEF Die, Select, vars, IInv, TypeOK
<1>3. TypeOK'
  BY <1>1, <1>2 DEF IInv, TypeOK
<1> QED BY <1>1, <1>3 DEF IInv, IsDF, TreeIsTree, FidsAreUnique, NamesAreKnown

\* A file that leaves its DF takes nothing from the other facts.
LEMMA DeleteInv ==
  ASSUME IInv, NEW f \in MF .. made, Deleted(f)
  PROVE  IInv'
<1>1. UNCHANGED <<made, attr, parent, named, current, alive>>
  BY DEF Deleted
<1>2. content' \in [Files -> SUBSET Files]
  BY DEF Deleted, IInv, TypeOK
<1>3. \A d \in Files : content'[d] \subseteq content[d]
  BY DEF Deleted, IInv, TypeOK
<1>4. MF .. made \subseteq Files
  BY FilesAssumption DEF IInv, TypeOK, Files, MF
<1>5. TypeOK'
  BY <1>1, <1>2 DEF IInv, TypeOK
<1>6. TreeIsTree'
  BY <1>1, <1>3 DEF IInv, TreeIsTree, IsDF
<1>7. FidsAreUnique'
  BY <1>1, <1>3, <1>4 DEF IInv, FidsAreUnique
<1> QED BY <1>1, <1>5, <1>6, <1>7 DEF IInv, IsDF, NamesAreKnown

\* Files appended to a DF of the card.
LEMMA AppendInv ==
  ASSUME IInv, NEW n \in 1 .. 2, NEW as, NEW d \in MF .. made, IsDF(d), Appended(d, as, n)
  PROVE  IInv'
<1>0. AppendedResult(d, n)
  BY AppendedFacts
<1>1. made \in Nat /\ made' = made + n /\ made' \in Files /\ MF .. made \subseteq Files
      /\ New(n) \subseteq Files /\ d \in Files /\ d \notin New(n)
  BY <1>0, FilesAssumption DEF AppendedResult, New, IInv, TypeOK, Files, MF
<1>2. TypeOK'
  <2>1. attr' \in [Files -> Descriptions]
    BY <1>0, <1>1 DEF AppendedResult, Appended, Added, IInv, TypeOK
  <2>2. parent' \in [Files -> Files \cup {None}]
    BY <1>1 DEF Appended, Added, IInv, TypeOK
  <2>3. content' \in [Files -> SUBSET Files]
    BY <1>1 DEF Appended, Added, IInv, TypeOK
  <2>4. named' \subseteq MF .. made'
    <3>1. New(n) \subseteq MF .. made'
      BY <1>0, <1>1 DEF AppendedResult, MF
    <3>2. named \subseteq MF .. made'
      BY <1>0 DEF AppendedResult, IInv, TypeOK
    <3> QED BY <1>0, <3>1, <3>2 DEF AppendedResult
  <2>5. current' \in MF .. made' /\ alive' \in BOOLEAN
    BY <1>1 DEF Appended, Added, IInv, TypeOK, MF
  <2> QED BY <1>1, <2>1, <2>2, <2>3, <2>4, <2>5 DEF TypeOK
<1>3. \A f \in MF .. made : attr'[f] = attr[f] /\ parent'[f] = parent[f]
  BY <1>0, <1>1 DEF AppendedResult
<1>4. IsDF(MF)'
  BY <1>1, <1>3 DEF IInv, IsDF, MF
<1>5. TreeIsTree'
  <2>1. parent'[MF] = None
    BY <1>1, <1>3 DEF IInv, TreeIsTree, MF
  <2>2. ASSUME NEW f \in MF + 1 .. made'
        PROVE  parent'[f] \in MF .. f - 1 /\ IsDF(parent[f])'
    <3>1. CASE f \in New(n)
      <4>1. parent'[f] = d /\ d \in MF .. f - 1
        BY <1>0, <1>1, <3>1 DEF AppendedResult, MF, New
      <4> QED BY <1>3, <4>1 DEF IsDF
    <3>2. CASE f \notin New(n)
      <4>1. f \in MF + 1 .. made
        BY <1>1, <2>2, <3>2 DEF MF, New
      <4>2. parent[f] \in MF .. f - 1 /\ IsDF(parent[f]) /\ parent'[f] = parent[f]
        BY <1>1, <1>3, <4>1 DEF IInv, TreeIsTree, MF
      <4>3. parent[f] \in MF .. made
        BY <1>1, <4>1, <4>2 DEF MF
      <4> QED BY <1>3, <4>2, <4>3 DEF IsDF
    <3> QED BY <3>1, <3>2
  <2>3. ASSUME NEW e \in Files, NEW f \in content'[e]
        PROVE  f \in MF + 1 .. made' /\ parent'[f] = e
    <3>1. CASE e = d /\ f \in New(n)
      BY <1>0, <3>1 DEF AppendedResult
    <3>2. CASE f \in content[e]
      BY <1>1, <1>3, <3>2 DEF IInv, TreeIsTree, MF
    <3> QED BY <1>0, <2>3, <3>1, <3>2 DEF AppendedResult
  <2> QED BY <2>1, <2>2, <2>3 DEF TreeIsTree
<1>6. FidsAreUnique'
  <2> SUFFICES ASSUME NEW e \in MF .. made', NEW f \in content'[e]
               PROVE  /\ attr'[f].fid \notin {attr'[e].fid, MFid}
                      /\ \A g \in content'[e] \ {f} : ~Clash(attr'[f], attr'[g])
    BY DEF FidsAreUnique, Clash, Same
  <2>1. \A c \in Files : \A h \in content[c] : h \in MF .. made /\ c \in MF .. made
    BY <1>1 DEF IInv, TreeIsTree, MF
  <2>2. e \in Files
    BY <1>1, FilesAssumption DEF Files, MF
  <2>3. CASE e # d
    <3>1. content'[e] = content[e] /\ e \in MF .. made
      BY <1>0, <2>1, <2>2, <2>3 DEF AppendedResult
    <3>2. \A h \in content[e] : attr'[h] = attr[h]
      BY <1>3, <2>1, <2>2
    <3>3. attr'[e] = attr[e]
      BY <1>3, <3>1
    <3> QED BY <3>1, <3>2, <3>3 DEF IInv, FidsAreUnique
  <2>4. CASE e = d
    <3>1. content'[e] = content[e] \cup New(n) /\ attr'[e] = attr[e]
      BY <1>0, <1>3, <2>4 DEF AppendedResult
    <3>2. \A h \in content[e] : attr'[h] = attr[h]
      BY <1>3, <2>1, <2>2
    <3>3. \A a, b : Clash(a, b) => Clash(b, a)
      BY DEF Clash, Same
    <3>4. \A h \in New(n) : /\ attr'[h].fid \notin {attr[e].fid, MFid}
                            /\ \A g \in content[e] : ~Clash(attr'[h], attr'[g])
      BY <1>0, <2>4, <3>2 DEF AppendedResult
    <3>5. \A h, g \in New(n) : h # g => ~Clash(attr'[h], attr'[g])
      BY <1>0 DEF AppendedResult
    <3>6. \A h \in content[e] :
             /\ attr'[h].fid \notin {attr[e].fid, MFid}
             /\ \A g \in content[e] \ {h} : ~Clash(attr'[h], attr'[g])
      BY <2>4, <3>2 DEF IInv, FidsAreUnique
    <3> QED BY <3>1, <3>3, <3>4, <3>5, <3>6, Zenon
  <2> QED BY <2>3, <2>4
<1>7. NamesAreKnown'
  <2>1. named \subseteq MF .. made
    BY DEF IInv, TypeOK
  <2>2. \A g \in named : attr'[g] = attr[g] /\ attr[g].name # None
    BY <1>3, <2>1 DEF IInv, NamesAreKnown
  <2>3. ASSUME NEW f \in named', NEW g \in named', attr'[f].name = attr'[g].name
        PROVE  f = g
    <3>1. \A h \in named' : h \in named \/ (h \in New(n) /\ attr'[h].name # None)
      BY <1>0 DEF AppendedResult
    <3>2. \A h \in New(n) : attr'[h].name # None =>
            \A k \in named : attr'[h].name # attr'[k].name
      BY <1>0, <2>2 DEF AppendedResult, Same
    <3>3. \A h, k \in New(n) : attr'[h].name # None /\ attr'[h].name = attr'[k].name => h = k
      BY <1>0 DEF AppendedResult, Same
    <3>4. \A h, k \in named : attr'[h].name = attr'[k].name => h = k
      BY <2>2 DEF IInv, NamesAreKnown
    <3> QED BY <2>3, <3>1, <3>2, <3>3, <3>4, Zenon
  <2>4. ASSUME NEW f \in MF .. made'
        PROVE  f \in named' <=> attr'[f].name # None
    <3>1. CASE f \in New(n)
      BY <1>0, <2>1, <3>1 DEF AppendedResult
    <3>2. CASE f \in MF .. made
      BY <1>0, <1>3, <3>2 DEF AppendedResult, IInv, NamesAreKnown
    <3> QED BY <1>0, <3>1, <3>2 DEF AppendedResult
  <2> QED BY <2>3, <2>4 DEF NamesAreKnown
<1> QED BY <1>2, <1>4, <1>5, <1>6, <1>7 DEF IInv

\* Every step preserves the invariant.
LEMMA NextInv == IInv /\ [Next]_vars => IInv'
<1> SUFFICES ASSUME IInv, [Next]_vars PROVE IInv'
  OBVIOUS
<1>1. CASE UNCHANGED vars
  BY <1>1, SelectInv
<1>2. CASE Next
  <2>1. CASE Die \/ \E f \in MF .. made : Select(f)
    BY <2>1, SelectInv
  <2>2. ASSUME NEW f \in MF .. made, Deleted(f) PROVE IInv'
    BY <2>2, DeleteInv
  <2>3. ASSUME NEW n \in 1 .. 2, NEW as, Appended(CurrentDF, as, n) PROVE IInv'
    <3>1. CurrentDF \in MF .. made /\ IsDF(CurrentDF)
      BY CurrentDFIsDF DEF IInv
    <3> QED BY <2>3, <3>1, AppendInv
  <2> QED BY <1>2, <2>1, <2>2, <2>3, StepKinds
<1> QED BY <1>1, <1>2

\* The invariant holds in every reachable state.
THEOREM Invariance == Spec => []IInv
<1> QED BY InitInv, NextInv, PTL DEF Spec

\* The files, their attributes and the current file keep their types: whatever
\* the command, the current file is one that was created (selectFile).
THEOREM TypesHold == Spec => []TypeOK
<1>1. IInv => TypeOK
  BY DEF IInv
<1> QED BY <1>1, Invariance, PTL

\* Contents and parents tell one tree without cycles (append, deleteFile).
THEOREM FilesFormATree == Spec => []TreeIsTree
<1>1. IInv => TreeIsTree
  BY DEF IInv
<1> QED BY <1>1, Invariance, PTL

\* In every DF an identifier means one file, whatever was created and deleted
\* before, two files in a command included (DF.append).
THEOREM IdentifiersAreUnique == Spec => []FidsAreUnique
<1>1. IInv => FidsAreUnique
  BY DEF IInv
<1> QED BY <1>1, Invariance, PTL

\* A name means one DF of the card, and each named DF is listed (named_dfs).
THEOREM NamesAreUnique == Spec => []NamesAreKnown
<1>1. IInv => NamesAreKnown
  BY DEF IInv
<1> QED BY <1>1, Invariance, PTL

-----------------------------------------------------------------------------
(* The least-number principle, for sets of numbers, and what it gives.     *)

NatLess == {ss \in Nat \X Nat : ss[1] < ss[2]}

LEMMA Least == ASSUME NEW S, S \subseteq Nat, S # {} PROVE \E m \in S : \A n \in S : m <= n
<1>1. IsWellFoundedOn(NatLess, Nat)
  <2>1. OpToRel(<, Nat) = NatLess
    BY DEF OpToRel, NatLess
  <2>. QED
    BY <2>1, NatLessThanWellFounded, Zenon
<1>2. PICK m \in S : \A n \in S : ~(<<n, m>> \in NatLess)
  BY <1>1, WFMin
<1>3. \A n \in S : ~(n < m)
  BY <1>2 DEF NatLess
<1>. QED
  BY <1>3

\* A function can be defined on 0 .. n from its values at smaller numbers: at 0
\* it is a, and at i what step makes of i and its value at up[i].
Descends(n, up) == n \in Nat /\ \A i \in 1 .. n : up[i] \in 0 .. i - 1
Steps(n, A, a, step) == a \in A /\ \A i \in 1 .. n : \A x \in A : step[i][x] \in A
Recurs(g, n, A, a, up, step) ==
  g \in [0 .. n -> A] /\ g[0] = a /\ \A i \in 1 .. n : g[i] = step[i][g[up[i]]]

LEMMA RecursionExists ==
  ASSUME NEW n, NEW A, NEW a, NEW up, NEW step, Descends(n, up), Steps(n, A, a, step)
  PROVE  \E g : Recurs(g, n, A, a, up, step)
<1> USE DEF Descends, Steps, Recurs
<1> DEFINE Good(g, m) == Recurs(g, m, A, a, up, step)
           Bad == {m \in 0 .. n : ~\E g : Good(g, m)}
<1>1. SUFFICES Bad = {}
  <2>1. n \in 0 .. n
    OBVIOUS
  <2>2. \E g : Good(g, n)
    BY <1>1, <2>1
  <2>. QED
    BY <2>2
<1>2. SUFFICES ASSUME Bad # {} PROVE FALSE
  OBVIOUS
<1>3. PICK m \in Bad : \A k \in Bad : m <= k
  <2>1. Bad \subseteq Nat
    OBVIOUS
  <2>. HIDE DEF Bad
  <2>. QED
    BY <1>2, <2>1, Least
<1>4. m \in 0 .. n /\ ~\E g : Good(g, m)
  BY <1>3
<1>5. CASE m = 0
  <2>1. [i \in 0 .. 0 |-> a] \in [0 .. 0 -> A] /\ [i \in 0 .. 0 |-> a][0] = a
    OBVIOUS
  <2>2. Good([i \in 0 .. 0 |-> a], 0)
    BY <2>1
  <2>. QED
    BY <1>4, <1>5, <2>2
<1>6. CASE m # 0
  <2>1. m - 1 \in 0 .. n /\ ~(m <= m - 1) /\ m \in 1 .. n
    BY <1>4, <1>6
  <2>2. PICK g : Good(g, m - 1)
    <3>1. m - 1 \notin Bad
      BY <1>3, <2>1
    <3>. QED
      BY <2>1, <3>1
  <2>3. up[m] \in 0 .. m - 1
    BY <2>1
  <2>4. step[m][g[up[m]]] \in A
    BY <2>1, <2>2, <2>3
  <2>5. PICK h : h = [i \in 0 .. m |-> IF i = m THEN step[m][g[up[m]]] ELSE g[i]]
    OBVIOUS
  <2>6. h \in [0 .. m -> A] /\ h[0] = a
    <3>1. \A i \in 0 .. m : i # m => i \in 0 .. m - 1
      BY <1>4
    <3>2. 0 \in 0 .. m
      BY <1>4
    <3>. QED
      BY <1>6, <2>2, <2>4, <2>5, <3>1, <3>2
  <2>7. ASSUME NEW i \in 1 .. m PROVE h[i] = step[i][h[up[i]]]
    <3>1. up[i] \in 0 .. i - 1 /\ i \in 1 .. n
      BY <2>1
    <3>2. up[i] \in 0 .. m /\ up[i] # m /\ i \in 0 .. m
      BY <2>1, <3>1
    <3>3. h[up[i]] = g[up[i]]
      BY <2>5, <3>2
    <3>4. CASE i = m
      BY <2>5, <3>2, <3>3, <3>4
    <3>5. CASE i # m
      <4>1. i \in 1 .. m - 1
        BY <2>1, <3>5
      <4>2. g[i] = step[i][g[up[i]]] /\ h[i] = g[i]
        BY <2>2, <2>5, <3>2, <3>5, <4>1
      <4>. QED
        BY <3>3, <4>2
    <3>. QED
      BY <3>4, <3>5
  <2>. QED
    BY <1>4, <2>6, <2>7
<1>. QED
  BY <1>5, <1>6

-----------------------------------------------------------------------------
(* What the recursive definitions compute.                                 *)

\* The oldest of some files.
LEMMA FirstFound ==
  ASSUME NEW S, S \subseteq Nat
  PROVE  /\ S = {} => First(S) = None
         /\ S # {} => First(S) \in S
         /\ \A f : S = {f} => First(S) = f
<1>1. S # {} => First(S) \in S
  <2>1. ASSUME S # {} PROVE \E m \in S : \A n \in S : m <= n
    BY <2>1, Least
  <2>. QED
    BY <2>1 DEF First
<1>2. S = {} => First(S) = None
  BY DEF First
<1>3. ASSUME NEW f, S = {f} PROVE First(S) = f
  BY <1>1, <1>3
<1>. QED
  BY <1>1, <1>2, <1>3

\* getpath, as it is written down.
LEMMA PathOfIs ==
  ASSUME TypeOK, TreeIsTree
  PROVE  /\ PathOf \in [MF .. made -> Seq(Fids)] /\ PathOf[MF] = <<>>
         /\ \A f \in MF + 1 .. made : PathOf[f] = Append(PathOf[parent[f]], attr[f].fid)
<1> DEFINE is(g) == g = [f \in MF .. made |-> IF f = MF THEN <<>> ELSE Append(g[parent[f]], attr[f].fid)]
<1>1. Descends(made, parent) /\ \A f \in 1 .. made : attr[f].fid \in Fids
  BY FilesAssumption DEF TypeOK, TreeIsTree, Files, MF, Descriptions, Descends
<1>2. PICK step : step = [f \in 1 .. made |-> [p \in Seq(Fids) |-> Append(p, attr[f].fid)]]
  OBVIOUS
<1>3. Steps(made, Seq(Fids), <<>>, step)
  BY <1>1, <1>2 DEF Steps
<1>4. PICK g : Recurs(g, made, Seq(Fids), <<>>, parent, step)
  BY <1>1, <1>3, RecursionExists
<1>5. is(g)
  <2>1. ASSUME NEW f \in 1 .. made PROVE g[f] = Append(g[parent[f]], attr[f].fid)
    <3>1. parent[f] \in 0 .. made
      BY <1>1 DEF Descends
    <3>2. g[parent[f]] \in Seq(Fids) /\ g[f] = step[f][g[parent[f]]]
      BY <1>4, <3>1 DEF Recurs
    <3>. QED
      BY <1>2, <3>2
  <2>2. \A f \in MF .. made : g[f] = IF f = MF THEN <<>> ELSE Append(g[parent[f]], attr[f].fid)
    BY <1>1, <1>4, <2>1 DEF MF, Recurs, Descends
  <2>. QED
    BY <1>4, <2>2 DEF MF, Recurs
<1>6. is(PathOf)
  <2>1. PathOf = CHOOSE h : is(h)
    BY DEF PathOf
  <2>. QED
    BY <1>5, <2>1
<1>7. /\ PathOf[0] = <<>>
      /\ \A f \in 1 .. made : PathOf[f] = Append(PathOf[parent[f]], attr[f].fid)
  <2>1. ASSUME NEW f \in 0 .. made
        PROVE  PathOf[f] = IF f = 0 THEN <<>> ELSE Append(PathOf[parent[f]], attr[f].fid)
    BY <1>6 DEF MF
  <2>2. 0 \in 0 .. made /\ \A f \in 1 .. made : f \in 0 .. made /\ f # 0
    BY <1>1 DEF Descends
  <2>. QED
    BY <2>1, <2>2
<1>8. \A f \in 0 .. made : PathOf[f] \in Seq(Fids)
  <2> DEFINE Bad == {f \in 0 .. made : PathOf[f] \notin Seq(Fids)}
  <2> SUFFICES ASSUME Bad # {} PROVE FALSE
    OBVIOUS
  <2>1. PICK f \in Bad : \A e \in Bad : f <= e
    <3>1. Bad \subseteq Nat
      OBVIOUS
    <3>. HIDE DEF Bad
    <3>. QED
      BY <3>1, Least
  <2>2. f \in 0 .. made /\ PathOf[f] \notin Seq(Fids) /\ f # 0
    <3>1. <<>> \in Seq(Fids)
      OBVIOUS
    <3>2. f \in 0 .. made /\ PathOf[f] \notin Seq(Fids)
      BY <2>1
    <3>. QED
      BY <1>7, <3>1, <3>2
  <2>3. f \in 1 .. made /\ parent[f] \in 0 .. made /\ ~(f <= parent[f])
    BY <1>1, <2>1, <2>2 DEF Descends
  <2>4. PathOf[parent[f]] \in Seq(Fids)
    BY <2>1, <2>3
  <2>5. PathOf[f] = Append(PathOf[parent[f]], attr[f].fid) /\ attr[f].fid \in Fids
    BY <1>1, <1>7, <2>3
  <2>. QED
    BY <2>2, <2>4, <2>5
<1>9. MF = 0 /\ MF + 1 .. made = 1 .. made
  BY DEF MF
<1>10. PathOf \in [0 .. made -> Seq(Fids)]
  BY <1>6, <1>8 DEF MF
<1>. HIDE DEF is
<1>. QED
  BY <1>7, <1>9, <1>10

\* A file is in the tree when it and the DFs above it are where they were created.
LEMMA AttachedIs ==
  ASSUME TypeOK, TreeIsTree
  PROVE  \A f \in MF + 1 .. made : Attached[f] => f \in content[parent[f]] /\ Attached[parent[f]]
<1> DEFINE is(g) == g = [f \in MF .. made |-> f = MF \/ (f \in content[parent[f]] /\ g[parent[f]])]
<1>1. Descends(made, parent)
  BY FilesAssumption DEF TypeOK, TreeIsTree, Files, MF, Descends
<1>2. PICK step : step = [f \in 1 .. made |-> [b \in BOOLEAN |-> f \in content[parent[f]] /\ b]]
  OBVIOUS
<1>3. Steps(made, BOOLEAN, TRUE, step)
  BY <1>2 DEF Steps
<1>4. PICK g : Recurs(g, made, BOOLEAN, TRUE, parent, step)
  BY <1>1, <1>3, RecursionExists
<1>5. is(g)
  <2>1. ASSUME NEW f \in 1 .. made PROVE g[f] = (f \in content[parent[f]] /\ g[parent[f]])
    <3>1. parent[f] \in 0 .. made
      BY <1>1 DEF Descends
    <3>2. g[parent[f]] \in BOOLEAN /\ g[f] = step[f][g[parent[f]]]
      BY <1>4, <3>1 DEF Recurs
    <3>. QED
      BY <1>2, <3>2
  <2>2. \A f \in MF .. made : g[f] = (f = MF \/ (f \in content[parent[f]] /\ g[parent[f]]))
    BY <1>1, <1>4, <2>1 DEF MF, Recurs, Descends
  <2>. QED
    BY <1>4, <2>2 DEF MF, Recurs
<1>6. is(Attached)
  <2>1. Attached = CHOOSE h : is(h)
    BY DEF Attached
  <2>. QED
    BY <1>5, <2>1
<1>7. ASSUME NEW f \in 1 .. made
      PROVE  Attached[f] = (f = 0 \/ (f \in content[parent[f]] /\ Attached[parent[f]]))
  <2>1. f \in 0 .. made
    OBVIOUS
  <2>. QED
    BY <1>6, <2>1 DEF MF
<1>8. \A f \in 1 .. made : f # 0
  OBVIOUS
<1>9. MF + 1 .. made = 1 .. made
  BY DEF MF
<1>. HIDE DEF is
<1>. QED
  BY <1>7, <1>8, <1>9

\* walk goes on from where the path before its last identifier leads.
GoesTo(f, x) == IF f # None /\ IsDF(f) THEN ByFid(f, x) ELSE None

LEMMA WalkIs ==
  ASSUME TypeOK, NEW start \in MF .. made, NEW path \in Seq(Fids)
  PROVE  \E at : /\ Walk(start, path) = at[Len(path)]
                 /\ at = [i \in 0 .. Len(path) |-> IF i = 0 THEN start ELSE GoesTo(at[i - 1], path[i])]
<1> DEFINE is(g) == g = [i \in 0 .. Len(path) |->
                          IF i = 0 THEN start
                          ELSE IF g[i - 1] # None /\ IsDF(g[i - 1]) THEN ByFid(g[i - 1], path[i]) ELSE None]
<1>0. PICK A : A = Files \cup {None}
  OBVIOUS
<1>1. PICK n \in Nat : n = Len(path)
  OBVIOUS
<1>2. ASSUME NEW f \in A, NEW x PROVE GoesTo(f, x) \in A
  <2>1. CASE f # None
    <3>1. f \in Files /\ {g \in content[f] : attr[g].fid = x} \subseteq Files
      BY <1>0, <2>1 DEF TypeOK
    <3>2. {g \in content[f] : attr[g].fid = x} \subseteq Nat
      BY <3>1, FilesAssumption DEF Files
    <3>3. ByFid(f, x) \in A
      BY <1>0, <3>1, <3>2, FirstFound DEF ByFid
    <3>. QED
      BY <1>0, <3>3 DEF GoesTo
  <2>2. CASE f = None
    BY <1>0, <2>2 DEF GoesTo
  <2>. QED
    BY <2>1, <2>2
<1>3. PICK step : step = [i \in 1 .. n |-> [f \in A |-> GoesTo(f, path[i])]]
  OBVIOUS
<1>4. Steps(n, A, start, step)
  BY <1>0, <1>2, <1>3, FilesAssumption DEF Steps, TypeOK, Files, MF
<1>5. PICK up : up = [i \in 1 .. n |-> i - 1]
  OBVIOUS
<1>6. PICK g : Recurs(g, n, A, start, up, step)
  <2>1. Descends(n, up)
    BY <1>5 DEF Descends
  <2>. QED
    BY <1>4, <2>1, RecursionExists
<1>7. \A i \in 1 .. n : g[i] = GoesTo(g[i - 1], path[i])
  <2>1. ASSUME NEW i \in 1 .. n PROVE g[i] = GoesTo(g[i - 1], path[i])
    <3>1. i - 1 \in 0 .. n /\ up[i] = i - 1
      BY <1>5
    <3>2. g[i - 1] \in A /\ g[i] = step[i][g[i - 1]]
      BY <1>6, <3>1 DEF Recurs
    <3>. QED
      BY <1>3, <3>2
  <2>. QED
    BY <2>1
<1>8. is(g)
  <2>1. g \in [0 .. Len(path) -> A] /\ g[0] = start
    BY <1>1, <1>6 DEF Recurs
  <2>2. ASSUME NEW i \in 0 .. Len(path)
        PROVE  g[i] = IF i = 0 THEN start
                      ELSE IF g[i - 1] # None /\ IsDF(g[i - 1]) THEN ByFid(g[i - 1], path[i]) ELSE None
    <3>1. CASE i = 0
      BY <2>1, <3>1
    <3>2. CASE i # 0
      <4>1. i \in 1 .. n
        BY <1>1, <3>2
      <4>2. g[i] = GoesTo(g[i - 1], path[i])
        BY <1>7, <4>1
      <4>. QED
        BY <3>2, <4>2 DEF GoesTo
    <3>. QED
      BY <3>1, <3>2
  <2>. QED
    BY <2>1, <2>2
<1>9. PICK at : at = CHOOSE h : is(h)
  OBVIOUS
<1>10. is(at)
  <2>. HIDE DEF is
  <2>. QED
    BY <1>8, <1>9
<1>11. Walk(start, path) = at[Len(path)]
  BY <1>9 DEF Walk
<1>. QED
  BY <1>10, <1>11 DEF GoesTo


LEMMA WalkOfNothing ==
  ASSUME TypeOK, NEW start \in MF .. made PROVE Walk(start, <<>>) = start
<1>1. <<>> \in Seq(Fids) /\ Len(<<>>) = 0
  OBVIOUS
<1>2. PICK path : path = <<>>
  OBVIOUS
<1>3. path \in Seq(Fids) /\ Len(path) = 0
  BY <1>1, <1>2
<1>4. PICK at : /\ Walk(start, path) = at[Len(path)]
                /\ at = [i \in 0 .. Len(path) |-> IF i = 0 THEN start ELSE GoesTo(at[i - 1], path[i])]
  BY <1>3, WalkIs
<1>5. at[0] = start
  BY <1>3, <1>4
<1>. QED
  BY <1>2, <1>3, <1>4, <1>5

LEMMA WalkGoesOn ==
  ASSUME TypeOK, NEW start \in MF .. made, NEW path \in Seq(Fids), NEW x \in Fids
  PROVE  Walk(start, Append(path, x)) = GoesTo(Walk(start, path), x)
<1>1. PICK n \in Nat : n = Len(path)
  OBVIOUS
<1>2. PICK longer : longer = Append(path, x)
  OBVIOUS
<1>3. /\ longer \in Seq(Fids) /\ Len(longer) = n + 1 /\ longer[n + 1] = x
      /\ \A i \in 1 .. n : longer[i] = path[i]
  BY <1>1, <1>2
<1>4. PICK a : /\ Walk(start, path) = a[Len(path)]
               /\ a = [i \in 0 .. Len(path) |-> IF i = 0 THEN start ELSE GoesTo(a[i - 1], path[i])]
  BY WalkIs
<1>5. PICK b : /\ Walk(start, longer) = b[Len(longer)]
               /\ b = [i \in 0 .. Len(longer) |-> IF i = 0 THEN start ELSE GoesTo(b[i - 1], longer[i])]
  BY <1>3, WalkIs
<1>6. a[0] = start /\ \A i \in 1 .. n : a[i] = GoesTo(a[i - 1], path[i])
  <2>1. ASSUME NEW i \in 0 .. n PROVE a[i] = IF i = 0 THEN start ELSE GoesTo(a[i - 1], path[i])
    BY <1>1, <1>4
  <2>2. 0 \in 0 .. n /\ \A i \in 1 .. n : i \in 0 .. n /\ i # 0
    OBVIOUS
  <2>. QED
    BY <2>1, <2>2
<1>7. b[0] = start /\ \A i \in 1 .. n + 1 : b[i] = GoesTo(b[i - 1], longer[i])
  <2>1. ASSUME NEW i \in 0 .. n + 1 PROVE b[i] = IF i = 0 THEN start ELSE GoesTo(b[i - 1], longer[i])
    BY <1>3, <1>5
  <2>2. 0 \in 0 .. n + 1 /\ \A i \in 1 .. n + 1 : i \in 0 .. n + 1 /\ i # 0
    OBVIOUS
  <2>. QED
    BY <2>1, <2>2
<1>8. \A i \in 0 .. n : a[i] = b[i]
  <2> DEFINE Bad == {i \in 0 .. n : a[i] # b[i]}
  <2> SUFFICES ASSUME Bad # {} PROVE FALSE
    OBVIOUS
  <2>1. PICK i \in Bad : \A j \in Bad : i <= j
    <3>1. Bad \subseteq Nat
      OBVIOUS
    <3>. HIDE DEF Bad
    <3>. QED
      BY <3>1, Least
  <2>2. i \in 0 .. n /\ a[i] # b[i] /\ i # 0
    BY <1>6, <1>7, <2>1
  <2>3. i \in 1 .. n /\ i \in 1 .. n + 1 /\ i - 1 \in 0 .. n /\ ~(i <= i - 1)
    BY <2>2
  <2>4. a[i - 1] = b[i - 1]
    BY <2>1, <2>3
  <2>5. a[i] = GoesTo(a[i - 1], path[i]) /\ b[i] = GoesTo(b[i - 1], longer[i]) /\ longer[i] = path[i]
    BY <1>3, <1>6, <1>7, <2>3
  <2>. QED
    BY <2>2, <2>4, <2>5
<1>9. b[n + 1] = GoesTo(b[n], longer[n + 1])
  <2>1. n + 1 \in 1 .. n + 1 /\ (n + 1) - 1 = n
    OBVIOUS
  <2>. QED
    BY <1>7, <2>1
<1>10. a[n] = b[n]
  BY <1>8
<1>11. Walk(start, path) = a[n] /\ Walk(start, longer) = b[n + 1]
  BY <1>1, <1>3, <1>4, <1>5
<1>12. Walk(start, longer) = GoesTo(Walk(start, path), x)
  BY <1>3, <1>9, <1>10, <1>11
<1>. QED
  BY <1>2, <1>12

\* In a DF an identifier leads to the one file that has it.
LEMMA ByFidFinds ==
  ASSUME IInv, NEW d \in MF .. made, NEW f \in content[d]
  PROVE  ByFid(d, attr[f].fid) = f
<1>1. d \in Files /\ content[d] \subseteq Files /\ Files \subseteq Nat
  BY FilesAssumption DEF IInv, TypeOK, Files, MF
<1>2. {g \in content[d] : attr[g].fid = attr[f].fid} = {f}
  <2>1. ASSUME NEW g \in content[d], attr[g].fid = attr[f].fid PROVE g = f
    BY <2>1 DEF IInv, FidsAreUnique, Clash
  <2>. QED
    BY <2>1
<1>3. {g \in content[d] : attr[g].fid = attr[f].fid} \subseteq Nat
  BY <1>1
<1>. QED
  BY <1>2, <1>3, FirstFound DEF ByFid

LEMMA PathsLeadBack == IInv => PathLeadsBack
<1> SUFFICES ASSUME IInv, NEW x \in MF .. made, Attached[x], Walk(MF, PathOf[x]) # x PROVE FALSE
  BY DEF PathLeadsBack
<1> DEFINE Bad == {f \in 0 .. made : Attached[f] /\ Walk(MF, PathOf[f]) # f}
<1>0. TypeOK /\ TreeIsTree /\ made \in Nat /\ MF = 0
  BY FilesAssumption DEF IInv, TypeOK, Files, MF
<1>1. PICK f \in Bad : \A e \in Bad : f <= e
  <2>1. x \in Bad
    BY <1>0
  <2>2. Bad \subseteq Nat
    OBVIOUS
  <2>. HIDE DEF Bad
  <2>. QED
    BY <2>1, <2>2, Least
<1>2. f \in 0 .. made /\ Attached[f] /\ Walk(MF, PathOf[f]) # f
  BY <1>1
<1>3. f # 0
  <2>1. PathOf[0] = <<>> /\ Walk(0, <<>>) = 0
    BY <1>0, PathOfIs, WalkOfNothing
  <2>. QED
    BY <1>0, <1>2, <2>1
<1>4. f \in MF + 1 .. made
  BY <1>0, <1>2, <1>3
<1>5. PICK d : d = parent[f]
  OBVIOUS
<1>6. d \in 0 .. made /\ ~(f <= d) /\ IsDF(d)
  <2>1. d \in MF .. f - 1 /\ IsDF(d)
    BY <1>0, <1>4, <1>5 DEF TreeIsTree
  <2>. QED
    BY <1>0, <1>2, <2>1
<1>7. f \in content[d] /\ Attached[d]
  BY <1>0, <1>2, <1>4, <1>5, AttachedIs
<1>8. Walk(MF, PathOf[d]) = d
  BY <1>1, <1>6, <1>7
<1>9. PathOf[f] = Append(PathOf[d], attr[f].fid) /\ PathOf[d] \in Seq(Fids) /\ attr[f].fid \in Fids
  <2>1. attr[f].fid \in Fids
    <3>1. f \in Files
      BY <1>0, <1>2, FilesAssumption DEF TypeOK, Files, MF
    <3>2. attr[f] \in Descriptions
      BY <1>0, <3>1 DEF TypeOK
    <3>. QED
      BY <3>2 DEF Descriptions
  <2>. QED
    BY <1>0, <1>4, <1>5, <1>6, <2>1, PathOfIs
<1>10. Walk(MF, PathOf[f]) = GoesTo(d, attr[f].fid)
  <2>1. MF \in MF .. made
    BY <1>0
  <2>2. Walk(MF, Append(PathOf[d], attr[f].fid)) = GoesTo(Walk(MF, PathOf[d]), attr[f].fid)
    BY <1>0, <1>9, <2>1, WalkGoesOn
  <2>. QED
    BY <1>8, <1>9, <2>2
<1>11. d # None
  BY <1>0, <1>6, FilesAssumption DEF TypeOK, Files, MF
<1>12. GoesTo(d, attr[f].fid) = f
  BY <1>0, <1>6, <1>7, <1>11, ByFidFinds DEF GoesTo
<1>. QED
  BY <1>2, <1>10, <1>12

\* The path of a file that is in the tree leads to this file, however deep it is
\* and whatever was created and deleted before (getpath, walk).
THEOREM PathsLeadToTheirFile == Spec => []PathLeadsBack
<1> QED BY PathsLeadBack, Invariance, PTL
=============================================================================
