----------------------------- MODULE CardFiles -----------------------------
(***************************************************************************)
(* The file tree of the emulated ISO 7816 card (SmartcardFilesystem.py):   *)
(* which files there are, which of them is current, and what a command     *)
(* that selects, creates or deletes files does to them.  The bytes and     *)
(* records inside a file are left out; a command on data is represented by *)
(* the selection it makes on its way.  A command that the code refuses     *)
(* with a status word before it has changed anything is no step.           *)
(*                                                                         *)
(* Files are numbered in the order they were created, which is also the    *)
(* order of every list they are appended to; the master file is 0.         *)
(***************************************************************************)
EXTENDS Integers, FiniteSets, Sequences

CONSTANTS
  MaxFiles,     \* bound: files ever created
  Fcps,         \* the file control parameters CREATE FILE is given
  Paths,        \* sequences of file identifiers SELECT and DELETE are given
  Names,        \* DF names, and what SELECT by name is given
  StartsWith,   \* bytes.startswith: the names each name starts with
  Octets,       \* P1-P2 of the other commands, as pairs of octets
  None

MFid     == 16128       \* FID["MF"], 3F00
Reserved == 16383       \* FID["RESERVED"] and FID["PATHSELECTION"], 3FFF
Fids     == 256 .. 65535
Shorts   == 1 .. 30
Kinds    == {"df", "transparent", "record"}
Descriptions == [kind  : Kinds,
                 fid   : Fids,
                 short : Shorts \cup {None},
                 name  : Names \cup {None}]

ASSUME FilesAssumption ==
  /\ MaxFiles \in Nat
  /\ Fcps \subseteq Descriptions
  /\ None \notin Names /\ None \notin Shorts /\ None \notin 0 .. MaxFiles
  /\ StartsWith \in [Names -> SUBSET Names]
  /\ \A n \in Names : n \in StartsWith[n]

MF    == 0
Files == 0 .. MaxFiles

VARIABLES
  made,         \* the number of the last file created
  attr,         \* _fid, _shortfid, _dfname and class of each file
  parent,       \* File.parent
  content,      \* DF.content of each DF
  named,        \* MF.named_dfs
  current,      \* MF.current
  alive         \* FALSE when an exception nobody catches has ended the card

vars == <<made, attr, parent, content, named, current, alive>>

MFattr == [kind |-> "df", fid |-> MFid, short |-> None, name |-> None]

\* MF() of the generated iso7816 card.
Init == /\ made = MF
        /\ attr = [f \in Files |-> MFattr]
        /\ parent = [f \in Files |-> None]
        /\ content = [f \in Files |-> {}]
        /\ named = {}
        /\ current = MF
        /\ alive = TRUE

IsDF(f) == attr[f].kind = "df"

\* Mutant: the current file itself, whatever it is.
CurrentDFNoTest == current

\* MF.currentDF
CurrentDF == IF IsDF(current) THEN current ELSE parent[current]

\* range(0, len(list)) is searched from the front: the oldest match is taken.
First(S) == IF S = {} THEN None ELSE CHOOSE f \in S : \A g \in S : f <= g

\* DF.select by file identifier and by short identifier.
ByFid(d, x)   == First({f \in content[d] : attr[f].fid = x})
ByShort(d, x) == First({f \in content[d] : attr[f].short = x})

\* walk: an identifier below something that is no DF is not found.
Walk(start, path) ==
  LET at[i \in 0 .. Len(path)] ==
        IF i = 0 THEN start
        ELSE IF at[i - 1] # None /\ IsDF(at[i - 1]) THEN ByFid(at[i - 1], path[i])
        ELSE None
  IN at[Len(path)]

-----------------------------------------------------------------------------
Selections ==
  [by : {"file", "child DF", "child EF", "from MF", "from DF"}, path : Paths]
    \cup [by : {"parent"}]
    \cup [by : {"name"}, name : Names, ref : {"first", "next", "last", "previous"}]

\* P1 = 00: the path may begin with the MF or with the current DF itself.
ByFile(path) ==
  IF path # <<>> /\ Head(path) = MFid THEN Walk(MF, Tail(path))
  ELSE IF path # <<>> /\ Head(path) = attr[CurrentDF].fid THEN Walk(CurrentDF, Tail(path))
  ELSE Walk(CurrentDF, path)

ByChild(path, kinds) ==
  LET f == IF Len(path) = 1 THEN ByFid(CurrentDF, path[1]) ELSE None
  IN IF f # None /\ attr[f].kind \in kinds THEN f ELSE None

Before(S, f) == Cardinality({g \in S : g < f})

\* get_indexes: "next" counts on from the place the current DF has in the
\* content of the MF, in a list that is not that content.
Candidates(ref) ==
  IF ref = "next" /\ CurrentDF \in content[MF]
  THEN {f \in named : Before(named, f) > Before(content[MF], CurrentDF)}
  ELSE named

ByName(n, ref) == First({f \in Candidates(ref) : n \in StartsWith[attr[f].name]})

\* MF._selectFile: the file a selection names, or None.
Selected(s) ==
  CASE s.by = "file"     -> ByFile(s.path)
    [] s.by = "child DF" -> ByChild(s.path, {"df"})
    [] s.by = "child EF" -> ByChild(s.path, Kinds \ {"df"})
    [] s.by = "from MF"  -> Walk(MF, s.path)
    [] s.by = "from DF"  -> Walk(CurrentDF, s.path)
    [] s.by = "parent"   -> parent[current]
    [] s.by = "name"     -> ByName(s.name, s.ref)

\* range objects have no reverse(): the list of indexes cannot be turned round.
LooksBack(s) == s.by = "name" /\ s.ref \in {"last", "previous"}

Die == /\ alive' = FALSE
       /\ UNCHANGED <<made, attr, parent, content, named, current>>

\* What a lookup has found, as opposed to None.
Found(f) == f \in MF .. made

Select(f) == /\ current' = f
             /\ UNCHANGED <<made, attr, parent, content, named, alive>>

\* MF.selectFile
SelectFile(s) ==
  IF LooksBack(s) THEN Die
  ELSE Found(Selected(s)) /\ Select(Selected(s))

\* MF.deleteFile: the file leaves the content of its parent and nothing else,
\* so a DF keeps its place in named_dfs and the file may stay current.
\* list.remove raises when the file has already left, and the MF has no parent.
DeleteFile(s) ==
  LET f == Selected(s)
  IN IF LooksBack(s) THEN Die
     ELSE /\ Found(f)
          /\ IF f = MF \/ f \notin content[parent[f]] THEN Die
             ELSE /\ content' = [content EXCEPT ![parent[f]] = @ \ {f}]
                  /\ UNCHANGED <<made, attr, parent, named, current, alive>>

-----------------------------------------------------------------------------
\* MF.create: one or two sets of parameters in a command.  The arguments are
\* collected in one dictionary, so the second file inherits what the first one
\* was given and it is not.
Inherited(own, first) == IF own = None THEN first ELSE own
Arguments(n, fcps) ==
  [i \in 1 .. n |-> [fcps[i] EXCEPT !.short = Inherited(@, fcps[1].short),
                                     !.name  = Inherited(@, fcps[1].name)]]

\* A DF takes no short identifier and an EF no name: a TypeError.
Raises(a) == IF a.kind = "df" THEN a.short # None ELSE a.name # None
\* The constructors refuse reserved identifiers.
Refused(a) == a.fid = Reserved \/ (a.kind # "df" /\ a.fid = MFid)

Same(x, y)  == x # None /\ x = y
Clash(a, b) == a.fid = b.fid \/ Same(a.short, b.short)

\* Mutants of DF.append: of identifiers, short identifiers and names, one is
\* not compared.
AcceptsAnyFid(d, a, S) ==
  /\ a.fid \notin {attr[d].fid, MFid}
  /\ \A b \in S \cup {attr[g] : g \in content[d]} : ~Same(a.short, b.short)
  /\ \A b \in S \cup {attr[g] : g \in named} : ~Same(a.name, b.name)
AcceptsAnyShort(d, a, S) ==
  /\ a.fid \notin {attr[d].fid, MFid}
  /\ \A b \in S \cup {attr[g] : g \in content[d]} : a.fid # b.fid
  /\ \A b \in S \cup {attr[g] : g \in named} : ~Same(a.name, b.name)
AcceptsAnyName(d, a, S) ==
  /\ a.fid \notin {attr[d].fid, MFid}
  /\ \A b \in S \cup {attr[g] : g \in content[d]} : ~Clash(a, b)

\* DF.append for a file with attributes a, when files with the attributes in S
\* have just been appended to d.
Accepts(d, a, S) ==
  /\ a.fid \notin {attr[d].fid, MFid}
  /\ \A b \in S \cup {attr[g] : g \in content[d]} : ~Clash(a, b)
  /\ \A b \in S \cup {attr[g] : g \in named} : ~Same(a.name, b.name)

New(n) == made + 1 .. made + n

\* The first n of the files are appended to d.
Added(d, as, n) ==
  /\ made' = made + n
  /\ attr' = [f \in Files |-> IF f \in New(n) THEN as[f - made] ELSE attr[f]]
  /\ parent' = [f \in Files |-> IF f \in New(n) THEN d ELSE parent[f]]
  /\ content' = [content EXCEPT ![d] = @ \cup New(n)]
  /\ named' = named \cup {f \in New(n) : as[f - made].name # None}
  /\ current' = made + n
  /\ UNCHANGED alive

\* MF.createFile: all files are made before the first is appended, and the
\* first stays when the second is refused.
CreateFile(n, fcps) ==
  LET as == Arguments(n, fcps)
      d  == CurrentDF
  IN /\ made + n <= MaxFiles
     /\ IF Raises(as[1]) \/ (~Refused(as[1]) /\ Raises(as[n])) THEN Die
        ELSE /\ \A i \in 1 .. n : ~Refused(as[i])
             /\ Accepts(d, as[1], {})
             /\ IF n = 2 /\ Accepts(d, as[2], {as[1]})
                THEN Added(d, as, 2)
                ELSE Added(d, as, 1)

-----------------------------------------------------------------------------
\* The commands on data select on their way, before they find out that the
\* file is of another kind.  dataUnitsDecodePlain: a short identifier in P1.
BinaryPlain(x) == LET f == ByShort(CurrentDF, x)
                  IN Found(f) /\ Select(f)

\* p << n; what is longer than two octets identifies no file.
Shifted(p, n) == IF p = 0 THEN 0 ELSE IF n > 15 THEN 65536 ELSE p * 2^n

\* dataUnitsDecodeEncapsulated: p1 << 8 + p1 is p1 << (8 + p1).
BinaryEncapsulated(p) ==
  LET f == IF p[1] = 0 /\ p[2] < 32 THEN ByShort(CurrentDF, p[2])
           ELSE ByFid(CurrentDF, Shifted(p[1], 8 + p[1]))
  IN Found(f) /\ Select(f)

\* dataObjectHandlingDecodeEncapsulated: with P1-P2 = 0000 the lookup of the
\* file reference raises; p1 << 8 + p2 is p1 << (8 + p2).
DataEncapsulated(p) ==
  LET f == CASE p[1] = 0 /\ p[2] < 32 -> ByShort(CurrentDF, p[2])
             [] p = <<63, 255>>       -> CurrentDF
             [] OTHER                 -> ByFid(CurrentDF, Shifted(p[1], 8 + p[2]))
  IN IF p = <<0, 0>> THEN Die
     ELSE Found(f) /\ Select(f)

\* recordHandlingDecode: only a record file has a record pointer to reset.
Record(x) == LET f == ByShort(CurrentDF, x)
             IN /\ Found(f)
                /\ IF attr[f].kind = "record" THEN Select(f) ELSE Die

\* Iso7816OS.powerUp and reset
Reset == Select(MF)

Next ==
  /\ alive
  /\ \/ \E s \in Selections : SelectFile(s) \/ DeleteFile(s)
     \/ \E n \in 1 .. 2 : \E fcps \in [1 .. n -> Fcps] : CreateFile(n, fcps)
     \/ \E x \in Shorts : BinaryPlain(x) \/ Record(x)
     \/ \E p \in Octets : BinaryEncapsulated(p) \/ DataEncapsulated(p)
     \/ Reset

Spec == Init /\ [][Next]_vars

-----------------------------------------------------------------------------
TypeOK ==
  /\ made \in Files
  /\ attr \in [Files -> Descriptions]
  /\ parent \in [Files -> Files \cup {None}]
  /\ content \in [Files -> SUBSET Files]
  /\ named \subseteq MF .. made
  /\ current \in MF .. made
  /\ alive \in BOOLEAN

\* What a DF contains was created in it, and every file but the MF was created
\* after the DF it is in: contents and parents tell the same tree, and it has
\* no cycles (DF.append, deleteFile and a current DF that has been deleted).
TreeIsTree ==
  /\ parent[MF] = None
  /\ \A f \in MF + 1 .. made : parent[f] \in MF .. f - 1 /\ IsDF(parent[f])
  /\ \A d \in Files : \A f \in content[d] : f \in MF + 1 .. made /\ parent[f] = d

\* Within a DF a file identifier or a short identifier means one file, and
\* none has the identifier of the DF or of the MF, which paths begin with.
FidsAreUnique ==
  \A d \in MF .. made : \A f \in content[d] :
    /\ attr[f].fid \notin {attr[d].fid, MFid}
    /\ \A g \in content[d] \ {f} : ~Clash(attr[f], attr[g])

\* A name means one DF of the card, whichever DF it was created in, and the list of
\* named DFs has every one; that of a deleted DF stays in it.
NamesAreKnown ==
  /\ \A f, g \in named : attr[f].name = attr[g].name => f = g
  /\ \A f \in MF .. made : f \in named <=> attr[f].name # None

\* File.getpath without the MF
PathOf[f \in MF .. made] == IF f = MF THEN <<>> ELSE Append(PathOf[parent[f]], attr[f].fid)

Attached[f \in MF .. made] == f = MF \/ (f \in content[parent[f]] /\ Attached[parent[f]])

\* The path of a file that is in the tree leads to this file, also where
\* identifiers repeat in other DFs and where files were deleted and created
\* again (getpath, walk).
PathLeadsBack == \A f \in MF .. made : Attached[f] => Walk(MF, PathOf[f]) = f
=============================================================================
