------------------------- MODULE RemoteReadsProofs -------------------------
(***************************************************************************)
(* Proofs about RemoteReads: of an output that was cut anywhere, what is   *)
(* made of a file, of a snapshot, of the directories beside one that does  *)
(* not exist, of the entries of a directory, of a help text and of the     *)
(* names of commands.                                                      *)
(***************************************************************************)
EXTENDS RemoteReads, SequenceLemmas, FiniteSetTheorems

Marks == {"Err", "Begin", "Data", "End"}

\* What read_file_command prints of a file, as far as the encoder got with it.
Encoding(text, n) ==
  /\ text \in Seq(Marks) /\ Len(text) = n + 2
  /\ text[1] = "Begin" /\ text[n + 2] = "End"
  /\ \A i \in 2 .. n + 1 : text[i] = "Data"

FilePrinted ==
  \/ printed = <<"Err">>
  \/ /\ file[1] = "there"
     /\ \E n \in Nat : Encoding(printed, n) /\ (encoded => file = <<"there", n>>)

\* What remote_system_command prints: no field twice, each behind its key.
Keys == {"OS", "HOST", "UPTIME", "MEM", "DISK", "USED", "FREE", "TOTAL"}

FieldLines == [field : Fields, begins : Seq(Keys \cup {"="}), text : {"", "true"}]

Tells(lines) ==
  /\ lines \in Seq(FieldLines)
  /\ \A i, j \in 1 .. Len(lines) : lines[i].field = lines[j].field => i = j
  /\ \A i \in 1 .. Len(lines) : lines[i].begins = Append(lines[i].field, "=")

\* A directory holds finitely many names, each of some kind.
Directory ==
  /\ DOMAIN entries \subseteq Names /\ IsFiniteSet(DOMAIN entries)
  /\ \A n \in DOMAIN entries : entries[n] \in Kinds

\* What list_directory_command prints: each of them as what it is, or as a file
\* where it cannot tell, or none of them.
Entry == [name : Names, path : Names, dir : BOOLEAN]

Lists(lines) ==
  /\ lines \in Seq(Entry)
  /\ \A i, j \in 1 .. Len(lines) : lines[i].name = lines[j].name => i = j
  /\ \A i \in 1 .. Len(lines) :
       /\ lines[i].path = lines[i].name /\ lines[i].name \in DOMAIN entries
       /\ lines[i].dir => entries[lines[i].name] # "file"
       /\ entries[lines[i].name] = "dir" => lines[i].dir \/ access = "names"
  /\ \/ \A n \in DOMAIN entries : \E i \in 1 .. Len(lines) : lines[i].name = n
     \/ access = "none" /\ Len(lines) = 0

\* What resolve_directory_command prints of a name that is none of the directories:
\* the directories beside it.
Beside(lines) ==
  /\ lines \in Seq([name : Names, path : Names])
  /\ \A i \in 1 .. Len(lines) : lines[i].path = lines[i].name /\ lines[i].name \in Directories

\* What help_suggestions_command and command_name_suggestions_command print: lines
\* of help, and names that begin with what was typed.
HelpPrinted ==
  /\ printed \in Seq(HelpLine)
  /\ \A i \in 1 .. Len(printed) : IsHelpLine(printed[i])

NamesPrinted ==
  /\ printed \in Seq(Tokens)
  /\ \A i \in 1 .. Len(printed) : IsPrefix(requested, printed[i])

\* How much of it arrived.
Arrives ==
  /\ arrived \in 0 .. Len(printed) /\ piece \in {"none", "early", "late"}
  /\ piece # "none" => arrived < Len(printed)

\* What is asked for.
Asked ==
  /\ op = "read" => file \in {<<"missing", 0>>} \cup {"there"} \X Nat
  /\ op \in {"list", "resolve"} => Directory /\ access \in Accesses
  /\ op = "resolve" => requested \in Names
  /\ op \in {"help", "names"} => requested \in Tokens \cup {<<>>}

\* What the host prints of it.
Output ==
  /\ op = "read" => FilePrinted
  /\ op = "snapshot" => Tells(printed)
  /\ op = "list" => Lists(printed)
  /\ op = "resolve" /\ requested \notin Directories => Beside(printed)
  /\ op = "help" => HelpPrinted
  /\ op = "names" => NamesPrinted

\* What the answer to it is.
Answers ==
  ReadIsWhole /\ SnapshotIsTrue /\ ListingIsTrue /\ ResolvesUniquely /\ SuggestionsAreTrue

ReadsInv ==
  /\ Asked
  /\ phase \in {"receive", "parse"} => Output
  /\ phase = "parse" => Arrives
  /\ Answers

-----------------------------------------------------------------------------
(* Outputs that were cut                                                   *)

\* A part from the start, with or without the line after it.
LEMMA PrefixAndNext ==
  ASSUME NEW S, NEW q \in Seq(S), NEW n \in 0 .. Len(q), NEW x
  PROVE  /\ Len(SubSeq(q, 1, n)) = n /\ \A i \in 1 .. n : SubSeq(q, 1, n)[i] = q[i]
         /\ DOMAIN SubSeq(q, 1, n) = 1 .. n
         /\ SubSeq(q, 1, n) \o <<>> = SubSeq(q, 1, n)
         /\ DOMAIN (SubSeq(q, 1, n) \o <<x>>) = 1 .. n + 1
         /\ \A i \in 1 .. n : (SubSeq(q, 1, n) \o <<x>>)[i] = q[i]
         /\ (SubSeq(q, 1, n) \o <<x>>)[n + 1] = x
<1> DEFINE r == SubSeq(q, 1, n)
           T == S \cup {x}
           y == <<x>>
<1>1. Len(q) \in Nat /\ \A i \in 1 .. n : q[i] \in S
  OBVIOUS
<1>2. r \in Seq(S) /\ Len(r) = n /\ \A i \in 1 .. n : r[i] = q[i]
  BY <1>1, SubSeqProperties
<1>3. y \in Seq(T) /\ Len(y) = 1 /\ y[1] = x
  OBVIOUS
<1> HIDE DEF r, y
<1>4. r \in Seq(T) /\ r \o <<>> = r
  BY <1>2
<1> HIDE DEF T
<1>5. /\ r \o y \in Seq(T) /\ Len(r \o y) = n + 1
      /\ \A i \in 1 .. n : (r \o y)[i] = r[i]
      /\ (r \o y)[n + 1] = y[1]
  <2>1. /\ r \o y \in Seq(T) /\ Len(r \o y) = Len(r) + Len(y)
        /\ \A i \in 1 .. Len(r) + Len(y) : (r \o y)[i] = IF i <= Len(r) THEN r[i] ELSE y[i - Len(r)]
    BY <1>3, <1>4, ConcatProperties
  <2>2. n \in Nat /\ \A i \in 1 .. n : i \in 1 .. n + 1
    BY <1>1
  <2>3. n + 1 \in 1 .. n + 1 /\ (n + 1) - n = 1 /\ ~(n + 1 <= n)
    BY <2>2
  <2> QED
    BY <1>2, <1>3, <2>1, <2>2, <2>3
<1>6. DOMAIN r = 1 .. n /\ DOMAIN (r \o y) = 1 .. n + 1
  BY <1>2, <1>5
<1> QED
  BY <1>2, <1>3, <1>4, <1>5, <1>6 DEF r, y

-----------------------------------------------------------------------------
(* A file                                                                  *)

\* The command prints an encoding, of the whole file if the encoder did its work.
LEMMA PrintsFile ==
  ASSUME op = "read" => file \in {<<"missing", 0>>} \cup {"there"} \X Nat, PrintFile
  PROVE  FilePrinted'
<1>1. UNCHANGED file /\ file \in {<<"missing", 0>>} \cup {"there"} \X Nat
  BY DEF PrintFile, Prints, host
<1>2. CASE Prints(<<"Err">>, TRUE)
  BY <1>2 DEF Prints, FilePrinted
<1>3. ASSUME file[1] = "there", NEW n \in 0 .. file[2], NEW whole \in BOOLEAN,
             whole => n = file[2],
             Prints(<<"Begin">> \o [i \in 1 .. n |-> "Data"] \o <<"End">>, whole)
      PROVE  FilePrinted'
  <2> DEFINE data == [i \in 1 .. n |-> "Data"]
             text == <<"Begin">> \o data \o <<"End">>
  <2>1. printed' = text /\ encoded' = whole
    BY <1>3 DEF Prints
  <2>2. Encoding(text, n)
    <3>1. n \in Nat /\ data \in Seq(Marks) /\ Len(data) = n /\ \A i \in 1 .. n : data[i] = "Data"
      BY DEF Marks
    <3>2. <<"Begin">> \in Seq(Marks) /\ <<"End">> \in Seq(Marks)
      BY DEF Marks
    <3> HIDE DEF data
    <3> QED
      BY <3>1, <3>2 DEF Encoding
  <2> HIDE DEF text
  <2>3. n \in Nat /\ file = <<"there", file[2]>>
    BY <1>1, <1>3
  <2>4. Encoding(printed', n) /\ file'[1] = "there" /\ (encoded' => file' = <<"there", n>>)
    BY <1>1, <1>3, <2>1, <2>2, <2>3
  <2> QED
    BY <2>3, <2>4 DEF FilePrinted
<1> QED
  BY <1>2, <1>3 DEF PrintFile

\* What is returned as Ok had both marks, so that nothing of it was cut.
LEMMA ReadsFile ==
  ASSUME op = "read", FilePrinted, Arrives, Read, answer'.ok, encoded
  PROVE  file = <<"there", answer'.value>>
<1> DEFINE text == Arrived(LAMBDA line : line)
<1>1. printed \in Seq(Marks)
  <2>1. <<"Err">> \in Seq(Marks)
    BY DEF Marks
  <2> QED
    BY <2>1 DEF FilePrinted, Encoding
<1>2. PICK m \in 0 .. Len(printed) : DOMAIN text = 1 .. m /\ \A i \in 1 .. m : text[i] = printed[i]
  <2>1. arrived \in 0 .. Len(printed) /\ Len(printed) \in Nat
    BY <1>1 DEF Arrives
  <2>2. CASE piece = "late"
    <3>1. arrived + 1 \in 0 .. Len(printed)
      BY <2>1, <2>2 DEF Arrives
    <3>2. text = SubSeq(printed, 1, arrived) \o << printed[arrived + 1] >>
      BY <2>2 DEF Arrived
    <3>3. /\ DOMAIN text = 1 .. arrived + 1 /\ text[arrived + 1] = printed[arrived + 1]
          /\ \A i \in 1 .. arrived : text[i] = printed[i]
      BY <1>1, <2>1, <3>2, PrefixAndNext
    <3> HIDE DEF text
    <3> QED
      BY <2>1, <3>1, <3>3
  <2>3. CASE piece # "late"
    <3>1. text = SubSeq(printed, 1, arrived) \o <<>>
      BY <2>3 DEF Arrived
    <3>2. DOMAIN text = 1 .. arrived /\ \A i \in 1 .. arrived : text[i] = printed[i]
      BY <1>1, <2>1, <3>1, PrefixAndNext
    <3> HIDE DEF text
    <3> QED
      BY <2>1, <3>2
  <2> QED
    BY <2>2, <2>3
<1>3. answer' \in Payload(text)
  BY DEF Read, Parse
<1> HIDE DEF text
<1>4. {"Begin", "End"} \subseteq ToSet(text) /\ answer' = Value(DataLines(text))
  BY <1>3 DEF Payload, Error
<1>5. \A i \in 1 .. m : text[i] = printed[i] /\ printed[i] \in ToSet(text)
  BY <1>2 DEF ToSet
<1>6. PICK b \in 1 .. m, e \in 1 .. m : printed[b] = "Begin" /\ printed[e] = "End"
  BY <1>2, <1>4 DEF ToSet
<1>7. PICK n \in Nat : Encoding(printed, n) /\ file = <<"there", n>>
  <2>1. printed # <<"Err">>
    <3>1. SUFFICES ASSUME printed = <<"Err">>  PROVE FALSE
      OBVIOUS
    <3>2. Len(printed) = 1 /\ printed[1] = "Err"
      BY <3>1
    <3> QED
      BY <1>6, <3>2
  <2> QED
    BY <2>1 DEF FilePrinted
<1>8. m = n + 2
  BY <1>6, <1>7 DEF Encoding
<1>9. {i \in DOMAIN text : text[i] = "Data"} = 2 .. n + 1
  BY <1>2, <1>7, <1>8 DEF Encoding
<1>10. DataLines(text) = n
  <2>1. Cardinality(2 .. n + 1) = n
    BY FS_Interval
  <2> QED
    BY <1>9, <2>1 DEF DataLines
<1> QED
  BY <1>4, <1>7, <1>10 DEF Value

-----------------------------------------------------------------------------
(* A snapshot                                                              *)

\* A sequence with a mark at its end begins none but itself.
LEMMA EndMark ==
  ASSUME NEW S, NEW a \in Seq(S), NEW b \in Seq(S), NEW mark, mark \notin S
  PROVE  IsPrefix(Append(a, mark), Append(b, mark)) <=> a = b
<1> DEFINE T == S \cup {mark}
           c == Append(a, mark)
           d == Append(b, mark)
           m == Len(a)
           n == Len(b)
<1>1. /\ m \in Nat /\ \A i \in 1 .. m : a[i] \in S
      /\ n \in Nat /\ \A i \in 1 .. n : b[i] \in S
  OBVIOUS
<1>2. /\ c \in Seq(T) /\ Len(c) = m + 1 /\ c[m + 1] = mark /\ \A i \in 1 .. m : c[i] = a[i]
      /\ d \in Seq(T) /\ Len(d) = n + 1 /\ d[n + 1] = mark /\ \A i \in 1 .. n : d[i] = b[i]
  <2>1. a \in Seq(T) /\ b \in Seq(T) /\ mark \in T
    OBVIOUS
  <2> HIDE DEF T
  <2> QED
    BY <2>1, AppendProperties
<1> HIDE DEF T, c, d, m, n
<1>3. ASSUME IsPrefix(c, d)  PROVE a = b
  <2>1. m + 1 <= n + 1 /\ SubSeq(c, 1, m + 1) = SubSeq(d, 1, m + 1)
    BY <1>2, <1>3 DEF IsPrefix
  <2>2. \A i \in 1 .. m + 1 : SubSeq(c, 1, m + 1)[i] = c[i] /\ SubSeq(d, 1, m + 1)[i] = d[i]
    <3>1. m + 1 \in 0 .. Len(c) /\ m + 1 \in 0 .. Len(d)
      BY <1>1, <1>2, <2>1
    <3> QED
      BY <1>2, <3>1, PrefixAndNext
  <2>3. \A i \in 1 .. m + 1 : c[i] = d[i]
    BY <2>1, <2>2
  <2>4. m = n
    <3>1. SUFFICES ASSUME m < n  PROVE FALSE
      BY <1>1, <2>1
    <3>2. m + 1 \in 1 .. m + 1 /\ m + 1 \in 1 .. n
      BY <1>1, <3>1
    <3>3. d[m + 1] = mark /\ d[m + 1] = b[m + 1] /\ b[m + 1] \in S
      BY <1>1, <1>2, <2>3, <3>2
    <3> QED
      BY <3>3
  <2>5. \A i \in 1 .. m : a[i] = b[i]
    <3>1. \A i \in 1 .. m : i \in 1 .. m + 1
      BY <1>1
    <3> QED
      BY <1>2, <2>3, <2>4, <3>1
  <2> QED
    BY <2>4, <2>5, SeqEqual DEF m, n
<1>4. ASSUME a = b  PROVE IsPrefix(c, d)
  BY <1>1, <1>2, <1>4 DEF IsPrefix, c, d
<1> QED
  BY <1>3, <1>4 DEF c, d

\* The key of a field begins the line of that field only.
LEMMA KeyIs ==
  ASSUME NEW f \in Fields, NEW g \in Fields
  PROVE  /\ f \in Seq(Keys) /\ Append(f, "=") \in Seq(Keys \cup {"="})
         /\ IsPrefix(Append(f, "="), Append(g, "=")) <=> f = g
<1>1. \A h \in Fields : h \in Seq(Keys)
  <2>1. \A h \in Amounts : h \in Seq(Keys)
    <3>1. SUFFICES ASSUME NEW h \in Amounts  PROVE h \in Seq(Keys)
      OBVIOUS
    <3>2. PICK a \in Keys, b \in Keys : h = <<a, b>>
      BY DEF Amounts, Keys
    <3> HIDE DEF Keys
    <3> QED
      BY <3>2
  <2>2. \A k \in Keys : <<k>> \in Seq(Keys)
    <3> HIDE DEF Keys
    <3> QED
      OBVIOUS
  <2> QED
    BY <2>1, <2>2 DEF Fields, Keys
<1>2. "=" \notin Keys
  BY DEF Keys
<1> HIDE DEF Keys
<1>3. Append(f, "=") \in Seq(Keys \cup {"="})
  BY <1>1
<1> QED
  BY <1>1, <1>2, <1>3, EndMark

\* The host prints fields, none of them twice.
LEMMA FieldsApart ==
  ASSUME NEW groups
  PROVE  FieldsOf(groups) \in Seq(Fields) /\ IsInjective(FieldsOf(groups))
<1> DEFINE amounts(g) == << <<g, "USED">>, <<g, "FREE">>, <<g, "TOTAL">> >>
           some(g) == IF g \in groups THEN amounts(g) ELSE <<>>
           texts == << <<"OS">>, <<"HOST">>, <<"UPTIME">> >>
<1>1. /\ texts \in Seq(Fields) /\ IsInjective(texts)
      /\ ToSet(texts) = {<<"OS">>, <<"HOST">>, <<"UPTIME">>}
  <2> DEFINE a == <<"OS">>
             b == <<"HOST">>
             c == <<"UPTIME">>
  <2>1. a \in Fields /\ b \in Fields /\ c \in Fields /\ a # b /\ b # c /\ a # c
    BY DEF Fields
  <2>2. texts = <<a, b, c>>
    OBVIOUS
  <2> HIDE DEF a, b, c, texts
  <2>3. texts \in Seq(Fields) /\ IsInjective(texts) /\ ToSet(texts) = {a, b, c}
    BY <2>1, <2>2, InjectiveThree
  <2> QED
    BY <2>3 DEF a, b, c
<1>2. ASSUME NEW g \in {"MEM", "DISK"}
      PROVE  /\ some(g) \in Seq(Fields) /\ IsInjective(some(g))
             /\ ToSet(some(g)) \subseteq {g} \X {"USED", "FREE", "TOTAL"}
  <2> DEFINE a == <<g, "USED">>
             b == <<g, "FREE">>
             c == <<g, "TOTAL">>
             three == amounts(g)
  <2>1. a \in Fields /\ b \in Fields /\ c \in Fields /\ a # b /\ b # c /\ a # c
    BY DEF Fields, Amounts
  <2>2. three = <<a, b, c>> /\ {a, b, c} \subseteq {g} \X {"USED", "FREE", "TOTAL"}
    OBVIOUS
  <2> HIDE DEF a, b, c, three
  <2>3. three \in Seq(Fields) /\ IsInjective(three) /\ ToSet(three) = {a, b, c}
    BY <2>1, <2>2, InjectiveThree
  <2>4. <<>> \in Seq(Fields) /\ IsInjective(<<>>) /\ ToSet(<<>>) = {}
    BY DEF IsInjective, ToSet
  <2>5. some(g) \in {three, <<>>}
    BY DEF three
  <2> HIDE DEF amounts, some
  <2> QED
    BY <2>2, <2>3, <2>4, <2>5
<1>3. FieldsOf(groups) = (texts \o some("MEM")) \o some("DISK")
  BY DEF FieldsOf
<1> HIDE DEF texts, some
<1>4. /\ ToSet(texts) \cap ToSet(some("MEM")) = {}
      /\ (ToSet(texts) \cup ToSet(some("MEM"))) \cap ToSet(some("DISK")) = {}
  <2>1. \A g, b : <<g, b>> \notin {<<"OS">>, <<"HOST">>, <<"UPTIME">>}
    OBVIOUS
  <2> QED
    BY <1>1, <1>2, <2>1
<1>5. /\ texts \o some("MEM") \in Seq(Fields) /\ IsInjective(texts \o some("MEM"))
      /\ ToSet(texts \o some("MEM")) = ToSet(texts) \cup ToSet(some("MEM"))
  BY <1>1, <1>2, <1>4, JoinApart
<1> DEFINE first == texts \o some("MEM")
           second == some("DISK")
<1>6. /\ first \in Seq(Fields) /\ second \in Seq(Fields)
      /\ IsInjective(first) /\ IsInjective(second) /\ ToSet(first) \cap ToSet(second) = {}
  BY <1>2, <1>4, <1>5
<1>7. FieldsOf(groups) = first \o second
  BY <1>3
<1> HIDE DEF first, second
<1> QED
  BY <1>6, <1>7, JoinApart

LEMMA PrintsFields ==
  ASSUME PrintFields
  PROVE  Tells(printed')
<1>1. PICK groups \in SUBSET {"MEM", "DISK"}, empty \in SUBSET {"OS", "HOST", "UPTIME", "MEM"} :
        printed' = [i \in DOMAIN FieldsOf(groups) |->
                      [field |-> FieldsOf(groups)[i], begins |-> Append(FieldsOf(groups)[i], "="),
                       text  |-> IF FieldsOf(groups)[i][1] \in empty THEN "" ELSE "true"]]
  BY DEF PrintFields, Prints
<1> DEFINE fields == FieldsOf(groups)
<1>2. fields \in Seq(Fields) /\ IsInjective(fields)
  BY FieldsApart
<1> HIDE DEF fields
<1>3. Len(fields) \in Nat /\ DOMAIN fields = 1 .. Len(fields) /\ \A i \in DOMAIN fields : fields[i] \in Fields
  BY <1>2
<1>4. \A i \in DOMAIN fields : Append(fields[i], "=") \in Seq(Keys \cup {"="})
  BY <1>3, KeyIs
<1>5. /\ printed' = [i \in 1 .. Len(fields) |-> printed'[i]]
      /\ \A i \in 1 .. Len(fields) :
           /\ printed'[i] \in FieldLines
           /\ printed'[i].field = fields[i]
           /\ printed'[i].begins = Append(fields[i], "=")
  BY <1>1, <1>3, <1>4 DEF FieldLines, fields
<1>6. printed' \in Seq(FieldLines) /\ Len(printed') = Len(fields)
  <2> DEFINE p == printed'
             n == Len(fields)
  <2>1. p = [i \in 1 .. n |-> p[i]] /\ n \in Nat /\ \A i \in 1 .. n : p[i] \in FieldLines
    BY <1>3, <1>5
  <2> HIDE DEF p, n
  <2>2. p \in [1 .. n -> FieldLines]
    BY <2>1
  <2>3. p \in Seq(FieldLines) /\ Len(p) = n
    BY <2>1, <2>2
  <2> QED
    BY <2>3 DEF p, n
<1> QED
  BY <1>2, <1>3, <1>5, <1>6 DEF Tells, IsInjective

\* What of a line is left of its text when it is cut in it, or right behind it.
CutText(line) == [line EXCEPT !.text = IF @ = "" THEN "" ELSE "part"]

\* The lines that arrived are those that were printed, in their order, but for
\* the text of one that was cut.
LEMMA ToldLines ==
  ASSUME Tells(printed), Arrives, NEW told, told = Arrived(CutText)
  PROVE  \E n \in arrived .. Len(printed) :
           /\ DOMAIN told = 1 .. n /\ n <= arrived + 1
           /\ (n = arrived + 1 => Cut) /\ (~Cut => n = Len(printed))
           /\ \A i \in 1 .. n :
                /\ told[i].begins = printed[i].begins
                /\ told[i].text = IF i <= arrived \/ printed[i].text = "" THEN printed[i].text
                                  ELSE "part"
<1>1. /\ printed \in Seq(FieldLines) /\ Len(printed) \in Nat
      /\ arrived \in 0 .. Len(printed) /\ (piece # "none" => arrived < Len(printed))
      /\ piece \in {"none", "early", "late"}
  BY DEF Tells, Arrives
<1>2. CASE piece = "late"
  <2> DEFINE n == arrived + 1
  <2>1. n \in arrived .. Len(printed) /\ n \in 1 .. Len(printed) /\ Cut
    BY <1>1, <1>2 DEF Cut
  <2>2. told = SubSeq(printed, 1, arrived) \o << CutText(printed[n]) >>
    BY <1>2 DEF Arrived
  <2>3. /\ DOMAIN told = 1 .. n /\ told[n] = CutText(printed[n])
        /\ \A i \in 1 .. arrived : told[i] = printed[i]
    <3> DEFINE x == CutText(printed[n])
    <3>1. told = SubSeq(printed, 1, arrived) \o <<x>>
      BY <2>2
    <3> HIDE DEF x
    <3>2. /\ DOMAIN told = 1 .. arrived + 1 /\ told[arrived + 1] = x
          /\ \A i \in 1 .. arrived : told[i] = printed[i]
      BY <1>1, <3>1, PrefixAndNext
    <3> QED
      BY <3>2 DEF x
  <2>4. printed[n] \in FieldLines
    BY <1>1, <2>1
  <2>5. /\ told[n].begins = printed[n].begins
        /\ told[n].text = IF printed[n].text = "" THEN "" ELSE "part"
    BY <2>3, <2>4 DEF CutText, FieldLines
  <2>6. n = arrived + 1 /\ n <= arrived + 1 /\ arrived \in Nat
    BY <1>1
  <2> HIDE DEF n
  <2>7. ASSUME NEW i \in 1 .. n
        PROVE  /\ told[i].begins = printed[i].begins
               /\ told[i].text = IF i <= arrived \/ printed[i].text = "" THEN printed[i].text
                                 ELSE "part"
    <3>1. CASE i = n
      <4>1. ~(i <= arrived)
        BY <2>6, <3>1
      <4> QED
        BY <2>5, <3>1, <4>1
    <3>2. CASE i # n
      <4>1. i \in 1 .. arrived /\ i <= arrived
        BY <2>6, <3>2
      <4> QED
        BY <2>3, <4>1
    <3> QED
      BY <3>1, <3>2
  <2> QED
    BY <2>1, <2>3, <2>7, <2>6
<1>3. CASE piece # "late"
  <2>1. told = SubSeq(printed, 1, arrived) \o <<>>
    BY <1>3 DEF Arrived
  <2>2. DOMAIN told = 1 .. arrived /\ \A i \in 1 .. arrived : told[i] = printed[i]
    BY <1>1, <2>1, PrefixAndNext
  <2>3. arrived \in arrived .. Len(printed) /\ arrived # arrived + 1 /\ (~Cut => arrived = Len(printed))
    BY <1>1 DEF Cut
  <2>4. ASSUME NEW i \in 1 .. arrived
        PROVE  /\ told[i].begins = printed[i].begins
               /\ told[i].text = IF i <= arrived \/ printed[i].text = "" THEN printed[i].text
                                 ELSE "part"
    <3>1. i <= arrived
      BY <1>1
    <3> QED
      BY <2>2, <3>1
  <2>5. arrived <= arrived + 1
    BY <1>1
  <2> QED
    BY <2>2, <2>3, <2>4, <2>5
<1> QED
  BY <1>2, <1>3

\* Each field shows what its line told, if that arrived, and all or nothing of it
\* unless it was the one that was cut.
LEMMA ParsesSnapshot ==
  ASSUME op = "snapshot", Tells(printed), Arrives, Snapshot
  PROVE  SnapshotIsTrue'
<1> DEFINE told == Arrived(CutText)
           of(f) == {i \in DOMAIN told : HasKey(f, told[i])}
           shown == [f \in Fields |-> IF of(f) = {} THEN "" ELSE told[Min(of(f))].text]
           texts(f) == {l.text : l \in {k \in ToSet(printed) : k.field = f}}
<1>1. answer' = Value(shown) /\ UNCHANGED <<printed, arrived>>
  BY DEF Snapshot, Parse, CutText
<1>2. PICK n \in arrived .. Len(printed) :
        /\ DOMAIN told = 1 .. n /\ n <= arrived + 1
        /\ (n = arrived + 1 => Cut) /\ (~Cut => n = Len(printed))
        /\ \A i \in 1 .. n :
             /\ told[i].begins = printed[i].begins
             /\ told[i].text = IF i <= arrived \/ printed[i].text = "" THEN printed[i].text
                               ELSE "part"
  BY ToldLines
<1> HIDE DEF told
<1>3. /\ Len(printed) \in Nat /\ arrived \in Nat /\ n \in Nat
      /\ arrived <= n /\ n <= Len(printed) /\ n <= arrived + 1
      /\ DOMAIN printed = 1 .. Len(printed) /\ printed \in Seq(FieldLines)
      /\ \A i \in 1 .. n : i \in 1 .. Len(printed) /\ i \in Int
  <2>1. printed \in Seq(FieldLines) /\ arrived \in 0 .. Len(printed)
    BY DEF Tells, Arrives
  <2>2. Len(printed) \in Nat /\ DOMAIN printed = 1 .. Len(printed)
    BY <2>1
  <2>3. n \in arrived .. Len(printed) /\ n <= arrived + 1
    BY <1>2
  <2> QED
    BY <2>1, <2>2, <2>3
<1>4. \A i \in 1 .. Len(printed) :
         /\ printed[i].field \in Fields /\ printed[i].text \in {"", "true"}
         /\ printed[i].begins = Append(printed[i].field, "=")
  <2>1. \A i \in 1 .. Len(printed) : printed[i] \in FieldLines
    BY <1>3
  <2>2. \A i \in 1 .. Len(printed) : printed[i].begins = Append(printed[i].field, "=")
    BY DEF Tells
  <2> QED
    BY <2>1, <2>2 DEF FieldLines
<1>5. \A i, j \in 1 .. Len(printed) : printed[i].field = printed[j].field => i = j
  BY DEF Tells
<1>6. ASSUME NEW f \in Fields, NEW i \in 1 .. n
      PROVE  HasKey(f, told[i]) <=> f = printed[i].field
  <2>1. i \in 1 .. Len(printed)
    BY <1>3
  <2>2. told[i].begins = Append(printed[i].field, "=") /\ printed[i].field \in Fields
    BY <1>2, <1>4, <2>1
  <2> QED
    BY <2>2, KeyIs DEF HasKey
<1>7. ASSUME NEW i \in 1 .. n  PROVE shown[printed[i].field] = told[i].text
  <2> DEFINE f == printed[i].field
  <2>1. f \in Fields /\ i \in 1 .. Len(printed)
    BY <1>3, <1>4
  <2>2. of(f) = {i}
    <3>1. ASSUME NEW j \in 1 .. n, f = printed[j].field  PROVE j = i
      <4>1. j \in 1 .. Len(printed)
        BY <1>3
      <4> QED
        BY <1>5, <2>1, <3>1, <4>1
    <3> HIDE DEF f
    <3>2. \A j \in 1 .. n : HasKey(f, told[j]) <=> f = printed[j].field
      BY <1>6, <2>1
    <3>3. f = printed[i].field
      BY DEF f
    <3> QED
      BY <1>2, <3>1, <3>2, <3>3
  <2>3. Min({i}) = i
    <3>1. i \in Int
      BY <1>3
    <3> QED
      BY <3>1 DEF Min
  <2> HIDE DEF of, f
  <2>4. shown[f] = told[i].text
    BY <2>1, <2>2, <2>3
  <2> QED
    BY <2>4 DEF f
<1>8. ASSUME NEW f \in Fields, \A i \in 1 .. n : printed[i].field # f
      PROVE  shown[f] = ""
  <2>1. of(f) = {}
    BY <1>2, <1>6, <1>8
  <2> HIDE DEF of
  <2> QED
    BY <2>1
<1> HIDE DEF shown
<1>9. ASSUME NEW i \in 1 .. Len(printed), NEW f, f = printed[i].field
      PROVE  texts(f) = {printed[i].text}
  <2>1. \A k \in ToSet(printed) : k.field = f <=> k = printed[i]
    BY <1>3, <1>5, <1>9 DEF ToSet
  <2>2. printed[i] \in ToSet(printed)
    BY <1>3 DEF ToSet
  <2> QED
    BY <2>1, <2>2
<1>10. ASSUME NEW f \in Fields
      PROVE  /\ shown[f] \in texts(f) \/ shown[f] = "" \/ (Cut /\ shown[f] = "part")
             /\ texts(f) = {} => shown[f] = ""
             /\ ~Cut => texts(f) \subseteq {shown[f]}
             /\ shown[f] = "part" => arrived + 1 \in 1 .. Len(printed) /\ f = printed[arrived + 1].field
  <2>1. CASE \E i \in 1 .. n : printed[i].field = f
    <3>1. PICK i \in 1 .. n : printed[i].field = f
      BY <2>1
    <3>2. /\ i \in 1 .. Len(printed) /\ printed[i].text \in {"", "true"}
          /\ texts(f) = {printed[i].text} /\ shown[f] = told[i].text
      <4>1. i \in 1 .. Len(printed)
        BY <1>3
      <4>2. texts(f) = {printed[i].text}
        BY <1>9, <3>1, <4>1
      <4>3. shown[f] = told[i].text
        BY <1>7, <3>1
      <4> HIDE DEF texts
      <4> QED
        BY <1>4, <4>1, <4>2, <4>3
    <3> HIDE DEF texts
    <3>3. CASE i <= arrived \/ printed[i].text = ""
      <4>1. shown[f] = printed[i].text
        BY <1>2, <3>2, <3>3
      <4> QED
        BY <3>2, <4>1
    <3>4. CASE ~(i <= arrived \/ printed[i].text = "")
      <4>1. i = arrived + 1 /\ n = arrived + 1
        <5>1. i \in Int /\ n \in Nat /\ arrived \in Nat /\ n <= arrived + 1
          BY <1>3
        <5>2. i <= n
          BY <5>1
        <5>3. ~(i <= arrived)
          BY <3>4
        <5> QED
          BY <5>1, <5>2, <5>3
      <4>2. Cut /\ shown[f] = "part"
        BY <1>2, <3>2, <3>4, <4>1
      <4> QED
        BY <3>1, <3>2, <4>1, <4>2
    <3> QED
      BY <3>3, <3>4
  <2>2. CASE \A i \in 1 .. n : printed[i].field # f
    <3>1. shown[f] = ""
      BY <1>8, <2>2
    <3>2. ~Cut => texts(f) = {}
      BY <1>2, <1>3, <2>2 DEF ToSet
    <3> QED
      BY <3>1, <3>2
  <2> QED
    BY <2>1, <2>2
<1>11. Cardinality({f \in Fields : shown[f] = "part"}) <= 1
  <2> DEFINE parts == {f \in Fields : shown[f] = "part"}
  <2>1. parts = {} \/ parts = {printed[arrived + 1].field}
    BY <1>10
  <2> HIDE DEF parts
  <2>2. Cardinality(parts) \in {0, 1}
    BY <2>1, FS_EmptySet, FS_Singleton
  <2> QED
    BY <2>2 DEF parts
<1>12. answer'.value = shown /\ printed' = printed /\ Cut' = Cut
  BY <1>1 DEF Value, Cut
<1> HIDE DEF texts
<1>13. \A f \in Fields : [g \in Fields |-> texts(g)][f] = texts(f)
  OBVIOUS
<1>14. [g \in Fields |-> texts(g)] = [g \in Fields |-> {l.text : l \in {k \in ToSet(printed) : k.field = g}}]
  BY DEF texts
<1> QED
  BY <1>10, <1>11, <1>12, <1>13, <1>14 DEF SnapshotIsTrue

-----------------------------------------------------------------------------
(* The order of names                                                      *)

\* A sequence begins another when it agrees with it as far as it goes.
LEMMA PrefixIs ==
  ASSUME NEW S, NEW T, NEW a \in Seq(S), NEW b \in Seq(T)
  PROVE  IsPrefix(a, b) <=> Len(a) <= Len(b) /\ \A i \in 1 .. Len(a) : a[i] = b[i]
<1> DEFINE m == Len(a)
           n == Len(b)
           U == S \cup T
<1>1. a \in Seq(U) /\ b \in Seq(U) /\ m \in Nat /\ n \in Nat
  OBVIOUS
<1> HIDE DEF U
<1>2. SubSeq(a, 1, m) = a
  BY <1>1, SubSeqFull
<1>3. ASSUME m <= n
      PROVE  /\ SubSeq(b, 1, m) \in Seq(U) /\ Len(SubSeq(b, 1, m)) = m
             /\ \A i \in 1 .. m : SubSeq(b, 1, m)[i] = b[i]
  <2>1. \A i \in 1 .. n : b[i] \in U
    BY <1>1
  <2> HIDE DEF m, n
  <2>2. \A i \in 1 .. m : b[i] \in U
    BY <1>1, <1>3, <2>1
  <2> QED
    BY <1>1, <2>2, SubSeqProperties
<1>4. ASSUME m <= n, \A i \in 1 .. m : a[i] = b[i]  PROVE a = SubSeq(b, 1, m)
  BY <1>1, <1>3, <1>4, SeqEqual
<1> HIDE DEF m, n
<1>5. IsPrefix(a, b) <=> m <= n /\ a = SubSeq(b, 1, m)
  BY <1>2 DEF IsPrefix, m, n
<1>6. ASSUME m <= n, a = SubSeq(b, 1, m)  PROVE \A i \in 1 .. m : a[i] = b[i]
  BY <1>3, <1>6
<1> QED
  BY <1>4, <1>5, <1>6 DEF m, n

\* One comes before another where they differ first.
Below(a, b, i) ==
  /\ i <= Len(a) + 1 /\ \A j \in 1 .. i - 1 : a[j] = b[j]
  /\ i <= Len(a) => a[i] < b[i]

LEMMA LexLessIs ==
  ASSUME NEW a \in Seq(Int), NEW b \in Seq(Int)
  PROVE  LexLess(a, b) <=> \E i \in 1 .. Len(b) : Below(a, b, i)
<1> DEFINE m == Len(a)
           n == Len(b)
<1>1. m \in Nat /\ n \in Nat /\ DOMAIN a = 1 .. m /\ DOMAIN b = 1 .. n
  OBVIOUS
<1>2. IsPrefix(a, b) <=> m <= n /\ \A i \in 1 .. m : a[i] = b[i]
  BY PrefixIs
<1>3. ASSUME m = n, \A i \in 1 .. m : a[i] = b[i]  PROVE a = b
  BY <1>3, SeqEqual
<1> HIDE DEF m, n
<1>4. ASSUME IsStrictPrefix(a, b)  PROVE \E i \in 1 .. n : Below(a, b, i)
  <2>1. m <= n /\ (\A i \in 1 .. m : a[i] = b[i]) /\ a # b
    BY <1>2, <1>4 DEF IsStrictPrefix
  <2>2. m + 1 \in 1 .. n /\ (m + 1) - 1 = m /\ ~(m + 1 <= m)
    BY <1>1, <1>3, <2>1
  <2>3. Below(a, b, m + 1)
    BY <1>1, <2>1, <2>2 DEF Below, m
  <2> QED
    BY <2>2, <2>3
<1>5. ASSUME NEW i \in DOMAIN a \cap DOMAIN b, a[i] < b[i], \A j \in 1 .. i - 1 : a[j] = b[j]
      PROVE  \E k \in 1 .. n : Below(a, b, k)
  <2>1. i \in 1 .. n /\ i <= m + 1
    BY <1>1
  <2>2. Below(a, b, i)
    BY <1>5, <2>1 DEF Below, m
  <2> QED
    BY <2>1, <2>2
<1>6. ASSUME NEW i \in 1 .. n, Below(a, b, i)  PROVE LexLess(a, b)
  <2>1. i <= m + 1 /\ (\A j \in 1 .. i - 1 : a[j] = b[j]) /\ (i <= m => a[i] < b[i])
    BY <1>6 DEF Below, m
  <2>2. CASE i <= m
    <3>1. i \in DOMAIN a \cap DOMAIN b
      BY <1>1, <2>2
    <3> QED
      BY <2>1, <2>2, <3>1 DEF LexLess
  <2>3. CASE ~(i <= m)
    <3>1. i = m + 1 /\ i - 1 = m
      BY <1>1, <2>1, <2>3
    <3>2. IsPrefix(a, b)
      BY <1>1, <1>2, <2>1, <3>1
    <3>3. m # n
      BY <1>1, <3>1
    <3> QED
      BY <3>2, <3>3 DEF LexLess, IsStrictPrefix, m, n
  <2> QED
    BY <2>2, <2>3
<1> QED
  BY <1>4, <1>5, <1>6 DEF LexLess, n

\* It puts names in a line.
LEMMA LexOrder ==
  ASSUME NEW a \in Seq(Int), NEW b \in Seq(Int), NEW c \in Seq(Int)
  PROVE  /\ ~LexLess(a, a)
         /\ LexLess(a, b) => ~LexLess(b, a)
         /\ a # b => LexLess(a, b) \/ LexLess(b, a)
         /\ LexLess(a, b) /\ LexLess(b, c) => LexLess(a, c)
         /\ LexLess(a, c) => LexLess(a, b) \/ LexLess(b, c)
<1>1. ASSUME NEW x \in Seq(Int), NEW y \in Seq(Int), NEW i \in 1 .. Len(y), Below(x, y, i),
             NEW j \in 1 .. Len(x), Below(y, x, j)
      PROVE  FALSE
  <2>1. /\ Len(x) \in Nat /\ Len(y) \in Nat /\ i \in Int /\ j \in Int
        /\ \A k \in 1 .. Len(x) : x[k] \in Int
        /\ \A k \in 1 .. Len(y) : y[k] \in Int
    OBVIOUS
  <2>2. CASE i = j
    BY <1>1, <2>1, <2>2 DEF Below
  <2>3. CASE i < j
    <3>1. i \in 1 .. j - 1 /\ i <= Len(x) /\ i \in 1 .. Len(x)
      BY <1>1, <2>1, <2>3 DEF Below
    <3>2. y[i] = x[i] /\ x[i] < y[i]
      BY <1>1, <3>1 DEF Below
    <3> QED
      BY <2>1, <3>1, <3>2
  <2>4. CASE j < i
    <3>1. j \in 1 .. i - 1 /\ j <= Len(y) /\ j \in 1 .. Len(y)
      BY <1>1, <2>1, <2>4 DEF Below
    <3>2. y[j] = x[j] /\ y[j] < x[j]
      BY <1>1, <3>1 DEF Below
    <3> QED
      BY <2>1, <3>1, <3>2
  <2> QED
    BY <2>1, <2>2, <2>3, <2>4
<1>2. ASSUME NEW x \in Seq(Int), NEW y \in Seq(Int)  PROVE LexLess(x, y) => ~LexLess(y, x)
  BY <1>1, LexLessIs
<1>3. ASSUME NEW x \in Seq(Int), NEW y \in Seq(Int), x # y  PROVE LexLess(x, y) \/ LexLess(y, x)
  <2> DEFINE m == Len(x)
             n == Len(y)
             least == IF m < n THEN m ELSE n
             D == {k \in 1 .. least + 1 : k = least + 1 \/ x[k] # y[k]}
  <2>1. /\ m \in Nat /\ n \in Nat
        /\ \A k \in 1 .. m : x[k] \in Int
        /\ \A k \in 1 .. n : y[k] \in Int
    OBVIOUS
  <2>2. (m = n /\ \A k \in 1 .. m : x[k] = y[k]) => x = y
    BY SeqEqual
  <2> HIDE DEF m, n
  <2>3. least \in Nat /\ least <= m /\ least <= n /\ (least = m \/ least = n)
    BY <2>1
  <2> HIDE DEF least
  <2>4. least + 1 \in D /\ D \subseteq Nat
    BY <2>3
  <2> HIDE DEF D
  <2>5. PICK i \in D : \A k \in D : i <= k
    BY <2>4, Least
  <2>6. i \in 1 .. least + 1 /\ \A j \in 1 .. i - 1 : j \notin D
    <3>1. i \in 1 .. least + 1
      BY <2>5 DEF D
    <3>2. ASSUME NEW j \in 1 .. i - 1  PROVE ~(i <= j)
      BY <3>1
    <3> QED
      BY <2>5, <3>1, <3>2
  <2>7. \A j \in 1 .. i - 1 : x[j] = y[j]
    <3>1. \A j \in 1 .. i - 1 : j \in 1 .. least + 1
      BY <2>3, <2>6
    <3> QED
      BY <2>6, <3>1 DEF D
  <2>8. CASE i <= least
    <3>1. x[i] # y[i] /\ i \in 1 .. m /\ i \in 1 .. n
      BY <2>1, <2>3, <2>5, <2>6, <2>8 DEF D
    <3>2. x[i] < y[i] \/ y[i] < x[i]
      BY <2>1, <3>1
    <3>3. i <= m + 1 /\ i <= n + 1
      BY <2>1, <3>1
    <3>4. Below(x, y, i) \/ Below(y, x, i)
      BY <2>7, <3>2, <3>3 DEF Below, m, n
    <3> QED
      BY <3>1, <3>4, LexLessIs DEF m, n
  <2>9. CASE ~(i <= least)
    <3>1. i = least + 1 /\ i - 1 = least
      BY <2>3, <2>6, <2>9
    <3>2. m # n
      BY <2>2, <2>3, <2>7, <3>1, <1>3
    <3>3. CASE least = m
      <4>1. i \in 1 .. n /\ i <= m + 1 /\ ~(i <= m)
        BY <2>1, <2>3, <3>1, <3>2, <3>3
      <4>2. Below(x, y, i)
        BY <2>7, <4>1 DEF Below, m
      <4> QED
        BY <4>1, <4>2, LexLessIs DEF n
    <3>4. CASE least = n
      <4>1. i \in 1 .. m /\ i <= n + 1 /\ ~(i <= n)
        BY <2>1, <2>3, <3>1, <3>2, <3>4
      <4>2. Below(y, x, i)
        BY <2>7, <4>1 DEF Below, n
      <4> QED
        BY <4>1, <4>2, LexLessIs DEF m
    <3> QED
      BY <2>3, <3>3, <3>4
  <2> QED
    BY <2>8, <2>9
<1>4. ASSUME NEW x \in Seq(Int), NEW y \in Seq(Int), NEW z \in Seq(Int), LexLess(x, y), LexLess(y, z)
      PROVE  LexLess(x, z)
  <2>1. PICK i \in 1 .. Len(y) : Below(x, y, i)
    BY <1>4, LexLessIs
  <2>2. PICK j \in 1 .. Len(z) : Below(y, z, j)
    BY <1>4, LexLessIs
  <2>3. /\ Len(x) \in Nat /\ Len(y) \in Nat /\ Len(z) \in Nat /\ i \in Int /\ j \in Int
        /\ \A k \in 1 .. Len(x) : x[k] \in Int
        /\ \A k \in 1 .. Len(y) : y[k] \in Int
        /\ \A k \in 1 .. Len(z) : z[k] \in Int
    OBVIOUS
  <2>4. CASE i < j
    <3>1. /\ i \in 1 .. j - 1 /\ i \in 1 .. Len(z)
          /\ \A k \in 1 .. i - 1 : k \in 1 .. j - 1
      BY <2>3, <2>4
    <3>2. y[i] = z[i] /\ \A k \in 1 .. i - 1 : y[k] = z[k]
      BY <2>2, <3>1 DEF Below
    <3>3. Below(x, z, i)
      BY <2>1, <3>2 DEF Below
    <3> QED
      BY <3>1, <3>3, LexLessIs
  <2>5. CASE i >= j
    <3>1. /\ \A k \in 1 .. j - 1 : k \in 1 .. i - 1
          /\ j <= Len(x) + 1 /\ j <= Len(y)
      BY <2>1, <2>3, <2>5 DEF Below
    <3>2. \A k \in 1 .. j - 1 : x[k] = z[k]
      BY <2>1, <2>2, <3>1 DEF Below
    <3>3. j <= Len(x) => x[j] < z[j]
      <4>1. SUFFICES ASSUME j <= Len(x)  PROVE x[j] < z[j]
        OBVIOUS
      <4>2. x[j] \in Int /\ y[j] \in Int /\ z[j] \in Int /\ y[j] < z[j]
        BY <2>2, <2>3, <3>1, <4>1 DEF Below
      <4>3. x[j] = y[j] \/ x[j] < y[j]
        <5>1. CASE j = i
          BY <2>1, <4>1, <5>1 DEF Below
        <5>2. CASE j < i
          <6>1. j \in 1 .. i - 1
            BY <5>2
          <6> QED
            BY <2>1, <6>1 DEF Below
        <5> QED
          BY <2>5, <5>1, <5>2
      <4> QED
        BY <4>2, <4>3
    <3>4. Below(x, z, j)
      BY <3>1, <3>2, <3>3 DEF Below
    <3> QED
      BY <3>4, LexLessIs
  <2> QED
    BY <2>3, <2>4, <2>5
<1>5. ~LexLess(a, a)
  BY <1>2
<1>6. LexLess(a, c) => LexLess(a, b) \/ LexLess(b, c)
  BY <1>3, <1>4
<1> QED
  BY <1>2, <1>3, <1>4, <1>5, <1>6

\* A name in lower case is as long, and letters have numbers.
LEMMA LowerIs ==
  ASSUME NEW name \in Seq(Nat)
  PROVE  /\ Lower(name) \in Seq(Int) /\ Len(Lower(name)) = Len(name)
         /\ DOMAIN Lower(name) = 1 .. Len(name)
<1>1. DOMAIN name = 1 .. Len(name) /\ Len(name) \in Nat /\ \A i \in 1 .. Len(name) : name[i] \in Nat
  OBVIOUS
<1>2. Lower(name) \in [1 .. Len(name) -> Int]
  BY <1>1 DEF Lower
<1> QED
  BY <1>1, <1>2

-----------------------------------------------------------------------------
(* The entries of a directory                                              *)

\* Names, in whatever order a directory holds them.
LEMMA SeqsOf ==
  ASSUME NEW S, IsFiniteSet(S), NEW names \in SetToSeqs(S)
  PROVE  /\ names \in Seq(S) /\ Len(names) \in Nat /\ DOMAIN names = 1 .. Len(names)
         /\ \A i, j \in 1 .. Len(names) : names[i] = names[j] => i = j
         /\ \A x \in S : \E i \in 1 .. Len(names) : names[i] = x
<1> DEFINE n == Cardinality(S)
<1>1. n \in Nat
  BY FS_CardinalityType
<1>2. names \in [1 .. n -> S] /\ \A i, j \in 1 .. n : i # j => names[i] # names[j]
  BY DEF SetToSeqs
<1>3. names \in Injection(1 .. n, S)
  BY <1>2 DEF Injection, IsInjective
<1>4. IsFiniteSet(1 .. n) /\ Cardinality(1 .. n) = n
  BY <1>1, FS_Interval
<1>5. names \in Surjection(1 .. n, S)
  BY <1>3, <1>4, FS_Injection
<1>6. \A x \in S : \E i \in 1 .. n : names[i] = x
  BY <1>5 DEF Surjection
<1> HIDE DEF n
<1>7. names \in Seq(S) /\ Len(names) = n /\ DOMAIN names = 1 .. n
  BY <1>1, <1>2
<1> QED
  BY <1>1, <1>2, <1>6, <1>7

LEMMA PrintsEntries ==
  ASSUME Directory, access \in Accesses, PrintEntries
  PROVE  Lists(printed')
<1>0. CASE access = "none" /\ printed' = <<>>
  <2>1. <<>> \in Seq(Entry) /\ Len(<<>>) = 0 /\ 1 .. 0 = {}
    BY DEF Entry
  <2> QED
    BY <1>0, <2>1 DEF Lists
<1> SUFFICES ASSUME access # "none"  PROVE Lists(printed')
  BY <1>0 DEF PrintEntries, Prints
<1>1. PICK names \in SetToSeqs(DOMAIN entries), kinds \in ShownAsDirs :
        printed' = [i \in DOMAIN names |-> [name |-> names[i], path |-> names[i],
                                            dir  |-> entries[names[i]] \in kinds]]
  BY DEF PrintEntries, Prints
<1> DEFINE n == Len(names)
           p == printed'
<1>2. /\ names \in Seq(DOMAIN entries) /\ n \in Nat /\ DOMAIN names = 1 .. n
      /\ \A i, j \in 1 .. n : names[i] = names[j] => i = j
      /\ \A x \in DOMAIN entries : \E i \in 1 .. n : names[i] = x
  BY SeqsOf DEF Directory
<1>3. \A i \in 1 .. n : names[i] \in DOMAIN entries
  BY <1>2
<1> HIDE DEF n
<1>4. /\ p = [i \in 1 .. n |-> p[i]]
      /\ \A i \in 1 .. n : /\ p[i] = [name |-> names[i], path |-> names[i], dir |-> entries[names[i]] \in kinds]
                           /\ p[i] \in Entry
  BY <1>1, <1>2, <1>3 DEF Entry, Directory
<1> HIDE DEF p
<1>5. p \in Seq(Entry) /\ Len(p) = n
  <2>1. p \in [1 .. n -> Entry]
    BY <1>4
  <2> QED
    BY <1>2, <2>1
<1>6. \A i \in 1 .. n : /\ p[i].name = names[i] /\ p[i].path = names[i]
                        /\ p[i].dir <=> entries[names[i]] \in kinds
  <2>1. ASSUME NEW i \in 1 .. n
        PROVE  p[i].name = names[i] /\ p[i].path = names[i] /\ p[i].dir = (entries[names[i]] \in kinds)
    <3>1. p[i] = [name |-> names[i], path |-> names[i], dir |-> entries[names[i]] \in kinds]
      BY <1>4
    <3> QED
      BY <3>1
  <2> QED
    BY <2>1
<1>7. \A i \in 1 .. n : /\ entries[names[i]] \in kinds => entries[names[i]] # "file"
                        /\ entries[names[i]] = "dir" => entries[names[i]] \in kinds \/ access = "names"
  BY DEF ShownAsDirs, Accesses
<1>8. Lists(p)
  BY <1>2, <1>3, <1>5, <1>6, <1>7 DEF Lists
<1> QED
  BY <1>8 DEF p

\* The lines that arrived, and what is left of one that did not.
Shows(seen, left) == seen = SubSeq(printed, 1, arrived) \o IF piece = "late" THEN <<left>> ELSE <<>>

LEMMA ArrivedLines ==
  ASSUME NEW S, printed \in Seq(S), Arrives, NEW x, NEW seen, Shows(seen, x)
  PROVE  \E n \in arrived .. Len(printed) :
           /\ DOMAIN seen = 1 .. n /\ n <= arrived + 1
           /\ (n = arrived + 1 => Cut) /\ (~Cut => n = Len(printed))
           /\ \A i \in 1 .. n : seen[i] = IF i <= arrived THEN printed[i] ELSE x
<1>1. /\ Len(printed) \in Nat /\ arrived \in 0 .. Len(printed) /\ arrived \in Nat
      /\ (piece # "none" => arrived < Len(printed))
      /\ piece \in {"none", "early", "late"}
  BY DEF Arrives
<1>2. CASE piece = "late"
  <2> DEFINE n == arrived + 1
  <2>1. n \in arrived .. Len(printed) /\ Cut /\ n <= arrived + 1 /\ n = arrived + 1
    BY <1>1, <1>2 DEF Cut
  <2>2. seen = SubSeq(printed, 1, arrived) \o <<x>>
    BY <1>2 DEF Shows
  <2>3. /\ DOMAIN seen = 1 .. n /\ seen[n] = x
        /\ \A i \in 1 .. arrived : seen[i] = printed[i]
    <3>1. /\ DOMAIN seen = 1 .. arrived + 1 /\ seen[arrived + 1] = x
          /\ \A i \in 1 .. arrived : seen[i] = printed[i]
      BY <1>1, <2>2, PrefixAndNext
    <3> QED
      BY <3>1
  <2>4. \A i \in 1 .. n : IF i <= arrived THEN i \in 1 .. arrived ELSE i = n
    BY <1>1
  <2> HIDE DEF n
  <2>5. \A i \in 1 .. n : seen[i] = IF i <= arrived THEN printed[i] ELSE x
    BY <2>3, <2>4
  <2> QED
    BY <2>1, <2>3, <2>5
<1>3. CASE piece # "late"
  <2>1. seen = SubSeq(printed, 1, arrived) \o <<>>
    BY <1>3 DEF Shows
  <2>2. DOMAIN seen = 1 .. arrived /\ \A i \in 1 .. arrived : seen[i] = printed[i]
    BY <1>1, <2>1, PrefixAndNext
  <2>3. /\ arrived \in arrived .. Len(printed) /\ arrived # arrived + 1 /\ arrived <= arrived + 1
        /\ (~Cut => arrived = Len(printed))
        /\ \A i \in 1 .. arrived : i <= arrived
    BY <1>1 DEF Cut
  <2> QED
    BY <2>2, <2>3
<1> QED
  BY <1>2, <1>3

\* The key that entries are sorted by.
LEMMA ComesBeforeIs ==
  ASSUME NEW d, NEW e, NEW f,
         d.name \in Seq(Nat) /\ e.name \in Seq(Nat) /\ f.name \in Seq(Nat),
         d.dir \in BOOLEAN /\ e.dir \in BOOLEAN /\ f.dir \in BOOLEAN
  PROVE  /\ ComesBefore(d, e) => ~ComesBefore(e, d)
         /\ ComesBefore(d, f) => ComesBefore(d, e) \/ ComesBefore(e, f)
         /\ ~ComesBefore(e, d) => d.dir \/ ~e.dir
<1> DEFINE a == Lower(d.name)
           b == Lower(e.name)
           c == Lower(f.name)
<1>1. a \in Seq(Int) /\ b \in Seq(Int) /\ c \in Seq(Int)
  BY LowerIs
<1>2. /\ LexLess(a, b) => ~LexLess(b, a)
      /\ LexLess(a, c) => LexLess(a, b) \/ LexLess(b, c)
  BY <1>1, LexOrder
<1>3. ComesBefore(d, e) => ~ComesBefore(e, d)
  BY <1>2 DEF ComesBefore
<1>4. ComesBefore(d, f) => ComesBefore(d, e) \/ ComesBefore(e, f)
  BY <1>2 DEF ComesBefore
<1>5. ~ComesBefore(e, d) => d.dir \/ ~e.dir
  BY DEF ComesBefore
<1> QED
  BY <1>3, <1>4, <1>5

\* A name is a sequence of letters, and not empty.
LEMMA NamesAre ==
  ASSUME NEW name \in Names
  PROVE  name \in Seq(Nat) /\ name # <<>>
<1>1. PICK n \in 1 .. MaxLength : name \in [1 .. n -> Letters]
  BY DEF Names
<1>2. n \in Nat /\ n # 0
  BY LettersAssumption
<1>3. name \in Seq(Letters) /\ Len(name) = n
  BY <1>1, <1>2
<1>4. \A i \in 1 .. n : name[i] \in Nat
  BY <1>1, LettersAssumption
<1> QED
  BY <1>1, <1>2, <1>3, <1>4

\* Of two things that are the same there is one at most.
LEMMA OneAtMost ==
  ASSUME NEW S, \A x, y \in S : x = y
  PROVE  Cardinality(S) <= 1
<1>1. CASE S = {}
  BY <1>1, FS_EmptySet
<1>2. CASE S # {}
  <2>1. PICK x : S = {x}
    BY <1>2
  <2>2. Cardinality(S) = 1
    BY <2>1, FS_Singleton
  <2> QED
    BY <2>2
<1> QED
  BY <1>1, <1>2

\* What of a listing arrived: entries that are there, but for the path of a cut one.
LEMMA SeenEntries ==
  ASSUME Lists(printed), Arrives
  PROVE  \E n \in arrived .. Len(printed) :
           /\ DOMAIN Seen = 1 .. n /\ (n = arrived + 1 => Cut) /\ (~Cut => n = Len(printed))
           /\ \A i \in 1 .. n :
                /\ i <= arrived \/ i = arrived + 1
                /\ Seen[i].name = printed[i].name /\ Seen[i].dir = printed[i].dir
                /\ Seen[i].path = IF i <= arrived THEN printed[i].path ELSE CutPath
<1> DEFINE x == [printed[arrived + 1] EXCEPT !.path = CutPath]
<1>1. printed \in Seq(Entry) /\ arrived \in 0 .. Len(printed)
  BY DEF Lists, Arrives
<1>2. Shows(Seen, x)
  BY DEF Seen, Arrived, Shows
<1> HIDE DEF x
<1>3. PICK n \in arrived .. Len(printed) :
        /\ DOMAIN Seen = 1 .. n /\ n <= arrived + 1
        /\ (n = arrived + 1 => Cut) /\ (~Cut => n = Len(printed))
        /\ \A i \in 1 .. n : Seen[i] = IF i <= arrived THEN printed[i] ELSE x
  BY <1>1, <1>2, ArrivedLines
<1>4. ASSUME NEW i \in 1 .. n
      PROVE  /\ i <= arrived \/ i = arrived + 1
             /\ Seen[i].name = printed[i].name /\ Seen[i].dir = printed[i].dir
             /\ Seen[i].path = IF i <= arrived THEN printed[i].path ELSE CutPath
  <2>1. CASE i <= arrived
    BY <1>3, <2>1
  <2>2. CASE ~(i <= arrived)
    <3>1. i = arrived + 1 /\ i \in 1 .. Len(printed)
      BY <1>1, <1>3, <2>2
    <3>2. printed[i] \in Entry
      BY <1>1, <3>1
    <3>3. x.name = printed[i].name /\ x.dir = printed[i].dir /\ x.path = CutPath
      BY <3>1, <3>2 DEF x, Entry
    <3> QED
      BY <1>3, <2>2, <3>1, <3>3
  <2> QED
    BY <2>1, <2>2
<1> QED
  BY <1>3, <1>4

\* The parser sorts what arrived.
LEMMA SortsEntries ==
  ASSUME NEW n \in Nat, NEW seen, DOMAIN seen = 1 .. n,
         \A i \in 1 .. n : seen[i].name \in Seq(Nat) /\ seen[i].dir \in BOOLEAN
  PROVE  \E order \in [1 .. n -> 1 .. n] :
           /\ Sorted(seen) = [k \in 1 .. n |-> seen[order[k]]]
           /\ \A x \in 1 .. n : \E k \in 1 .. n : order[k] = x
           /\ \A i, j \in 1 .. n : order[i] = order[j] => i = j
           /\ \A i, j \in 1 .. n : i < j => ~ComesBefore(seen[order[j]], seen[order[i]])
<1> DEFINE D == DOMAIN seen
           R == {p \in D \X D : ComesBefore(seen[p[1]], seen[p[2]])}
           place == [x \in D |-> Cardinality({y \in D : ComesBefore(seen[y], seen[x])
                                                  \/ (y < x /\ ~ComesBefore(seen[x], seen[y]))}) + 1]
           order == InPlace(place, D)
           sorted == [k \in DOMAIN order |-> seen[order[k]]]
<1>1. D = 1 .. n /\ D \subseteq Nat /\ IsFiniteSet(D) /\ Cardinality(D) = n
  BY FS_Interval
<1>2. Sorted(seen) = sorted
  BY DEF Sorted, SortedBy, InOrder, InPlace
<1>3. \A i, j \in D : <<i, j>> \in R <=> ComesBefore(seen[i], seen[j])
  OBVIOUS
<1>4. place = Place(Stably(R, D), D)
  <2>1. \A i, j \in D : (<<i, j>> \in Stably(R, D)) <=>
          (ComesBefore(seen[i], seen[j]) \/ (i < j /\ ~ComesBefore(seen[j], seen[i])))
    BY DEF Stably
  <2>2. \A x \in D : {y \in D : <<y, x>> \in Stably(R, D)} =
          {y \in D : ComesBefore(seen[y], seen[x]) \/ (y < x /\ ~ComesBefore(seen[x], seen[y]))}
    BY <2>1
  <2> QED
    BY <2>2 DEF Place
<1> HIDE DEF R, place
<1>5. KeyOrder(R, D)
  <2>1. \A x, y, z \in D :
          /\ ComesBefore(seen[x], seen[y]) => ~ComesBefore(seen[y], seen[x])
          /\ ComesBefore(seen[x], seen[z]) => ComesBefore(seen[x], seen[y]) \/ ComesBefore(seen[y], seen[z])
    BY ComesBeforeIs
  <2> QED
    BY <1>3, <2>1 DEF KeyOrder
<1> HIDE DEF order
<1>6. Sorts(sorted, seen, R)
  BY <1>1, <1>4, <1>5, SortIs DEF order
<1> HIDE DEF sorted, D
<1>7. PICK ord \in [1 .. n -> 1 .. n] :
        /\ sorted = [k \in 1 .. n |-> seen[ord[k]]]
        /\ \A x \in 1 .. n : \E k \in 1 .. n : ord[k] = x
        /\ \A i, j \in 1 .. n : i < j => ord[i] # ord[j] /\ <<ord[j], ord[i]>> \notin R
  BY <1>1, <1>6 DEF Sorts, D
<1>8. \A i, j \in 1 .. n : ord[i] = ord[j] => i = j
  <2>1. \A i, j \in 1 .. n : i # j => i < j \/ j < i
    OBVIOUS
  <2> QED
    BY <1>7, <2>1
<1>9. \A i, j \in 1 .. n : i < j => ~ComesBefore(seen[ord[j]], seen[ord[i]])
  BY <1>1, <1>3, <1>7
<1> QED
  BY <1>2, <1>7, <1>8, <1>9

\* What ListingIsTrue says of a listing.
TrueListing(list, cut, kinds, told) ==
  LET names == {list[i].name : i \in DOMAIN list}
  IN  /\ names \subseteq DOMAIN kinds /\ Cardinality(names) = Len(list)
      /\ ~cut => names = DOMAIN kinds \/ (told = "none" /\ names = {})
      /\ \A i \in DOMAIN list :
           /\ list[i].path = list[i].name \/ (cut /\ list[i].path = CutPath)
           /\ list[i].dir => kinds[list[i].name] # "file"
           /\ kinds[list[i].name] = "dir" => list[i].dir \/ told = "names"
      /\ \A i, j \in DOMAIN list : i < j => list[i].dir \/ ~list[j].dir
      /\ Cardinality({i \in DOMAIN list : list[i].path = CutPath}) <= 1

\* A listing names what arrived, in order.
LEMMA ParsesListing ==
  ASSUME op = "list", Lists(printed), Arrives, Directory, List
  PROVE  ListingIsTrue'
<1> DEFINE list == Sorted(Seen)
<1>1. answer' = Value(list) /\ UNCHANGED <<printed, arrived, entries, access>> /\ Cut' = Cut
  BY DEF List, Parse, host, Cut
<1>2. PICK n \in arrived .. Len(printed) :
        /\ DOMAIN Seen = 1 .. n /\ (n = arrived + 1 => Cut) /\ (~Cut => n = Len(printed))
        /\ \A i \in 1 .. n :
             /\ i <= arrived \/ i = arrived + 1
             /\ Seen[i].name = printed[i].name /\ Seen[i].dir = printed[i].dir
             /\ Seen[i].path = IF i <= arrived THEN printed[i].path ELSE CutPath
  BY SeenEntries
<1>3. /\ n \in Nat /\ arrived \in Nat /\ Len(printed) \in Nat
      /\ \A i \in 1 .. n : i \in 1 .. Len(printed)
      /\ \A i \in 1 .. Len(printed) : printed[i] \in Entry
  <2>1. printed \in Seq(Entry) /\ arrived \in 0 .. Len(printed)
    BY DEF Lists, Arrives
  <2> QED
    BY <1>2, <2>1
<1>4. \A i \in 1 .. n :
        /\ Seen[i].name \in DOMAIN entries /\ Seen[i].name \in Names /\ Seen[i].name \in Seq(Nat)
        /\ Seen[i].dir \in BOOLEAN
        /\ Seen[i].dir => entries[Seen[i].name] # "file"
        /\ entries[Seen[i].name] = "dir" => Seen[i].dir \/ access = "names"
        /\ Seen[i].path = IF i <= arrived THEN Seen[i].name ELSE CutPath
        /\ ~(i <= arrived) => Cut /\ i = arrived + 1
        /\ Seen[i].name # CutPath
  <2>1. ASSUME NEW i \in 1 .. n
        PROVE  ~(i <= arrived) => Cut /\ i = arrived + 1
    BY <1>2, <1>3
  <2>2. \A i \in 1 .. n : printed[i].name \in Names /\ printed[i].dir \in BOOLEAN
    BY <1>3 DEF Entry
  <2>3. \A i \in 1 .. n : printed[i].name \in Seq(Nat) /\ printed[i].name # CutPath
    BY <2>2, NamesAre DEF CutPath
  <2>4. \A i \in 1 .. n :
          /\ printed[i].path = printed[i].name /\ printed[i].name \in DOMAIN entries
          /\ printed[i].dir => entries[printed[i].name] # "file"
          /\ entries[printed[i].name] = "dir" => printed[i].dir \/ access = "names"
    BY <1>3 DEF Lists
  <2> QED
    BY <1>2, <2>1, <2>2, <2>3, <2>4
<1>5. \A i, j \in 1 .. n : Seen[i].name = Seen[j].name => i = j
  <2>1. \A i, j \in 1 .. Len(printed) : printed[i].name = printed[j].name => i = j
    BY DEF Lists
  <2> QED
    BY <1>2, <1>3, <2>1
<1>6. ~Cut => \/ \A e \in DOMAIN entries : \E i \in 1 .. n : Seen[i].name = e
              \/ access = "none" /\ n = 0
  BY <1>2 DEF Lists
<1>7. PICK order \in [1 .. n -> 1 .. n] :
        /\ list = [k \in 1 .. n |-> Seen[order[k]]]
        /\ \A x \in 1 .. n : \E k \in 1 .. n : order[k] = x
        /\ \A i, j \in 1 .. n : order[i] = order[j] => i = j
        /\ \A i, j \in 1 .. n : i < j => ~ComesBefore(Seen[order[j]], Seen[order[i]])
  BY <1>2, <1>3, <1>4, SortsEntries
<1> HIDE DEF list
<1>8. DOMAIN list = 1 .. n /\ Len(list) = n /\ \A k \in 1 .. n : order[k] \in 1 .. n /\ list[k] = Seen[order[k]]
  BY <1>3, <1>7
<1> DEFINE names == {list[i].name : i \in DOMAIN list}
<1>9. /\ names \subseteq DOMAIN entries
      /\ ~Cut => names = DOMAIN entries \/ (access = "none" /\ names = {})
  <2>1. names \subseteq DOMAIN entries
    <3>1. \A i \in 1 .. n : list[i].name \in DOMAIN entries
      BY <1>4, <1>8
    <3> QED
      BY <1>8, <3>1
  <2>2. ASSUME \A e \in DOMAIN entries : \E i \in 1 .. n : Seen[i].name = e,
               NEW e \in DOMAIN entries
        PROVE  e \in names
    <3>1. PICK i \in 1 .. n : Seen[i].name = e
      BY <2>2
    <3>2. PICK k \in 1 .. n : order[k] = i
      BY <1>7
    <3> QED
      BY <1>8, <3>1, <3>2
  <2>3. n = 0 => names = {}
    BY <1>8
  <2> QED
    BY <1>6, <2>1, <2>2, <2>3
<1>10. Cardinality(names) = n
  <2> DEFINE f == [i \in 1 .. n |-> list[i].name]
  <2>1. f \in Surjection(1 .. n, names)
    BY <1>8 DEF Surjection
  <2>2. \A i, j \in 1 .. n : f[i] = f[j] => i = j
    BY <1>5, <1>7, <1>8
  <2> HIDE DEF names
  <2>3. f \in Injection(1 .. n, names)
    BY <2>1, <2>2 DEF Surjection, Injection, IsInjective
  <2>4. IsFiniteSet(1 .. n) /\ Cardinality(1 .. n) = n
    BY <1>3, FS_Interval
  <2> HIDE DEF f
  <2> QED
    BY <2>1, <2>3, <2>4, FS_Surjection
<1>11. \A i \in DOMAIN list :
         /\ list[i].path = list[i].name \/ (Cut /\ list[i].path = CutPath)
         /\ list[i].dir => entries[list[i].name] # "file"
         /\ entries[list[i].name] = "dir" => list[i].dir \/ access = "names"
  BY <1>4, <1>8
<1>12. \A i, j \in DOMAIN list : i < j => list[i].dir \/ ~list[j].dir
  <2>1. SUFFICES ASSUME NEW i \in 1 .. n, NEW j \in 1 .. n, i < j  PROVE list[i].dir \/ ~list[j].dir
    BY <1>8
  <2>2. ~ComesBefore(list[j], list[i]) /\ list[i].dir \in BOOLEAN /\ list[j].dir \in BOOLEAN
    BY <1>4, <1>7, <1>8, <2>1
  <2> QED
    BY <2>2 DEF ComesBefore
<1>13. Cardinality({i \in DOMAIN list : list[i].path = CutPath}) <= 1
  <2>1. ASSUME NEW i \in DOMAIN list, list[i].path = CutPath  PROVE order[i] = arrived + 1
    BY <1>4, <1>8, <2>1
  <2>2. ASSUME NEW i \in {k \in DOMAIN list : list[k].path = CutPath},
               NEW j \in {k \in DOMAIN list : list[k].path = CutPath}
        PROVE  i = j
    <3>1. order[i] = arrived + 1 /\ order[j] = arrived + 1 /\ i \in 1 .. n /\ j \in 1 .. n
      BY <1>8, <2>1
    <3> QED
      BY <1>7, <3>1
  <2> QED
    BY <2>2, OneAtMost
<1>14. answer'.value = list
  BY <1>1 DEF Value
<1>15. TrueListing(list, Cut, entries, access)
  BY <1>8, <1>9, <1>10, <1>11, <1>12, <1>13 DEF TrueListing
<1>16. TrueListing(answer'.value, Cut', entries', access')
  BY <1>1, <1>14, <1>15
<1> QED
  BY <1>16 DEF ListingIsTrue, TrueListing

-----------------------------------------------------------------------------
(* Letters in order                                                        *)

\* What fuzzy_subsequence_match makes of one letter of the haystack.
FuzzyStep(found, letter, needle) ==
  IF found < Len(needle) /\ letter = needle[found + 1] THEN found + 1 ELSE found

FuzzyTrace(needle, haystack, last) ==
  \E T \in [0 .. Len(haystack) -> Nat] :
    /\ T[0] = 0
    /\ \A k \in 1 .. Len(haystack) : T[k] = FuzzyStep(T[k - 1], haystack[k], needle)
    /\ T[Len(haystack)] = last

\* It goes through the haystack by such steps.
Fuzzy(needle, haystack) ==
  \E last \in Nat : /\ FuzzyTrace(needle, haystack, last)
                    /\ FuzzyMatch(needle, haystack) <=> needle # <<>> /\ last = Len(needle)

LEMMA FuzzyFold ==
  ASSUME NEW needle \in Seq(Int), NEW haystack \in Seq(Int)
  PROVE  Fuzzy(needle, haystack)
<1> DEFINE fstep == [p \in Nat \X Int |-> FuzzyStep(p[1], p[2], needle)]
           body(it) == [s \in SUBSET DOMAIN haystack |->
                          IF s = {} THEN 0 ELSE FuzzyStep(it[s \ {Max(s)}], haystack[Max(s)], needle)]
           iter == CHOOSE it : it = body(it)
<1>1. haystack \in Seq(Int) /\ Len(haystack) \in Nat /\ DOMAIN haystack = 1 .. Len(haystack)
  OBVIOUS
<1>2. FuzzyMatch(needle, haystack) <=> needle # <<>> /\ iter[DOMAIN haystack] = Len(needle)
  BY DEF FuzzyMatch, FoldLeft, MapThenFoldSet, FuzzyStep
<1>3. \A found \in Nat, x \in Int : FuzzyStep(found, x, needle) \in Nat
  BY DEF FuzzyStep
<1>4. \A found \in Nat, x \in Int : fstep[<<found, x>>] = FuzzyStep(found, x, needle)
  OBVIOUS
<1>5. IsStep(fstep, Nat, Int) /\ 0 \in Nat
  BY <1>3 DEF IsStep
<1> HIDE DEF fstep, body, iter
<1>6. PICK it : IsFold(it, Nat, Int, 0, fstep, haystack)
  BY <1>1, <1>5, FoldExists
<1>7. it = body(it)
  <2>1. \A s \in SUBSET DOMAIN haystack : s # {} =>
          fstep[<<it[s \ {Max(s)}], haystack[Max(s)]>>] = FuzzyStep(it[s \ {Max(s)}], haystack[Max(s)], needle)
    BY <1>4, <1>6 DEF IsFold
  <2> QED
    BY <1>6, <2>1 DEF IsFold, FoldOver, body
<1>8. iter = body(iter)
  BY <1>7 DEF iter
<1>9. IsRun(iter, Nat, 0, fstep, haystack)
  <2>1. iter[{}] = 0
    BY <1>8 DEF body
  <2>2. ASSUME NEW k \in 1 .. Len(haystack), iter[1 .. k - 1] \in Nat
        PROVE  iter[1 .. k] = fstep[<<iter[1 .. k - 1], haystack[k]>>]
    <3>1. k \in Nat /\ k # 0 /\ 1 .. k \in SUBSET DOMAIN haystack /\ haystack[k] \in Int
      BY <1>1
    <3>2. 1 .. k # {} /\ Max(1 .. k) = k /\ (1 .. k) \ {k} = 1 .. k - 1
      BY <3>1, Positions
    <3>3. iter[1 .. k] = FuzzyStep(iter[1 .. k - 1], haystack[k], needle)
      BY <1>8, <3>1, <3>2 DEF body
    <3> QED
      BY <1>4, <2>2, <3>1, <3>3
  <2> QED
    BY <2>1, <2>2 DEF IsRun
<1>10. HasTrace(Nat, 0, fstep, haystack, iter[DOMAIN haystack])
  BY <1>1, <1>5, <1>9, FoldTrace
<1>11. PICK T \in [0 .. Len(haystack) -> Nat] :
         /\ T[0] = 0
         /\ \A k \in 1 .. Len(haystack) : T[k] = fstep[<<T[k - 1], haystack[k]>>]
         /\ T[Len(haystack)] = iter[DOMAIN haystack]
  BY <1>10 DEF HasTrace
<1>12. ASSUME NEW k \in 1 .. Len(haystack)  PROVE T[k] = FuzzyStep(T[k - 1], haystack[k], needle)
  <2>1. k - 1 \in 0 .. Len(haystack) /\ haystack[k] \in Int
    BY <1>1
  <2> QED
    BY <1>4, <1>11, <2>1
<1>13. iter[DOMAIN haystack] \in Nat
  <2>1. Len(haystack) \in 0 .. Len(haystack)
    BY <1>1
  <2> QED
    BY <1>11, <2>1
<1> QED
  BY <1>2, <1>11, <1>12, <1>13 DEF Fuzzy, FuzzyTrace

\* The first m letters of a occur in order among the first k of b.
Embeds(a, m, b, k) ==
  \E f \in [1 .. m -> 1 .. k] :
    /\ \A i, j \in 1 .. m : i < j => f[i] < f[j]
    /\ \A i \in 1 .. m : a[i] = b[f[i]]

\* It finds the needle where its letters occur in order: what it has found occurs
\* in what it has read, and it never lags behind an occurrence.
LEMMA FuzzyIs ==
  ASSUME NEW needle \in Seq(Int), NEW haystack \in Seq(Int), needle # <<>>
  PROVE  FuzzyMatch(needle, haystack) <=> Subsequence(needle, haystack)
<1> DEFINE m == Len(needle)
           n == Len(haystack)
<1>1. /\ m \in Nat /\ n \in Nat /\ DOMAIN needle = 1 .. m /\ DOMAIN haystack = 1 .. n
  OBVIOUS
<1>2. Fuzzy(needle, haystack)
  BY FuzzyFold
<1>3. PICK last \in Nat : /\ FuzzyTrace(needle, haystack, last)
                          /\ FuzzyMatch(needle, haystack) <=> last = m
  BY <1>2 DEF Fuzzy
<1>4. PICK T \in [0 .. n -> Nat] :
        /\ T[0] = 0
        /\ \A k \in 1 .. n : T[k] = FuzzyStep(T[k - 1], haystack[k], needle)
        /\ T[n] = last
  BY <1>3 DEF FuzzyTrace
<1>5. Subsequence(needle, haystack) <=> Embeds(needle, m, haystack, n)
  BY <1>1 DEF Subsequence, Embeds
<1> HIDE DEF m, n
<1>6. \A k \in 1 .. n :
        /\ T[k] \in Nat /\ T[k - 1] \in Nat /\ k - 1 \in 0 .. n /\ k \in 0 .. n
        /\ T[k] = IF T[k - 1] < m /\ haystack[k] = needle[T[k - 1] + 1] THEN T[k - 1] + 1 ELSE T[k - 1]
  <2>1. \A k \in 1 .. n : k - 1 \in 0 .. n /\ k \in 0 .. n
    BY <1>1
  <2> QED
    BY <1>4, <2>1 DEF FuzzyStep, m
<1>7. ASSUME NEW k \in 0 .. n - 1
      PROVE  /\ k + 1 \in 1 .. n /\ k + 1 \in 0 .. n /\ k \in Nat /\ T[k] \in Nat
             /\ T[k + 1] = IF T[k] < m /\ haystack[k + 1] = needle[T[k] + 1] THEN T[k] + 1 ELSE T[k]
  <2>1. k + 1 \in 1 .. n /\ (k + 1) - 1 = k /\ k + 1 \in 0 .. n /\ k \in Nat
    BY <1>1
  <2>2. \A j \in 1 .. n : j = k + 1 => T[j - 1] = T[k]
    BY <2>1
  <2> QED
    BY <1>6, <2>1, <2>2
<1>8. T[n] <= m /\ Embeds(needle, T[n], haystack, n)
  <2> DEFINE S == {k \in 0 .. n : T[k] <= m /\ Embeds(needle, T[k], haystack, k)}
  <2>1. 0 \in S
    <3>1. Embeds(needle, 0, haystack, 0)
      <4>1. [i \in 1 .. 0 |-> 1] \in [1 .. 0 -> 1 .. 0] /\ 1 .. 0 = {}
        OBVIOUS
      <4> QED
        BY <4>1 DEF Embeds
    <3> QED
      BY <1>1, <1>4, <3>1
  <2>2. ASSUME NEW k \in 0 .. n - 1, k \in S  PROVE k + 1 \in S
    <3>1. /\ T[k] \in Nat /\ T[k] <= m /\ k \in Nat
          /\ T[k + 1] = IF T[k] < m /\ haystack[k + 1] = needle[T[k] + 1] THEN T[k] + 1 ELSE T[k]
      BY <1>7, <2>2
    <3>2. PICK f \in [1 .. T[k] -> 1 .. k] :
            /\ \A i, j \in 1 .. T[k] : i < j => f[i] < f[j]
            /\ \A i \in 1 .. T[k] : needle[i] = haystack[f[i]]
      BY <2>2 DEF Embeds
    <3> HIDE DEF S
    <3>3. CASE T[k] < m /\ haystack[k + 1] = needle[T[k] + 1]
      <4> DEFINE t == T[k]
                 g == [i \in 1 .. t + 1 |-> IF i = t + 1 THEN k + 1 ELSE f[i]]
      <4>1. T[k + 1] = t + 1 /\ t + 1 <= m /\ t \in Nat
        BY <1>1, <3>1, <3>3
      <4>2. /\ \A i, j \in 1 .. t : i < j => f[i] < f[j]
            /\ \A i \in 1 .. t : f[i] \in 1 .. k /\ needle[i] = haystack[f[i]]
            /\ haystack[k + 1] = needle[t + 1]
        BY <3>2, <3>3
      <4> HIDE DEF t
      <4>3. \A i \in 1 .. t + 1 : i \in 1 .. t \/ i = t + 1
        BY <4>1
      <4>4. \A i \in 1 .. t : g[i] = f[i] /\ i # t + 1 /\ i \in 1 .. t + 1
        BY <4>1
      <4>5. g[t + 1] = k + 1
        BY <4>1
      <4>6. g \in [1 .. t + 1 -> 1 .. k + 1]
        <5>1. \A i \in 1 .. k : i \in 1 .. k + 1
          BY <3>1
        <5>2. k + 1 \in 1 .. k + 1
          BY <3>1
        <5> QED
          BY <4>2, <4>3, <5>1, <5>2
      <4> HIDE DEF g
      <4>7. ASSUME NEW i \in 1 .. t + 1, NEW j \in 1 .. t + 1, i < j  PROVE g[i] < g[j]
        <5>1. i \in 1 .. t
          BY <4>1, <4>7
        <5>2. CASE j = t + 1
          <6>1. f[i] < k + 1
            <7>1. f[i] \in 1 .. k
              BY <4>2, <5>1
            <7> QED
              BY <7>1
          <6> QED
            BY <4>4, <4>5, <5>1, <5>2, <6>1
        <5>3. CASE j # t + 1
          BY <4>2, <4>3, <4>4, <4>7, <5>1, <5>3
        <5> QED
          BY <5>2, <5>3
      <4>8. \A i \in 1 .. t + 1 : needle[i] = haystack[g[i]]
        BY <4>2, <4>3, <4>4, <4>5
      <4>9. Embeds(needle, t + 1, haystack, k + 1)
        BY <4>6, <4>7, <4>8 DEF Embeds
      <4> QED
        BY <1>7, <4>1, <4>9 DEF S
    <3>4. CASE ~(T[k] < m /\ haystack[k + 1] = needle[T[k] + 1])
      <4>1. T[k + 1] = T[k]
        BY <3>1, <3>4
      <4>2. f \in [1 .. T[k] -> 1 .. k + 1]
        <5>1. \A i \in 1 .. k : i \in 1 .. k + 1
          BY <3>1
        <5> QED
          BY <3>2, <5>1
      <4>3. Embeds(needle, T[k], haystack, k + 1)
        BY <3>2, <4>2 DEF Embeds
      <4> QED
        BY <1>7, <3>1, <4>1, <4>3 DEF S
    <3> QED
      BY <3>3, <3>4
  <2> HIDE DEF S
  <2>3. n \in S
    <3>1. n \in 0 .. n
      BY <1>1
    <3> QED
      BY <1>1, <2>1, <2>2, <3>1, UpTo
  <2> QED
    BY <2>3 DEF S
<1>9. ASSUME Embeds(needle, m, haystack, n)  PROVE T[n] >= m
  <2>1. PICK f \in [1 .. m -> 1 .. n] :
          /\ \A i, j \in 1 .. m : i < j => f[i] < f[j]
          /\ \A i \in 1 .. m : needle[i] = haystack[f[i]]
    BY <1>9 DEF Embeds
  <2> DEFINE Reads(k) == {i \in 1 .. m : f[i] <= k}
             S == {k \in 0 .. n : \A i \in 1 .. m : f[i] <= k => i <= T[k]}
  <2>2. \A i \in 1 .. m : f[i] \in 1 .. n /\ f[i] \in Int /\ f[i] >= 1
    BY <1>1, <2>1
  <2>3. 0 \in S
    BY <1>1, <2>2
  <2>4. ASSUME NEW k \in 0 .. n - 1, k \in S  PROVE k + 1 \in S
    <3>1. T[k] \in Nat /\ k \in Nat /\ k + 1 \in 1 .. n
      BY <1>7
    <3>2. \A i \in 1 .. m : f[i] <= k => i <= T[k]
      BY <2>4
    <3>3. T[k + 1] = IF T[k] < m /\ haystack[k + 1] = needle[T[k] + 1] THEN T[k] + 1 ELSE T[k]
      BY <1>7
    <3>4. ASSUME NEW i \in 1 .. m, f[i] <= k + 1  PROVE i <= T[k + 1]
      <4>1. T[k + 1] \in Nat /\ T[k] <= T[k + 1]
        BY <3>1, <3>3
      <4>2. CASE f[i] <= k
        <5>1. i <= T[k]
          BY <3>2, <4>2
        <5> QED
          BY <3>1, <4>1, <5>1
      <4>3. CASE ~(f[i] <= k)
        <5>1. f[i] = k + 1
          <6>1. f[i] \in Int /\ f[i] <= k + 1 /\ ~(f[i] <= k)
            BY <2>2, <3>4, <4>3
          <6> QED
            BY <3>1, <6>1
        <5>2. i = 1 \/ i - 1 <= T[k]
          <6>1. CASE i # 1
            <7>1. i - 1 \in 1 .. m /\ i - 1 < i
              BY <1>1, <6>1
            <7>2. f[i - 1] < k + 1
              BY <2>1, <5>1, <7>1
            <7>3. f[i - 1] <= k
              BY <2>2, <3>1, <7>1, <7>2
            <7> QED
              BY <3>2, <7>1, <7>3
          <6> QED
            BY <6>1
        <5>3. i - 1 <= T[k] /\ i \in Nat /\ i <= m
          BY <1>1, <3>1, <5>2
        <5>4. CASE i <= T[k]
          BY <3>1, <4>1, <5>3, <5>4
        <5>5. CASE ~(i <= T[k])
          <6>1. i = T[k] + 1 /\ T[k] < m
            <7>1. i \in Nat /\ i <= m /\ i - 1 <= T[k] /\ ~(i <= T[k])
              BY <5>3, <5>5
            <7>2. \A x, t, l \in Nat : x <= l /\ x - 1 <= t /\ ~(x <= t) => x = t + 1 /\ t < l
              OBVIOUS
            <7> QED
              BY <1>1, <3>1, <7>1, <7>2
          <6>2. haystack[k + 1] = needle[T[k] + 1]
            BY <2>1, <5>1, <6>1
          <6> QED
            BY <3>3, <6>1, <6>2
        <5> QED
          BY <5>4, <5>5
      <4> QED
        BY <4>2, <4>3
    <3> QED
      BY <1>7, <3>4
  <2> HIDE DEF S
  <2>5. n \in S
    <3>1. n \in 0 .. n
      BY <1>1
    <3> QED
      BY <1>1, <2>3, <2>4, <3>1, UpTo
  <2>6. m \in 1 .. m
    BY <1>1 DEF m
  <2>7. f[m] <= n
    BY <1>1, <2>2, <2>6
  <2>8. m <= T[n]
    BY <2>5, <2>6, <2>7 DEF S
  <2>9. T[n] \in Nat
    BY <1>3, <1>4
  <2> QED
    BY <1>1, <2>8, <2>9
<1>10. T[n] = m <=> Embeds(needle, m, haystack, n)
  <2>1. T[n] \in Nat
    BY <1>3, <1>4
  <2> QED
    BY <1>1, <1>8, <1>9, <2>1
<1> QED
  BY <1>3, <1>4, <1>5, <1>10

-----------------------------------------------------------------------------
(* The directory that is resolved                                          *)

\* Where a name begins another, its letters occur in it in order.
LEMMA PrefixEmbeds ==
  ASSUME NEW a \in Seq(Int), NEW b \in Seq(Int), IsPrefix(a, b)
  PROVE  Subsequence(a, b)
<1> DEFINE f == [i \in DOMAIN a |-> i]
<1>1. /\ DOMAIN a = 1 .. Len(a) /\ DOMAIN b = 1 .. Len(b) /\ Len(a) \in Nat /\ Len(b) \in Nat
      /\ Len(a) <= Len(b) /\ \A i \in 1 .. Len(a) : a[i] = b[i]
  BY PrefixIs
<1>2. f \in [DOMAIN a -> DOMAIN b]
  BY <1>1
<1>3. /\ \A i, j \in DOMAIN a : i < j => f[i] < f[j]
      /\ \A i \in DOMAIN a : a[i] = b[f[i]]
  BY <1>1
<1> QED
  BY <1>2, <1>3 DEF Subsequence

\* The only one of some positions.
LEMMA UniqueIs ==
  ASSUME NEW n \in Nat, NEW S \in SUBSET (1 .. n), Unique(S) # {}
  PROVE  \E k \in 1 .. n : S = {k} /\ Min(Unique(S)) = k
<1>1. Unique(S) = S /\ Cardinality(S) = 1
  BY DEF Unique
<1>2. IsFiniteSet(S)
  <2>1. IsFiniteSet(1 .. n)
    BY FS_Interval
  <2> QED
    BY <2>1, FS_Subset
<1>3. PICK k : S = {k}
  BY <1>1, <1>2, FS_Singleton
<1>4. k \in 1 .. n /\ k \in Int
  BY <1>3
<1>5. Min({k}) = k
  BY <1>4 DEF Min
<1> QED
  BY <1>1, <1>3, <1>4, <1>5

\* What is chosen is the only one that begins with the name, or, where none does,
\* the only one with its letters in order.
BeginsAt(name, n, list) == {i \in 1 .. n : IsPrefix(Lower(name), Lower(list[i].name))}
FuzzyAt(name, n, list) == {i \in 1 .. n : Subsequence(Lower(name), Lower(list[i].name))}

LEMMA ChooseIs ==
  ASSUME NEW name \in Names, NEW n \in Nat, NEW list, DOMAIN list = 1 .. n,
         \A i \in 1 .. n : list[i].name \in Names, Choose(name, list) # name
  PROVE  \E k \in 1 .. n :
           /\ Choose(name, list) = list[k].path
           /\ \/ BeginsAt(name, n, list) = {k}
              \/ BeginsAt(name, n, list) = {} /\ FuzzyAt(name, n, list) = {k}
<1> DEFINE wanted == Lower(name)
           B == BeginsAt(name, n, list)
           C == FuzzyAt(name, n, list)
<1>1. wanted \in Seq(Int) /\ wanted # <<>>
  <2>1. name \in Seq(Nat) /\ name # <<>>
    BY NamesAre
  <2>2. wanted \in Seq(Int) /\ Len(wanted) = Len(name)
    BY <2>1, LowerIs
  <2>3. Len(name) # 0
    BY <2>1
  <2> HIDE DEF wanted
  <2> QED
    BY <2>2, <2>3
<1>2. \A i \in 1 .. n : Lower(list[i].name) \in Seq(Int)
  BY NamesAre, LowerIs
<1>3. B = {i \in DOMAIN list : IsPrefix(wanted, Lower(list[i].name))} /\ B \in SUBSET (1 .. n)
  BY DEF BeginsAt
<1> HIDE DEF wanted
<1>4. C = {i \in DOMAIN list : FuzzyMatch(wanted, Lower(list[i].name))} /\ C \in SUBSET (1 .. n)
  <2>1. \A i \in 1 .. n : FuzzyMatch(wanted, Lower(list[i].name)) <=> Subsequence(wanted, Lower(list[i].name))
    BY <1>1, <1>2, FuzzyIs
  <2> QED
    BY <2>1 DEF FuzzyAt, wanted
<1>5. B \subseteq C
  BY <1>1, <1>2, PrefixEmbeds DEF BeginsAt, FuzzyAt, wanted
<1>6. Choose(name, list) = IF Unique(B) # {} THEN list[Min(Unique(B))].path
                           ELSE IF Unique(C) # {} THEN list[Min(Unique(C))].path ELSE name
  BY <1>3, <1>4 DEF Choose, wanted
<1> HIDE DEF B, C
<1>7. CASE Unique(B) # {}
  <2>1. PICK k \in 1 .. n : B = {k} /\ Min(Unique(B)) = k
    BY <1>3, <1>7, UniqueIs
  <2> QED
    BY <1>6, <1>7, <2>1 DEF B
<1>8. CASE Unique(B) = {} /\ Unique(C) # {}
  <2>1. PICK k \in 1 .. n : C = {k} /\ Min(Unique(C)) = k
    BY <1>4, <1>8, UniqueIs
  <2>2. B = {}
    <3>1. SUFFICES ASSUME B = {k}  PROVE FALSE
      BY <1>5, <2>1
    <3>2. Cardinality(B) = 1
      BY <3>1, FS_Singleton
    <3> QED
      BY <1>8, <3>1, <3>2 DEF Unique
  <2> QED
    BY <1>6, <1>8, <2>1, <2>2 DEF B, C
<1> QED
  BY <1>6, <1>7, <1>8

LEMMA PrintsPaths ==
  ASSUME Directory, PrintPaths, requested \notin Directories
  PROVE  Beside(printed')
<1>0. CASE printed' = <<>>
  <2>1. <<>> \in Seq([name : Names, path : Names]) /\ 1 .. Len(<<>>) = {}
    <3> DEFINE R == [name : Names, path : Names]
    <3> HIDE DEF R
    <3>1. <<>> \in Seq(R) /\ 1 .. Len(<<>>) = {}
      OBVIOUS
    <3> QED
      BY <3>1 DEF R
  <2> QED
    BY <1>0, <2>1 DEF Beside
<1> SUFFICES ASSUME printed' # <<>>  PROVE Beside(printed')
  BY <1>0
<1>1. PICK names \in SetToSeqs(Directories) :
        printed' = [i \in DOMAIN names |-> [name |-> names[i], path |-> names[i]]]
  BY DEF PrintPaths, Prints
<1> DEFINE n == Len(names)
           p == printed'
<1>2. Directories \subseteq Names /\ IsFiniteSet(Directories)
  <2>1. Directories \in SUBSET DOMAIN entries
    BY DEF Directories
  <2> QED
    BY <2>1, FS_Subset DEF Directory
<1>3. names \in Seq(Directories) /\ n \in Nat /\ DOMAIN names = 1 .. n
  BY <1>2, SeqsOf
<1>4. \A i \in 1 .. n : names[i] \in Directories
  BY <1>3
<1> HIDE DEF n
<1>5. /\ p = [i \in 1 .. n |-> p[i]]
      /\ \A i \in 1 .. n : p[i] = [name |-> names[i], path |-> names[i]]
  BY <1>1, <1>3
<1> HIDE DEF p
<1>6. \A i \in 1 .. n : /\ p[i] \in [name : Names, path : Names]
                        /\ p[i].path = p[i].name /\ p[i].name \in Directories
  BY <1>2, <1>4, <1>5
<1>7. p \in Seq([name : Names, path : Names]) /\ Len(p) = n
  <2> DEFINE R == [name : Names, path : Names]
  <2>1. \A i \in 1 .. n : p[i] \in R
    BY <1>6
  <2> HIDE DEF R
  <2>2. p \in [1 .. n -> R]
    BY <1>5, <2>1
  <2>3. p \in Seq(R) /\ Len(p) = n
    BY <1>3, <2>2
  <2> QED
    BY <2>3 DEF R
<1>8. Beside(p)
  BY <1>6, <1>7 DEF Beside
<1> QED
  BY <1>8 DEF p

\* What of it arrived.
LEMMA SeenPaths ==
  ASSUME Beside(printed), Arrives
  PROVE  \E n \in Nat :
           /\ DOMAIN Seen = 1 .. n
           /\ \A i \in 1 .. n :
                /\ Seen[i].name \in Directories
                /\ Seen[i].path = Seen[i].name \/ (Cut /\ Seen[i].path = CutPath)
<1> DEFINE x == [printed[arrived + 1] EXCEPT !.path = CutPath]
           R == [name : Names, path : Names]
<1>1. printed \in Seq(R) /\ arrived \in 0 .. Len(printed) /\ Len(printed) \in Nat
  BY DEF Beside, Arrives
<1>2. Shows(Seen, x)
  BY DEF Seen, Arrived, Shows
<1> HIDE DEF x, R
<1>3. PICK n \in arrived .. Len(printed) :
        /\ DOMAIN Seen = 1 .. n /\ n <= arrived + 1
        /\ (n = arrived + 1 => Cut) /\ (~Cut => n = Len(printed))
        /\ \A i \in 1 .. n : Seen[i] = IF i <= arrived THEN printed[i] ELSE x
  BY <1>1, <1>2, ArrivedLines
<1>4. ASSUME NEW i \in 1 .. n
      PROVE  /\ Seen[i].name \in Directories
             /\ Seen[i].path = Seen[i].name \/ (Cut /\ Seen[i].path = CutPath)
  <2>1. i \in 1 .. Len(printed)
    BY <1>1
  <2>2. printed[i].path = printed[i].name /\ printed[i].name \in Directories
    BY <2>1 DEF Beside
  <2>3. CASE i <= arrived
    BY <1>3, <2>2, <2>3
  <2>4. CASE ~(i <= arrived)
    <3>1. i = arrived + 1 /\ Cut
      BY <1>1, <1>3, <2>4
    <3>2. printed[i] \in R
      BY <1>1, <2>1
    <3>3. x.name = printed[i].name /\ x.path = CutPath
      BY <3>1, <3>2 DEF x, R
    <3> QED
      BY <1>3, <2>2, <2>4, <3>1, <3>3
  <2> QED
    BY <2>3, <2>4
<1>5. n \in Nat
  BY <1>1
<1> QED
  BY <1>3, <1>4, <1>5

\* The answer is the only match of what arrived, or a path that was cut.
LEMMA ParsesPaths ==
  ASSUME op = "resolve", Directory, requested \in Names, Arrives, Resolve,
         requested \notin Directories => Beside(printed)
  PROVE  ResolvesUniquely'
<1>1. /\ UNCHANGED <<printed, arrived, piece, entries, requested>>
      /\ answer' = Value(answer'.value)
      /\ answer'.value =
           IF arrived = 0 /\ piece = "none" THEN requested
           ELSE IF requested \in Directories THEN IF Cut THEN CutPath ELSE requested
           ELSE IF arrived = 0 /\ piece = "early" THEN CutPath
           ELSE Choose(requested, Seen)
  BY DEF Resolve, Parse, host, Value
<1>2. Cut' = Cut /\ Seen' = Seen /\ Directories' = Directories
  BY <1>1 DEF Cut, Seen, Arrived, Directories
<1> DEFINE v == answer'.value
           wanted == Lower(requested)
           seen == {line.name : line \in ToSet(Seen)}
           begins == {n \in seen : IsPrefix(wanted, Lower(n))}
           fuzzy == {n \in seen : Subsequence(wanted, Lower(n))}
<1>3. ASSUME v # requested
      PROVE  \/ Cut /\ v = CutPath
             \/ v \in Directories /\ (begins = {v} \/ (begins = {} /\ fuzzy = {v}))
  <2>1. CASE requested \in Directories
    BY <1>1, <1>3, <2>1
  <2>2. CASE arrived = 0 /\ piece = "early"
    <3>1. Cut
      BY <2>2 DEF Arrives, Cut
    <3> QED
      BY <1>1, <1>3, <2>2, <3>1
  <2>3. CASE requested \notin Directories /\ ~(arrived = 0 /\ piece = "early")
    <3>1. v = Choose(requested, Seen) /\ Beside(printed)
      BY <1>1, <1>3, <2>3
    <3>2. PICK n \in Nat :
            /\ DOMAIN Seen = 1 .. n
            /\ \A i \in 1 .. n :
                 /\ Seen[i].name \in Directories
                 /\ Seen[i].path = Seen[i].name \/ (Cut /\ Seen[i].path = CutPath)
      BY <3>1, SeenPaths
    <3>3. \A i \in 1 .. n : Seen[i].name \in Names
      BY <3>2 DEF Directory, Directories
    <3>4. PICK k \in 1 .. n :
            /\ v = Seen[k].path
            /\ \/ BeginsAt(requested, n, Seen) = {k}
               \/ BeginsAt(requested, n, Seen) = {} /\ FuzzyAt(requested, n, Seen) = {k}
      BY <1>3, <3>1, <3>2, <3>3, ChooseIs
    <3> DEFINE r == Seen[k].name
    <3>5. seen = {Seen[i].name : i \in 1 .. n}
      BY <3>2 DEF ToSet
    <3> HIDE DEF seen
    <3>6. begins = {Seen[i].name : i \in BeginsAt(requested, n, Seen)}
      BY <3>5 DEF BeginsAt
    <3>7. fuzzy = {Seen[i].name : i \in FuzzyAt(requested, n, Seen)}
      BY <3>5 DEF FuzzyAt
    <3> HIDE DEF begins, fuzzy, v
    <3>8. begins = {r} \/ (begins = {} /\ fuzzy = {r})
      BY <3>4, <3>6, <3>7
    <3>9. r \in Directories /\ (v = r \/ (Cut /\ v = CutPath))
      BY <3>2, <3>4
    <3> QED
      BY <3>8, <3>9
  <2> QED
    BY <2>1, <2>2, <2>3
<1>4. wanted = Lower(requested)' /\ seen = {line.name : line \in ToSet(Seen')}
  BY <1>1, <1>2 DEF Lower
<1> QED
  BY <1>1, <1>2, <1>3, <1>4 DEF ResolvesUniquely

-----------------------------------------------------------------------------
(* Suggestions                                                             *)

\* What a help text or names are made into, and the order of it.
Suggestion == [token : Seq(Nat), text : Nat]

LEMMA ItemBeforeIs ==
  ASSUME NEW a \in Suggestion, NEW b \in Suggestion, NEW c \in Suggestion
  PROVE  /\ ItemBefore(a, b) => ~ItemBefore(b, a)
         /\ ItemBefore(a, c) => ItemBefore(a, b) \/ ItemBefore(b, c)
<1> DEFINE k(x) == Lower(x.token)
<1>1. /\ k(a) \in Seq(Int) /\ k(b) \in Seq(Int) /\ k(c) \in Seq(Int)
      /\ a.text \in Nat /\ b.text \in Nat /\ c.text \in Nat
  BY LowerIs DEF Suggestion
<1>2. \A x, y \in {a, b, c} : ItemBefore(x, y) <=>
        LexLess(k(x), k(y)) \/ (k(x) = k(y) /\ x.text < y.text)
  BY DEF ItemBefore
<1> HIDE DEF k
<1>3. /\ ~LexLess(k(a), k(a)) /\ ~LexLess(k(b), k(b))
      /\ LexLess(k(a), k(b)) => ~LexLess(k(b), k(a))
      /\ LexLess(k(a), k(c)) => LexLess(k(a), k(b)) \/ LexLess(k(b), k(c))
      /\ k(a) # k(b) => LexLess(k(a), k(b)) \/ LexLess(k(b), k(a))
  BY <1>1, LexOrder
<1>4. ItemBefore(a, b) => ~ItemBefore(b, a)
  <2>1. ~(a.text < b.text /\ b.text < a.text)
    BY <1>1
  <2> QED
    BY <1>2, <1>3, <2>1
<1>5. ASSUME ItemBefore(a, c)  PROVE ItemBefore(a, b) \/ ItemBefore(b, c)
  <2>1. CASE LexLess(k(a), k(c))
    BY <1>2, <1>3, <2>1
  <2>2. CASE k(a) = k(c) /\ a.text < c.text
    <3>1. a.text < b.text \/ b.text < c.text
      BY <1>1, <2>2
    <3> QED
      BY <1>2, <1>3, <2>2, <3>1
  <2> QED
    BY <1>2, <1>5, <2>1, <2>2
<1> QED
  BY <1>4, <1>5

\* All of what was taken, in this order.
InItemOrder(sorted, taken) ==
  /\ sorted \in Seq(Suggestion)
  /\ \A k \in 1 .. Len(sorted) : \E i \in DOMAIN taken : sorted[k] = taken[i]
  /\ \A i \in DOMAIN taken : \E k \in 1 .. Len(sorted) : sorted[k] = taken[i]
  /\ \A j, k \in 1 .. Len(sorted) : j < k => ~ItemBefore(sorted[k], sorted[j])

LEMMA SortsSuggestions ==
  ASSUME NEW taken, DOMAIN taken \subseteq Nat, IsFiniteSet(DOMAIN taken),
         \A i \in DOMAIN taken : taken[i] \in Suggestion
  PROVE  InItemOrder(SortedBy(taken, ItemBefore), taken)
<1> DEFINE D == DOMAIN taken
           R == {p \in D \X D : ItemBefore(taken[p[1]], taken[p[2]])}
           place == [x \in D |-> Cardinality({y \in D : ItemBefore(taken[y], taken[x])
                                                  \/ (y < x /\ ~ItemBefore(taken[x], taken[y]))}) + 1]
           order == InPlace(place, D)
           sorted == [k \in DOMAIN order |-> taken[order[k]]]
<1>1. SortedBy(taken, ItemBefore) = sorted
  BY DEF SortedBy, InOrder, InPlace
<1>2. \A i, j \in D : <<i, j>> \in R <=> ItemBefore(taken[i], taken[j])
  OBVIOUS
<1>3. place = Place(Stably(R, D), D)
  <2>1. \A i, j \in D : (<<i, j>> \in Stably(R, D)) <=>
          (ItemBefore(taken[i], taken[j]) \/ (i < j /\ ~ItemBefore(taken[j], taken[i])))
    BY DEF Stably
  <2>2. \A x \in D : {y \in D : <<y, x>> \in Stably(R, D)} =
          {y \in D : ItemBefore(taken[y], taken[x]) \/ (y < x /\ ~ItemBefore(taken[x], taken[y]))}
    BY <2>1
  <2> QED
    BY <2>2 DEF Place
<1> HIDE DEF R, place
<1>4. KeyOrder(R, D)
  <2>1. \A x, y, z \in D :
          /\ ItemBefore(taken[x], taken[y]) => ~ItemBefore(taken[y], taken[x])
          /\ ItemBefore(taken[x], taken[z]) => ItemBefore(taken[x], taken[y]) \/ ItemBefore(taken[y], taken[z])
    BY ItemBeforeIs
  <2> QED
    BY <1>2, <2>1 DEF KeyOrder
<1> HIDE DEF order
<1>5. Sorts(sorted, taken, R)
  BY <1>3, <1>4, SortIs DEF order
<1> DEFINE n == Cardinality(D)
<1> HIDE DEF sorted
<1>6. PICK ord \in [1 .. n -> D] :
        /\ n \in Nat
        /\ sorted = [k \in 1 .. n |-> taken[ord[k]]]
        /\ \A x \in D : \E k \in 1 .. n : ord[k] = x
        /\ \A i, j \in 1 .. n : i < j => ord[i] # ord[j] /\ <<ord[j], ord[i]>> \notin R
  BY <1>5 DEF Sorts
<1> HIDE DEF n
<1>7. \A k \in 1 .. n : ord[k] \in D /\ sorted[k] = taken[ord[k]] /\ sorted[k] \in Suggestion
  BY <1>6
<1>8. sorted \in Seq(Suggestion) /\ Len(sorted) = n
  <2>1. sorted \in [1 .. n -> Suggestion]
    BY <1>6, <1>7
  <2> QED
    BY <1>6, <2>1
<1>9. \A i \in D : \E k \in 1 .. n : sorted[k] = taken[i]
  BY <1>6, <1>7
<1>10. \A j, k \in 1 .. n : j < k => ~ItemBefore(sorted[k], sorted[j])
  BY <1>2, <1>6, <1>7
<1> HIDE DEF D
<1>11. InItemOrder(sorted, taken)
  BY <1>7, <1>8, <1>9, <1>10 DEF InItemOrder, D
<1> QED
  BY <1>1, <1>11

\* What dedup makes of one more.
RepeatStep(acc, x) == IF acc # <<>> /\ Last(acc) = x THEN acc ELSE Append(acc, x)

RepeatTrace(items, last) ==
  \E T \in [0 .. Len(items) -> Seq(Suggestion)] :
    /\ T[0] = <<>>
    /\ \A k \in 1 .. Len(items) : T[k] = RepeatStep(T[k - 1], items[k])
    /\ T[Len(items)] = last

\* It goes through the sorted items by such steps.
LEMMA RepeatFold ==
  ASSUME NEW items, items \in Seq(Suggestion)
  PROVE  RepeatTrace(items, WithoutRepeats(items))
<1> DEFINE A == Seq(Suggestion)
           rstep == [p \in A \X Suggestion |-> RepeatStep(p[1], p[2])]
           body(it) == [s \in SUBSET DOMAIN items |->
                          IF s = {} THEN <<>> ELSE RepeatStep(it[s \ {Max(s)}], items[Max(s)])]
           iter == CHOOSE it : it = body(it)
<1>1. items \in Seq(Suggestion) /\ Len(items) \in Nat /\ DOMAIN items = 1 .. Len(items)
  OBVIOUS
<1>2. WithoutRepeats(items) = iter[DOMAIN items]
  BY DEF WithoutRepeats, FoldLeft, MapThenFoldSet, RepeatStep
<1>3. \A acc \in A, x \in Suggestion : RepeatStep(acc, x) \in A
  BY DEF RepeatStep
<1>4. <<>> \in A
  OBVIOUS
<1> HIDE DEF A
<1>5. \A acc \in A, x \in Suggestion : rstep[<<acc, x>>] = RepeatStep(acc, x)
  OBVIOUS
<1>6. IsStep(rstep, A, Suggestion)
  BY <1>3 DEF IsStep
<1> HIDE DEF rstep, body, iter
<1>7. PICK it : IsFold(it, A, Suggestion, <<>>, rstep, items)
  BY <1>1, <1>4, <1>6, FoldExists
<1>8. it = body(it)
  <2>1. \A s \in SUBSET DOMAIN items : s # {} =>
          rstep[<<it[s \ {Max(s)}], items[Max(s)]>>] = RepeatStep(it[s \ {Max(s)}], items[Max(s)])
    BY <1>5, <1>7 DEF IsFold
  <2> QED
    BY <1>7, <2>1 DEF IsFold, FoldOver, body
<1>9. iter = body(iter)
  BY <1>8 DEF iter
<1>10. IsRun(iter, A, <<>>, rstep, items)
  <2>1. iter[{}] = <<>>
    BY <1>9 DEF body
  <2>2. ASSUME NEW k \in 1 .. Len(items), iter[1 .. k - 1] \in A
        PROVE  iter[1 .. k] = rstep[<<iter[1 .. k - 1], items[k]>>]
    <3>1. k \in Nat /\ k # 0 /\ 1 .. k \in SUBSET DOMAIN items /\ items[k] \in Suggestion
      BY <1>1
    <3>2. 1 .. k # {} /\ Max(1 .. k) = k /\ (1 .. k) \ {k} = 1 .. k - 1
      BY <3>1, Positions
    <3>3. iter[1 .. k] = RepeatStep(iter[1 .. k - 1], items[k])
      BY <1>9, <3>1, <3>2 DEF body
    <3> QED
      BY <1>5, <2>2, <3>1, <3>3
  <2> QED
    BY <2>1, <2>2 DEF IsRun
<1>11. HasTrace(A, <<>>, rstep, items, iter[DOMAIN items])
  BY <1>1, <1>4, <1>6, <1>10, FoldTrace
<1>12. PICK T \in [0 .. Len(items) -> A] :
         /\ T[0] = <<>>
         /\ \A k \in 1 .. Len(items) : T[k] = rstep[<<T[k - 1], items[k]>>]
         /\ T[Len(items)] = iter[DOMAIN items]
  BY <1>11 DEF HasTrace
<1>13. ASSUME NEW k \in 1 .. Len(items)  PROVE T[k] = RepeatStep(T[k - 1], items[k])
  <2>1. k - 1 \in 0 .. Len(items) /\ items[k] \in Suggestion
    BY <1>1
  <2> QED
    BY <1>5, <1>12, <2>1
<1> QED
  BY <1>2, <1>12, <1>13 DEF RepeatTrace, A

\* What is left of the first k of them: all that they are, in their order.
Unrepeated(acc, k, items) ==
  /\ acc \in Seq(Suggestion)
  /\ \A i \in 1 .. Len(acc) : \E j \in 1 .. k : acc[i] = items[j]
  /\ \A j \in 1 .. k : \E i \in 1 .. Len(acc) : acc[i] = items[j]
  /\ \A i, j \in 1 .. Len(acc) : i < j => ~ItemBefore(acc[j], acc[i])

LEMMA RepeatStepKeeps ==
  ASSUME NEW items \in Seq(Suggestion),
         \A i, j \in 1 .. Len(items) : i < j => ~ItemBefore(items[j], items[i]),
         NEW k \in 0 .. Len(items) - 1, NEW acc, Unrepeated(acc, k, items)
  PROVE  Unrepeated(RepeatStep(acc, items[k + 1]), k + 1, items)
<1> DEFINE x == items[k + 1]
           n == Len(acc)
<1>1. /\ k + 1 \in 1 .. k + 1 /\ k + 1 \in 1 .. Len(items) /\ x \in Suggestion
      /\ \A j \in 1 .. k : j \in 1 .. k + 1 /\ j \in 1 .. Len(items) /\ j < k + 1
      /\ \A j \in 1 .. k + 1 : j \in 1 .. k \/ j = k + 1
  OBVIOUS
<1>2. acc \in Seq(Suggestion) /\ n \in Nat
  BY DEF Unrepeated
<1>3. CASE acc # <<>> /\ Last(acc) = x
  <2>1. n \in 1 .. n /\ acc[n] = x
    BY <1>2, <1>3 DEF Last
  <2>2. RepeatStep(acc, x) = acc
    BY <1>3 DEF RepeatStep
  <2>3. \A i \in 1 .. n : \E j \in 1 .. k + 1 : acc[i] = items[j]
    BY <1>1 DEF Unrepeated
  <2>4. \A j \in 1 .. k + 1 : \E i \in 1 .. n : acc[i] = items[j]
    BY <1>1, <2>1 DEF Unrepeated
  <2> QED
    BY <2>2, <2>3, <2>4 DEF Unrepeated
<1>4. CASE ~(acc # <<>> /\ Last(acc) = x)
  <2> DEFINE r == Append(acc, x)
  <2>1. RepeatStep(acc, x) = r
    BY <1>4 DEF RepeatStep
  <2>2. /\ r \in Seq(Suggestion) /\ Len(r) = n + 1 /\ r[n + 1] = x
        /\ \A i \in 1 .. n : r[i] = acc[i]
    BY <1>1, <1>2
  <2>3. /\ \A i \in 1 .. n + 1 : i \in 1 .. n \/ i = n + 1
        /\ \A i \in 1 .. n : i \in 1 .. n + 1
        /\ n + 1 \in 1 .. n + 1
        /\ \A i, j \in 1 .. n + 1 : i < j => i \in 1 .. n
    BY <1>2
  <2> HIDE DEF r, n, x
  <2>4. \A i \in 1 .. n + 1 : \E j \in 1 .. k + 1 : r[i] = items[j]
    <3>1. \A i \in 1 .. n : \E j \in 1 .. k : acc[i] = items[j]
      BY DEF Unrepeated, n
    <3> QED
      BY <1>1, <2>2, <2>3, <3>1 DEF x
  <2>5. \A j \in 1 .. k + 1 : \E i \in 1 .. n + 1 : r[i] = items[j]
    <3>1. \A j \in 1 .. k : \E i \in 1 .. n : acc[i] = items[j]
      BY DEF Unrepeated, n
    <3> QED
      BY <1>1, <2>2, <2>3, <3>1 DEF x
  <2>6. ASSUME NEW i \in 1 .. n + 1, NEW j \in 1 .. n + 1, i < j  PROVE ~ItemBefore(r[j], r[i])
    <3>1. i \in 1 .. n /\ r[i] = acc[i]
      BY <2>2, <2>3, <2>6
    <3>2. CASE j \in 1 .. n
      BY <2>2, <2>6, <3>1, <3>2 DEF Unrepeated, n
    <3>3. CASE j = n + 1
      <4>1. PICK l \in 1 .. k : acc[i] = items[l]
        BY <3>1 DEF Unrepeated, n
      <4>2. ~ItemBefore(items[k + 1], items[l])
        BY <1>1
      <4> QED
        BY <2>2, <3>1, <3>3, <4>1, <4>2 DEF x
    <3> QED
      BY <2>3, <3>2, <3>3
  <2> QED
    BY <2>1, <2>2, <2>4, <2>5, <2>6 DEF Unrepeated, x
<1> QED
  BY <1>3, <1>4

LEMMA WithoutRepeatsIs ==
  ASSUME NEW items \in Seq(Suggestion),
         \A i, j \in 1 .. Len(items) : i < j => ~ItemBefore(items[j], items[i])
  PROVE  Unrepeated(WithoutRepeats(items), Len(items), items)
<1>1. RepeatTrace(items, WithoutRepeats(items))
  BY RepeatFold
<1>2. PICK T \in [0 .. Len(items) -> Seq(Suggestion)] :
        /\ T[0] = <<>>
        /\ \A k \in 1 .. Len(items) : T[k] = RepeatStep(T[k - 1], items[k])
        /\ T[Len(items)] = WithoutRepeats(items)
  BY <1>1 DEF RepeatTrace
<1> DEFINE n == Len(items)
           S == {k \in 0 .. n : Unrepeated(T[k], k, items)}
<1>3. n \in Nat /\ n \in 0 .. n /\ 0 \in 0 .. n
  OBVIOUS
<1>4. 0 \in S
  <2>1. <<>> \in Seq(Suggestion) /\ Len(<<>>) = 0 /\ 1 .. 0 = {}
    OBVIOUS
  <2>2. Unrepeated(<<>>, 0, items)
    BY <2>1 DEF Unrepeated
  <2> QED
    BY <1>2, <1>3, <2>2
<1>5. ASSUME NEW k \in 0 .. n - 1, k \in S  PROVE k + 1 \in S
  <2>1. k + 1 \in 1 .. n /\ k + 1 \in 0 .. n /\ (k + 1) - 1 = k
    BY <1>3
  <2>2. Unrepeated(RepeatStep(T[k], items[k + 1]), k + 1, items)
    BY <1>5, RepeatStepKeeps
  <2>3. T[k + 1] = RepeatStep(T[k], items[k + 1])
    BY <1>2, <2>1
  <2> QED
    BY <2>1, <2>2, <2>3
<1> HIDE DEF S
<1>6. n \in S
  BY <1>3, <1>4, <1>5, UpTo
<1> QED
  BY <1>2, <1>6 DEF S

\* What is shown of what was taken: in order, as much as there is room for, and no
\* other in the place of one that is left out.
Offers(list, taken, limit) ==
  /\ list \in Seq(Suggestion) /\ Len(list) <= limit
  /\ \A k \in 1 .. Len(list) : \E i \in DOMAIN taken : list[k] = taken[i]
  /\ \A j, k \in 1 .. Len(list) : j < k => ~ItemBefore(list[k], list[j])
  /\ \A i \in DOMAIN taken :
       \/ \E k \in 1 .. Len(list) : list[k] = taken[i]
       \/ Len(list) = limit /\ ~ItemBefore(taken[i], list[limit])

LEMMA ShownIs ==
  ASSUME NEW taken, DOMAIN taken \subseteq Nat, IsFiniteSet(DOMAIN taken),
         \A i \in DOMAIN taken : taken[i] \in Suggestion, NEW limit \in Nat \ {0}
  PROVE  Offers(Shown(taken, limit), taken, limit)
<1> DEFINE sorted == SortedBy(taken, ItemBefore)
           all == WithoutRepeats(sorted)
           n == IF Len(all) < limit THEN Len(all) ELSE limit
           list == SubSeq(all, 1, n)
<1>1. Shown(taken, limit) = list
  BY DEF Shown, AtMost
<1>2. InItemOrder(sorted, taken)
  BY SortsSuggestions
<1> HIDE DEF sorted
<1>3. Unrepeated(all, Len(sorted), sorted)
  BY <1>2, WithoutRepeatsIs DEF InItemOrder
<1> HIDE DEF all
<1>4. /\ all \in Seq(Suggestion) /\ Len(all) \in Nat
      /\ \A i \in 1 .. Len(all) : all[i] \in Suggestion
  BY <1>3 DEF Unrepeated
<1>5. \A i \in 1 .. Len(all) : \E k \in DOMAIN taken : all[i] = taken[k]
  <2>1. ASSUME NEW i \in 1 .. Len(all)  PROVE \E k \in DOMAIN taken : all[i] = taken[k]
    <3>1. PICK j \in 1 .. Len(sorted) : all[i] = sorted[j]
      BY <1>3 DEF Unrepeated
    <3>2. PICK k \in DOMAIN taken : sorted[j] = taken[k]
      BY <1>2 DEF InItemOrder
    <3> QED
      BY <3>1, <3>2
  <2> QED
    BY <2>1
<1>6. \A k \in DOMAIN taken : \E i \in 1 .. Len(all) : all[i] = taken[k]
  <2>1. \A j \in 1 .. Len(sorted) : \E i \in 1 .. Len(all) : all[i] = sorted[j]
    BY <1>3 DEF Unrepeated
  <2>2. \A k \in DOMAIN taken : \E j \in 1 .. Len(sorted) : sorted[j] = taken[k]
    BY <1>2 DEF InItemOrder
  <2>3. ASSUME NEW k \in DOMAIN taken  PROVE \E i \in 1 .. Len(all) : all[i] = taken[k]
    <3>1. PICK j \in 1 .. Len(sorted) : sorted[j] = taken[k]
      BY <2>2
    <3>2. PICK i \in 1 .. Len(all) : all[i] = sorted[j]
      BY <2>1
    <3> QED
      BY <3>1, <3>2
  <2> QED
    BY <2>3
<1>7. \A i, j \in 1 .. Len(all) : i < j => ~ItemBefore(all[j], all[i])
  BY <1>3 DEF Unrepeated
<1>8. /\ n \in Nat /\ n <= limit /\ n <= Len(all) /\ (n < Len(all) => n = limit)
      /\ \A i \in 1 .. n : i \in 1 .. Len(all) /\ all[i] \in Suggestion
  <2>1. n \in Nat /\ n <= limit /\ n <= Len(all) /\ (n < Len(all) => n = limit)
    BY <1>4
  <2> HIDE DEF n
  <2> QED
    BY <1>4, <2>1
<1> HIDE DEF n
<1>9. list \in Seq(Suggestion) /\ Len(list) = n /\ \A i \in 1 .. n : list[i] = all[i]
  <2>1. /\ list \in Seq(Suggestion)
        /\ Len(list) = IF 1 <= n THEN n - 1 + 1 ELSE 0
        /\ \A i \in 1 .. n - 1 + 1 : list[i] = all[1 + i - 1]
    BY <1>4, <1>8, SubSeqProperties
  <2>2. /\ (IF 1 <= n THEN n - 1 + 1 ELSE 0) = n
        /\ \A i \in 1 .. n : i \in 1 .. n - 1 + 1 /\ 1 + i - 1 = i
    BY <1>8
  <2> QED
    BY <2>1, <2>2
<1> HIDE DEF list
<1>10. \A k \in 1 .. n : \E i \in DOMAIN taken : list[k] = taken[i]
  BY <1>5, <1>8, <1>9
<1>11. \A j, k \in 1 .. n : j < k => ~ItemBefore(list[k], list[j])
  BY <1>7, <1>8, <1>9
<1>12. ASSUME NEW k \in DOMAIN taken, \A i \in 1 .. n : list[i] # taken[k]
       PROVE  n = limit /\ ~ItemBefore(taken[k], list[limit])
  <2>1. PICK i \in 1 .. Len(all) : all[i] = taken[k]
    BY <1>6
  <2>2. i \notin 1 .. n
    BY <1>9, <1>12, <2>1
  <2>3. n < i /\ n < Len(all) /\ n = limit
    BY <1>4, <1>8, <2>2
  <2>4. limit \in 1 .. n /\ limit < i /\ limit \in 1 .. Len(all)
    BY <1>8, <2>3
  <2> QED
    BY <1>7, <1>9, <2>1, <2>3, <2>4
<1>13. Offers(list, taken, limit)
  BY <1>8, <1>9, <1>10, <1>11, <1>12 DEF Offers
<1> QED
  BY <1>1, <1>13

\* At most one item from each line, of which those that fit are offered.
TakesItems(from, n) ==
  /\ DOMAIN from = 1 .. n
  /\ \A i \in 1 .. n : from[i] # <<>> => from[i][1] \in Suggestion

OffersFitting(list, from, current, limit) ==
  /\ Len(list) \in Nat /\ Len(list) <= limit /\ DOMAIN list = 1 .. Len(list)
  /\ \A k \in 1 .. Len(list) :
       /\ IsPrefix(current, list[k].token)
       /\ \E i \in DOMAIN from : from[i] # <<>> /\ list[k] = from[i][1]
  /\ \A j, k \in 1 .. Len(list) : j < k => ~LexLess(Lower(list[k].token), Lower(list[j].token))
  /\ \A i \in DOMAIN from : from[i] # <<>> /\ IsPrefix(current, from[i][1].token) =>
       \/ \E k \in 1 .. Len(list) : list[k].token = from[i][1].token
       \/ Len(list) = limit /\ ~LexLess(Lower(from[i][1].token), Lower(list[limit].token))

LEMMA FittingIs ==
  ASSUME NEW n \in Nat, NEW from, TakesItems(from, n), NEW current, NEW limit \in Nat \ {0}
  PROVE  OffersFitting(Shown(Fitting(current, from), limit), from, current, limit)
<1> DEFINE taken == Fitting(current, from)
           at == {i \in 1 .. n : from[i] # <<>> /\ IsPrefix(current, from[i][1].token)}
           list == Shown(taken, limit)
<1>1. DOMAIN taken = at /\ \A i \in at : taken[i] = from[i][1]
  BY DEF Fitting, TakesItems
<1>2. at \subseteq Nat /\ IsFiniteSet(at)
  <2>1. at \in SUBSET (1 .. n) /\ IsFiniteSet(1 .. n)
    BY FS_Interval
  <2>2. at \subseteq Nat
    OBVIOUS
  <2> HIDE DEF at
  <2>3. IsFiniteSet(at)
    BY <2>1, FS_Subset
  <2> QED
    BY <2>2, <2>3
<1>3. \A i \in at : from[i] # <<>> /\ taken[i] \in Suggestion /\ IsPrefix(current, taken[i].token)
  BY <1>1 DEF TakesItems
<1> HIDE DEF taken
<1>4. Offers(list, taken, limit)
  BY <1>1, <1>2, <1>3, ShownIs
<1>5. DOMAIN from = 1 .. n
  BY DEF TakesItems
<1> HIDE DEF list
<1>6. list \in Seq(Suggestion) /\ Len(list) \in Nat /\ Len(list) <= limit /\ DOMAIN list = 1 .. Len(list)
  BY <1>4 DEF Offers
<1>7. \A k \in 1 .. Len(list) : \E i \in at : list[k] = taken[i]
  BY <1>1, <1>4 DEF Offers
<1>8. \A k \in 1 .. Len(list) :
        /\ IsPrefix(current, list[k].token)
        /\ \E i \in 1 .. n : from[i] # <<>> /\ list[k] = from[i][1]
  <2>1. ASSUME NEW k \in 1 .. Len(list)
        PROVE  /\ IsPrefix(current, list[k].token)
               /\ \E i \in 1 .. n : from[i] # <<>> /\ list[k] = from[i][1]
    <3>1. PICK i \in at : list[k] = taken[i]
      BY <1>7
    <3>2. i \in 1 .. n /\ from[i] # <<>> /\ IsPrefix(current, taken[i].token) /\ taken[i] = from[i][1]
      BY <1>1, <1>3
    <3> QED
      BY <3>1, <3>2
  <2> QED
    BY <2>1
<1>9. \A j, k \in 1 .. Len(list) : j < k => ~LexLess(Lower(list[k].token), Lower(list[j].token))
  BY <1>4 DEF Offers, ItemBefore
<1>10. ASSUME NEW i \in 1 .. n, from[i] # <<>> /\ IsPrefix(current, from[i][1].token)
       PROVE  \/ \E k \in 1 .. Len(list) : list[k].token = from[i][1].token
              \/ Len(list) = limit /\ ~LexLess(Lower(from[i][1].token), Lower(list[limit].token))
  <2>1. i \in at
    BY <1>10
  <2> HIDE DEF at
  <2>2. i \in DOMAIN taken /\ taken[i] = from[i][1]
    BY <1>1, <2>1
  <2>3. \/ \E k \in 1 .. Len(list) : list[k] = taken[i]
        \/ Len(list) = limit /\ ~ItemBefore(taken[i], list[limit])
    BY <1>4, <2>2 DEF Offers
  <2>4. CASE \E k \in 1 .. Len(list) : list[k] = taken[i]
    BY <2>2, <2>4
  <2>5. CASE Len(list) = limit /\ ~ItemBefore(taken[i], list[limit])
    BY <2>2, <2>5 DEF ItemBefore
  <2> QED
    BY <2>3, <2>4, <2>5
<1>11. OffersFitting(list, from, current, limit)
  BY <1>5, <1>6, <1>8, <1>9, <1>10 DEF OffersFitting
<1> QED
  BY <1>11 DEF list, taken

\* A name that ends early is the beginning of one.
LEMMA CutNameIs ==
  ASSUME NEW name \in Tokens, NEW t \in CutName(name)
  PROVE  t \in Tokens /\ IsPrefix(t, name) /\ t[1] = name[1]
<1> DEFINE L == Letters \cup {Dash, Sign}
<1>1. PICK n \in 1 .. Len(name) : t = SubSeq(name, 1, n)
  BY DEF CutName
<1>2. name \in Seq(L) /\ Len(name) \in Nat /\ \A i \in 1 .. Len(name) : name[i] \in L
  BY DEF Tokens
<1> HIDE DEF L
<1>3. n \in Nat /\ 1 <= n /\ n <= Len(name) /\ \A i \in 1 .. n : i \in 1 .. Len(name)
  BY <1>2
<1>4. t \in Seq(L) /\ Len(t) = n /\ \A i \in 1 .. n : t[i] = name[i]
  <2>1. \A i \in 1 .. n : name[i] \in L
    BY <1>2, <1>3
  <2>2. /\ SubSeq(name, 1, n) \in Seq(L)
        /\ Len(SubSeq(name, 1, n)) = IF 1 <= n THEN n - 1 + 1 ELSE 0
        /\ \A i \in 1 .. n - 1 + 1 : SubSeq(name, 1, n)[i] = name[1 + i - 1]
    BY <1>3, <2>1, SubSeqProperties
  <2>3. (IF 1 <= n THEN n - 1 + 1 ELSE 0) = n /\ \A i \in 1 .. n : i \in 1 .. n - 1 + 1 /\ 1 + i - 1 = i
    BY <1>3
  <2> QED
    BY <1>1, <2>2, <2>3
<1>5. IsPrefix(t, name)
  BY <1>2, <1>3, <1>4, PrefixIs
<1>6. 1 \in 1 .. n /\ t # <<>>
  BY <1>3, <1>4
<1> QED
  BY <1>4, <1>5, <1>6 DEF Tokens, L

\* A token begins itself, and consists of numbers.
LEMMA TokensAre ==
  ASSUME NEW t \in Tokens
  PROVE  t \in Seq(Nat) /\ IsPrefix(t, t)
<1>1. t \in Seq(Letters \cup {Dash, Sign}) /\ Letters \cup {Dash, Sign} \subseteq Nat
  BY LettersAssumption, HelpAssumption DEF Tokens
<1>2. \A i \in 1 .. Len(t) : t[i] \in Nat
  BY <1>1
<1>3. t \in Seq(Nat)
  BY <1>1, <1>2
<1>4. Len(t) \in Nat
  BY <1>1
<1> QED
  BY <1>3, <1>4, PrefixIs

\* A line that is cut is one of the same kind, whose tokens begin those of the
\* line, and are those of the line if it still has a text.
LEMMA CutLineIs ==
  ASSUME NEW line \in HelpLine, IsHelpLine(line), NEW b \in CutLine(line)
  PROVE  /\ b \in HelpLine /\ IsHelpLine(b) /\ b.kind = line.kind
         /\ \A t \in ToSet(b.tokens) : \E u \in ToSet(line.tokens) :
              IsPrefix(t, u) /\ (t = u \/ b.text = NoText)
<1>1. /\ line.tokens \in Seq(Tokens) /\ Len(line.tokens) \in Nat /\ line.text \in Nat
      /\ line.kind \in {"option", "word", "other"}
      /\ DOMAIN line.tokens = 1 .. Len(line.tokens)
      /\ \A i \in 1 .. Len(line.tokens) : line.tokens[i] \in Tokens
  BY DEF HelpLine
<1>2. NoText \in Nat /\ Part \in Nat
  BY DEF NoText, Part
<1>3. CASE \E t \in {NoText, line.text} \cup (IF line.text = NoText THEN {} ELSE {Part}) :
             b = [line EXCEPT !.text = t]
  <2>1. PICK t \in Nat : b = [line EXCEPT !.text = t]
    BY <1>1, <1>2, <1>3
  <2>2. b \in HelpLine /\ b.kind = line.kind /\ b.tokens = line.tokens
    BY <2>1 DEF HelpLine
  <2>3. \A u \in ToSet(line.tokens) : u \in Tokens
    BY <1>1 DEF ToSet
  <2> QED
    BY <2>2, <2>3, TokensAre DEF IsHelpLine
<1>4. CASE \E i \in DOMAIN line.tokens : \E token \in CutName(line.tokens[i]) :
             b = [line EXCEPT !.tokens = Append(SubSeq(line.tokens, 1, i - 1), token), !.text = NoText]
  <2>1. PICK i \in 1 .. Len(line.tokens) : \E token \in CutName(line.tokens[i]) :
          b = [line EXCEPT !.tokens = Append(SubSeq(line.tokens, 1, i - 1), token), !.text = NoText]
    BY <1>1, <1>4
  <2>2. PICK token \in CutName(line.tokens[i]) :
          b = [line EXCEPT !.tokens = Append(SubSeq(line.tokens, 1, i - 1), token), !.text = NoText]
    BY <2>1
  <2> DEFINE r == SubSeq(line.tokens, 1, i - 1)
             s == Append(r, token)
  <2>3. /\ token \in Tokens /\ IsPrefix(token, line.tokens[i]) /\ token[1] = line.tokens[i][1]
        /\ line.tokens[i] \in Tokens
    BY <1>1, CutNameIs
  <2>4. i \in Nat /\ 1 <= i /\ i <= Len(line.tokens) /\ i - 1 \in 0 .. Len(line.tokens) /\ (i - 1) + 1 = i
    BY <1>1
  <2>5. r \in Seq(Tokens) /\ Len(r) = i - 1 /\ \A j \in 1 .. i - 1 : r[j] = line.tokens[j]
    <3> DEFINE q == line.tokens
               m == i - 1
    <3>1. q \in Seq(Tokens) /\ m \in 0 .. Len(q)
      BY <1>1, <2>4
    <3> HIDE DEF q, m
    <3>2. SubSeq(q, 1, m) \in Seq(Tokens)
      BY <3>1, ToSetPrefix
    <3>3. Len(SubSeq(q, 1, m)) = m /\ \A j \in 1 .. m : SubSeq(q, 1, m)[j] = q[j]
      BY <3>1, PrefixAndNext
    <3> QED
      BY <3>2, <3>3 DEF q, m
  <2> HIDE DEF r
  <2>6. /\ s \in Seq(Tokens) /\ Len(s) = i /\ s[i] = token
        /\ \A j \in 1 .. i - 1 : s[j] = r[j]
    BY <2>3, <2>4, <2>5
  <2>7. b.tokens = s /\ b.text = NoText /\ b.kind = line.kind
    BY <2>2 DEF HelpLine, r
  <2> HIDE DEF s
  <2>8. b \in HelpLine
    BY <1>2, <2>2, <2>6, <2>7 DEF HelpLine, r, s
  <2>9. \A j \in 1 .. i : /\ j \in 1 .. Len(line.tokens) /\ s[j][1] = line.tokens[j][1]
                          /\ IsPrefix(s[j], line.tokens[j])
    <3>1. ASSUME NEW j \in 1 .. i
          PROVE  /\ j \in 1 .. Len(line.tokens) /\ s[j][1] = line.tokens[j][1]
                 /\ IsPrefix(s[j], line.tokens[j])
      <4>1. j \in 1 .. Len(line.tokens) /\ (j = i \/ j \in 1 .. i - 1)
        BY <2>4
      <4>2. CASE j = i
        BY <2>3, <2>6, <4>1, <4>2
      <4>3. CASE j \in 1 .. i - 1
        <5>1. s[j] = line.tokens[j]
          BY <2>5, <2>6, <4>3
        <5>2. IsPrefix(line.tokens[j], line.tokens[j])
          BY <1>1, <4>1, TokensAre
        <5> QED
          BY <4>1, <5>1, <5>2
      <4> QED
        BY <4>1, <4>2, <4>3
    <3> QED
      BY <3>1
  <2>10. DOMAIN s = 1 .. i
    BY <2>4, <2>6
  <2>11. \A t \in ToSet(s) : \E j \in 1 .. i : t = s[j]
    BY <2>10 DEF ToSet
  <2>12. \A j \in 1 .. i : line.tokens[j] \in ToSet(line.tokens)
    BY <1>1, <2>9 DEF ToSet
  <2>13. IsHelpLine(b)
    <3>1. b.kind = "option" => b.tokens # <<>> /\ \A t \in ToSet(b.tokens) : t[1] = Dash
      <4>1. SUFFICES ASSUME b.kind = "option"  PROVE s # <<>> /\ \A t \in ToSet(s) : t[1] = Dash
        BY <2>7
      <4>2. \A u \in ToSet(line.tokens) : u[1] = Dash
        BY <2>7, <4>1 DEF IsHelpLine
      <4>3. \A j \in 1 .. i : s[j][1] = Dash
        BY <2>9, <2>12, <4>2
      <4>4. s # <<>>
        BY <2>4, <2>6
      <4> QED
        BY <2>11, <4>3, <4>4
    <3>2. b.kind = "word" => Len(b.tokens) = 1 /\ b.tokens[1][1] # Dash
      <4>1. SUFFICES ASSUME b.kind = "word"  PROVE Len(s) = 1 /\ s[1][1] # Dash
        BY <2>7
      <4>2. Len(line.tokens) = 1 /\ line.tokens[1][1] # Dash
        BY <2>7, <4>1 DEF IsHelpLine
      <4>3. i = 1 /\ 1 \in 1 .. i
        BY <2>4, <4>2
      <4> QED
        BY <2>6, <2>9, <4>2, <4>3
    <3>3. b.kind # "other"
      BY <1>1, <2>4, <2>7 DEF IsHelpLine
    <3> QED
      BY <3>1, <3>2, <3>3 DEF IsHelpLine
  <2>14. \A t \in ToSet(b.tokens) : \E u \in ToSet(line.tokens) : IsPrefix(t, u) /\ (t = u \/ b.text = NoText)
    BY <2>7, <2>9, <2>11, <2>12
  <2> QED
    BY <2>7, <2>8, <2>13, <2>14
<1> QED
  BY <1>3, <1>4 DEF CutLine

\* What is taken from a line is one of its tokens, that of an option with a dash.
LEMMA OptionIs ==
  ASSUME NEW line \in HelpLine, IsHelpLine(line), OptionOf(line) # <<>>
  PROVE  /\ OptionOf(line)[1] \in Suggestion
         /\ OptionOf(line)[1].token \in ToSet(line.tokens)
         /\ OptionOf(line)[1].token[1] = Dash
<1> DEFINE n == Len(line.tokens)
           long == {i \in DOMAIN line.tokens : IsLong(line.tokens[i])}
           i == IF long # {} THEN Min(long) ELSE 1
           t == line.tokens[i]
<1>1. line.kind = "option" /\ OptionOf(line) = << [token |-> t, text |-> line.text] >>
  BY DEF OptionOf
<1>2. /\ n \in Nat /\ DOMAIN line.tokens = 1 .. n /\ line.text \in Nat
      /\ \A k \in 1 .. n : line.tokens[k] \in Tokens
  BY DEF HelpLine
<1>3. line.tokens # <<>> /\ \A u \in ToSet(line.tokens) : u[1] = Dash
  BY <1>1 DEF IsHelpLine
<1>4. i \in 1 .. n
  <2>1. 1 \in 1 .. n
    <3>1. line.tokens \in Seq(Tokens)
      BY DEF HelpLine
    <3> QED
      BY <1>2, <1>3, <3>1
  <2>2. CASE long # {}
    <3>1. long \subseteq Nat /\ long \subseteq 1 .. n
      BY <1>2
    <3> HIDE DEF long
    <3>2. PICK k \in long : \A j \in long : k <= j
      BY <2>2, <3>1, Least
    <3>3. Min(long) \in long
      BY <3>2 DEF Min
    <3> QED
      BY <2>2, <3>1, <3>3
  <2> HIDE DEF long
  <2> QED
    BY <2>1, <2>2
<1> HIDE DEF i
<1>5. t \in Tokens /\ t \in ToSet(line.tokens)
  BY <1>2, <1>4 DEF ToSet
<1>6. t \in Seq(Nat)
  BY <1>5, TokensAre
<1> HIDE DEF t
<1> QED
  BY <1>1, <1>2, <1>3, <1>5, <1>6 DEF Suggestion

LEMMA WordIs ==
  ASSUME NEW line \in HelpLine, IsHelpLine(line), WordOf(line) # <<>>
  PROVE  /\ WordOf(line)[1] \in Suggestion /\ line.text # NoText
         /\ WordOf(line)[1].token \in ToSet(line.tokens)
         /\ WordOf(line)[1].token[1] # Dash
<1> DEFINE t == line.tokens[1]
<1>1. /\ line.kind = "word" /\ line.text # NoText
      /\ WordOf(line) = << [token |-> t, text |-> line.text] >>
  BY DEF WordOf
<1>2. Len(line.tokens) = 1 /\ t[1] # Dash
  BY <1>1 DEF IsHelpLine
<1>3. line.tokens \in Seq(Tokens) /\ line.text \in Nat
  BY DEF HelpLine
<1>4. t \in Tokens /\ t \in ToSet(line.tokens)
  <2>1. 1 \in DOMAIN line.tokens
    BY <1>2, <1>3
  <2> QED
    BY <1>3, <2>1 DEF ToSet
<1>5. t \in Seq(Nat)
  BY <1>4, TokensAre
<1> HIDE DEF t
<1> QED
  BY <1>1, <1>2, <1>3, <1>4, <1>5 DEF Suggestion

\* The lines that arrived whole, and the one after them if there is one.
Whole   == SubSeq(printed, 1, arrived)
LastOne == IF Cut THEN << printed[arrived + 1] >> ELSE <<>>

LEMMA WholeAndLast ==
  ASSUME NEW S, printed \in Seq(S), Arrives
  PROVE  /\ ToSet(Whole) = {printed[i] : i \in 1 .. arrived}
         /\ ToSet(Whole \o LastOne) = ToSet(Whole) \cup ToSet(LastOne)
         /\ Cut => ToSet(LastOne) = {printed[arrived + 1]} /\ arrived + 1 \in 1 .. Len(printed)
<1> DEFINE x == printed[arrived + 1]
<1>1. printed \in Seq(S) /\ arrived \in 0 .. Len(printed) /\ Len(printed) \in Nat /\ arrived \in Nat
  BY DEF Arrives
<1>2. /\ DOMAIN Whole = 1 .. arrived
      /\ \A i \in 1 .. arrived : Whole[i] = printed[i]
      /\ Whole \o <<>> = Whole
      /\ DOMAIN (Whole \o <<x>>) = 1 .. arrived + 1
      /\ \A i \in 1 .. arrived : (Whole \o <<x>>)[i] = printed[i]
      /\ (Whole \o <<x>>)[arrived + 1] = x
  BY <1>1, PrefixAndNext DEF Whole
<1>3. ToSet(Whole) = {printed[i] : i \in 1 .. arrived}
  BY <1>2 DEF ToSet
<1>4. CASE Cut
  <2>1. LastOne = <<x>> /\ ToSet(<<x>>) = {x}
    BY <1>4 DEF LastOne, ToSet
  <2>2. arrived + 1 \in 1 .. Len(printed)
    BY <1>1, <1>4 DEF Cut
  <2>3. 1 .. arrived + 1 = (1 .. arrived) \cup {arrived + 1}
    BY <1>1
  <2> HIDE DEF x
  <2>4. ToSet(Whole \o <<x>>) = {printed[i] : i \in 1 .. arrived} \cup {x}
    BY <1>2, <2>3 DEF ToSet
  <2> QED
    BY <1>3, <2>1, <2>2, <2>4 DEF x
<1>5. CASE ~Cut
  <2>1. LastOne = <<>> /\ ToSet(<<>>) = {}
    BY <1>5 DEF LastOne, ToSet
  <2> QED
    BY <1>2, <1>3, <1>5, <2>1
<1> QED
  BY <1>4, <1>5

\* What is heard: the lines that arrived whole, and what there is of the next one.
Hears(lines, b) ==
  \/ lines = SubSeq(printed, 1, arrived)
  \/ arrived < Len(printed) /\ lines = Append(SubSeq(printed, 1, arrived), b)

LEMMA HeardIs ==
  ASSUME NEW S, printed \in Seq(S), Arrives, NEW b, NEW lines, Hears(lines, b)
  PROVE  \E n \in {arrived, arrived + 1} :
           /\ n \in Nat /\ DOMAIN lines = 1 .. n /\ (n = arrived + 1 => Cut /\ lines[n] = b)
           /\ \A i \in 1 .. arrived : lines[i] = printed[i]
<1> DEFINE T == S \cup {b}
           r == SubSeq(printed, 1, arrived)
<1>1. printed \in Seq(S) /\ arrived \in 0 .. Len(printed) /\ Len(printed) \in Nat /\ arrived \in Nat
  BY DEF Arrives
<1>2. r \in Seq(S) /\ Len(r) = arrived /\ \A i \in 1 .. arrived : r[i] = printed[i]
  BY <1>1, ToSetPrefix, PrefixAndNext
<1> HIDE DEF r
<1>3. CASE lines = r
  <2>1. DOMAIN r = 1 .. arrived /\ arrived # arrived + 1
    BY <1>1, <1>2
  <2> QED
    BY <1>1, <1>2, <1>3, <2>1
<1>4. CASE arrived < Len(printed) /\ lines = Append(r, b)
  <2>1. r \in Seq(T) /\ b \in T
    BY <1>2
  <2> HIDE DEF T
  <2>2. /\ Append(r, b) \in Seq(T) /\ Len(Append(r, b)) = arrived + 1 /\ Append(r, b)[arrived + 1] = b
        /\ \A i \in 1 .. arrived : Append(r, b)[i] = r[i]
    BY <1>1, <1>2, <2>1
  <2>3. DOMAIN Append(r, b) = 1 .. arrived + 1 /\ arrived + 1 \in Nat
    BY <1>1, <2>2
  <2> QED
    BY <1>2, <1>4, <2>2, <2>3 DEF Cut
<1> QED
  BY <1>3, <1>4 DEF Hears, r

\* What is taken from the lines that arrived is told in them, and what is taken from
\* one that was cut begins what it tells, if it is no word.
Faithful(from) ==
  \E n \in {arrived, arrived + 1} :
    /\ n \in Nat /\ arrived \in Nat /\ TakesItems(from, n)
    /\ \A i \in 1 .. arrived : from[i] # <<>> => from[i][1].token \in Told(Whole)
    /\ n = arrived + 1 /\ from[n] # <<>> =>
         \E u \in Told(LastOne) :
           /\ IsPrefix(from[n][1].token, u)
           /\ from[n][1].token = u \/ op = "names" \/ from[n][1].token[1] = Dash

\* What of the promise depends only on that.
TrueList(items, limit) ==
  LET tokens == {items[i].token : i \in DOMAIN items}
      words  == {t \in tokens : t[1] # Dash}
      broken == tokens \ Told(Whole \o LastOne)
  IN  /\ Len(items) <= limit /\ \A t \in tokens : IsPrefix(requested, t)
      /\ \A i, j \in DOMAIN items : i < j => ~LexLess(Lower(items[j].token), Lower(items[i].token))
      /\ Cardinality(broken) <= 1
      /\ \A t \in broken : \E n \in Told(LastOne) : IsPrefix(t, n) /\ (op = "help" => t \notin words)

LEMMA FaithfulIs ==
  ASSUME op \in {"help", "names"}, NEW from, Faithful(from), NEW items, NEW limit,
         OffersFitting(items, from, requested, limit),
         Told(Whole \o LastOne) = Told(Whole) \cup Told(LastOne)
  PROVE  TrueList(items, limit)
<1> DEFINE tokens == {items[i].token : i \in DOMAIN items}
           broken == tokens \ Told(Whole \o LastOne)
<1>1. PICK n \in {arrived, arrived + 1} :
        /\ n \in Nat /\ arrived \in Nat /\ TakesItems(from, n)
        /\ \A i \in 1 .. arrived : from[i] # <<>> => from[i][1].token \in Told(Whole)
        /\ n = arrived + 1 /\ from[n] # <<>> =>
             \E u \in Told(LastOne) :
               /\ IsPrefix(from[n][1].token, u)
               /\ from[n][1].token = u \/ op = "names" \/ from[n][1].token[1] = Dash
  BY DEF Faithful
<1>2. /\ Len(items) <= limit /\ DOMAIN items = 1 .. Len(items) /\ DOMAIN from = 1 .. n
      /\ \A k \in 1 .. Len(items) :
           /\ IsPrefix(requested, items[k].token)
           /\ \E i \in DOMAIN from : from[i] # <<>> /\ items[k] = from[i][1]
      /\ \A j, k \in 1 .. Len(items) : j < k => ~LexLess(Lower(items[k].token), Lower(items[j].token))
  BY <1>1 DEF OffersFitting, TakesItems
<1>3. ASSUME NEW t \in broken
      PROVE  n = arrived + 1 /\ from[n] # <<>> /\ t = from[n][1].token
  <2>1. PICK k \in 1 .. Len(items) : t = items[k].token
    BY <1>2
  <2>2. PICK i \in 1 .. n : from[i] # <<>> /\ items[k] = from[i][1]
    BY <1>2
  <2>3. t \notin Told(Whole)
    OBVIOUS
  <2>4. i \notin 1 .. arrived
    BY <1>1, <2>1, <2>2, <2>3
  <2>5. i = n /\ n = arrived + 1
    <3>1. ~(i <= arrived) /\ i <= n /\ i \in Nat
      BY <1>1, <2>4
    <3>2. n # arrived
      BY <1>1, <3>1
    <3> QED
      BY <1>1, <3>1, <3>2
  <2> QED
    BY <2>1, <2>2, <2>5
<1>4. Cardinality(broken) <= 1
  <2> HIDE DEF broken
  <2>1. \A s, t \in broken : s = t
    BY <1>3
  <2> QED
    BY <2>1, OneAtMost
<1>5. ASSUME NEW t \in broken
      PROVE  \E u \in Told(LastOne) : IsPrefix(t, u) /\ (op = "help" => t[1] = Dash)
  <2>1. PICK u \in Told(LastOne) :
          IsPrefix(t, u) /\ (t = u \/ op = "names" \/ t[1] = Dash)
    BY <1>1, <1>3
  <2>2. t # u
    OBVIOUS
  <2> QED
    BY <2>1, <2>2
<1>6. \A t \in tokens : IsPrefix(requested, t)
  BY <1>2
<1> QED
  BY <1>2, <1>4, <1>5, <1>6 DEF TrueList

\* Nothing that is due is left out while there is room.
Complete(items, due, limit) ==
  \A t \in due \ {items[i].token : i \in DOMAIN items} :
    Len(items) = limit /\ ~LexLess(Lower(t), Lower(Last(items).token))

LEMMA CompleteIs ==
  ASSUME NEW from, NEW items, NEW limit, OffersFitting(items, from, requested, limit), NEW due,
         \A t \in due : \E i \in DOMAIN from :
           from[i] # <<>> /\ t = from[i][1].token /\ IsPrefix(requested, t)
  PROVE  Complete(items, due, limit)
<1> SUFFICES ASSUME NEW t \in due, \A k \in DOMAIN items : t # items[k].token
             PROVE  Len(items) = limit /\ ~LexLess(Lower(t), Lower(Last(items).token))
  BY DEF Complete
<1>1. PICK i \in DOMAIN from : from[i] # <<>> /\ t = from[i][1].token /\ IsPrefix(requested, t)
  OBVIOUS
<1>2. Len(items) = limit /\ ~LexLess(Lower(t), Lower(items[limit].token))
  BY <1>1 DEF OffersFitting
<1> QED
  BY <1>2 DEF Last

\* What SuggestionsAreTrue says of an answer.
TrueSuggestions(items, limit) ==
  LET tokens == {items[i].token : i \in DOMAIN items}
      words  == {t \in tokens : t[1] # Dash}
  IN  /\ TrueList(items, limit)
      /\ op = "help" => words \in {{}, tokens}
      /\ Complete(items, Due(Whole, words # {}), limit)

-----------------------------------------------------------------------------
(* The names of commands                                                   *)

PlainOf(name) == IF IsPlain(name) THEN << [token |-> name, text |-> NoText] >> ELSE <<>>

\* What command_name_suggestions_command prints begins with what was typed.
LEMMA PrintsNames ==
  ASSUME PrintNames
  PROVE  NamesPrinted'
<1>1. PICK names \in SUBSET Commands : /\ IsFiniteSet(names)
        /\ printed' = AtMost(InOrder({n \in names : IsPrefix(requested, n)}, LexLess), HostLimit)
  BY DEF PrintNames, Prints
<1> DEFINE S == {n \in names : IsPrefix(requested, n)}
           R == {p \in S \X S : LexLess(p[1], p[2])}
           place == [x \in S |-> Cardinality({y \in S : LexLess(y, x)}) + 1]
           list == InPlace(place, S)
<1>2. /\ S \subseteq Tokens /\ S \in SUBSET names
      /\ \A x \in S : IsPrefix(requested, x)
  BY ToldAssumption
<1>3. printed' = AtMost(list, HostLimit)
  BY <1>1 DEF InOrder, InPlace
<1>4. \A x, y \in S : <<x, y>> \in R <=> LexLess(x, y)
  OBVIOUS
<1>5. place = Place(R, S)
  <2>1. \A x \in S : {y \in S : <<y, x>> \in R} = {y \in S : LexLess(y, x)}
    OBVIOUS
  <2> QED
    BY <2>1 DEF Place
<1> HIDE DEF S, R, place
<1>6. StrictOrder(R, S)
  <2>1. \A x \in S : x \in Seq(Int)
    BY <1>2, TokensAre
  <2> QED
    BY <1>4, <2>1, LexOrder DEF StrictOrder
<1>7. IsFiniteSet(S)
  BY <1>1, <1>2, FS_Subset
<1>8. Cardinality(S) \in Nat /\ list \in [1 .. Cardinality(S) -> S]
  BY <1>5, <1>6, <1>7, InPlaceIs
<1> HIDE DEF list
<1>9. list \in Seq(S)
  BY <1>8
<1> DEFINE m == IF Len(list) < HostLimit THEN Len(list) ELSE HostLimit
<1>10. m \in 0 .. Len(list) /\ printed' = SubSeq(list, 1, m)
  <2>1. Len(list) \in Nat /\ HostLimit \in Nat
    BY <1>9, ToldAssumption
  <2>2. m \in 0 .. Len(list)
    BY <2>1
  <2> QED
    BY <1>3, <2>2 DEF AtMost
<1> HIDE DEF m
<1>11. printed' \in Seq(S)
  BY <1>9, <1>10, ToSetPrefix
<1>12. printed' \in Seq(Tokens) /\ \A i \in 1 .. Len(printed') : IsPrefix(requested, printed'[i])
  <2> DEFINE q == printed'
  <2>1. q \in Seq(S)
    BY <1>11
  <2> HIDE DEF q
  <2>2. \A i \in 1 .. Len(q) : q[i] \in S
    BY <2>1
  <2>3. q \in Seq(Tokens)
    BY <1>2, <2>1, <2>2
  <2>4. \A i \in 1 .. Len(q) : IsPrefix(requested, q[i])
    BY <1>2, <2>2
  <2> QED
    BY <2>3, <2>4 DEF q
<1>13. requested' = requested
  BY DEF PrintNames, Prints, host
<1> QED
  BY <1>12, <1>13 DEF NamesPrinted

LEMMA NamesAreTrue ==
  ASSUME op = "names", NamesPrinted, Arrives, NEW names \in Heard(CutName)
  PROVE  TrueSuggestions(NameSuggestions(requested, names), NameLimit)
<1> DEFINE from == [i \in DOMAIN names |-> PlainOf(names[i])]
           items == NameSuggestions(requested, names)
           tokens == {items[i].token : i \in DOMAIN items}
           words  == {t \in tokens : t[1] # Dash}
<1>1. /\ printed \in Seq(Tokens) /\ arrived \in Nat /\ Len(printed) \in Nat
      /\ arrived \in 0 .. Len(printed) /\ (piece # "none" => arrived < Len(printed))
      /\ \A i \in 1 .. Len(printed) : printed[i] \in Tokens
  BY DEF NamesPrinted, Arrives
<1>2. PICK b : Hears(names, b) /\ (Cut => b \in Tokens /\ IsPrefix(b, printed[arrived + 1]))
  <2>1. Cut => arrived + 1 \in 1 .. Len(printed)
    BY <1>1 DEF Cut
  <2>2. CASE piece = "none"
    <3>1. names = SubSeq(printed, 1, arrived)
      BY <2>2 DEF Heard
    <3>2. Cut => printed[arrived + 1] \in Tokens /\ IsPrefix(printed[arrived + 1], printed[arrived + 1])
      BY <1>1, <2>1, TokensAre
    <3> QED
      BY <3>1, <3>2 DEF Hears
  <2>3. CASE piece # "none"
    <3>1. PICK c \in CutName(printed[arrived + 1]) : names = Append(SubSeq(printed, 1, arrived), c)
      BY <2>3 DEF Heard
    <3>2. printed[arrived + 1] \in Tokens /\ arrived < Len(printed)
      BY <1>1, <2>1, <2>3 DEF Cut
    <3>3. c \in Tokens /\ IsPrefix(c, printed[arrived + 1])
      BY <3>1, <3>2, CutNameIs
    <3> QED
      BY <3>1, <3>2, <3>3 DEF Hears
  <2> QED
    BY <2>2, <2>3
<1>3. PICK n \in {arrived, arrived + 1} :
        /\ n \in Nat /\ DOMAIN names = 1 .. n /\ (n = arrived + 1 => Cut /\ names[n] = b)
        /\ \A i \in 1 .. arrived : names[i] = printed[i]
  BY <1>1, <1>2, HeardIs
<1>4. /\ \A i \in 1 .. arrived : i \in 1 .. n /\ i \in 1 .. Len(printed)
      /\ \A i \in 1 .. n : i \in 1 .. arrived \/ (i = n /\ n = arrived + 1)
  BY <1>1, <1>3
<1>5. \A i \in 1 .. n : names[i] \in Tokens
  BY <1>1, <1>2, <1>3, <1>4
<1>6. \A i \in 1 .. n : /\ from[i] # <<>> <=> IsPlain(names[i])
                        /\ from[i] # <<>> => from[i][1] \in Suggestion /\ from[i][1].token = names[i]
  <2>1. ASSUME NEW i \in 1 .. n
        PROVE  /\ from[i] # <<>> <=> IsPlain(names[i])
               /\ from[i] # <<>> => from[i][1] \in Suggestion /\ from[i][1].token = names[i]
    <3> DEFINE t == names[i]
               s == [token |-> t, text |-> NoText]
    <3>1. t \in Seq(Nat)
      BY <1>5, TokensAre
    <3>2. from[i] = IF IsPlain(t) THEN <<s>> ELSE <<>>
      BY <1>3 DEF PlainOf
    <3> HIDE DEF t, from
    <3>3. s \in Suggestion /\ s.token = t
      BY <3>1 DEF Suggestion, NoText
    <3> HIDE DEF s
    <3>4. <<s>> # <<>> /\ <<s>>[1] = s
      OBVIOUS
    <3>5. from[i] # <<>> <=> IsPlain(t)
      BY <3>2, <3>4
    <3>6. from[i] # <<>> => from[i][1] = s
      BY <3>2, <3>4
    <3> QED
      BY <3>3, <3>5, <3>6 DEF t
  <2> QED
    BY <2>1
<1>7. DOMAIN from = 1 .. n
  BY <1>3
<1>8. items = Shown(Fitting(requested, from), NameLimit)
  BY DEF NameSuggestions, PlainOf
<1> HIDE DEF from, items
<1>9. TakesItems(from, n)
  BY <1>6, <1>7 DEF TakesItems
<1>10. OffersFitting(items, from, requested, NameLimit)
  BY <1>3, <1>8, <1>9, FittingIs, HelpAssumption
<1>11. /\ Told(Whole) = ToSet(Whole) /\ Told(LastOne) = ToSet(LastOne)
       /\ Told(Whole \o LastOne) = ToSet(Whole \o LastOne)
  BY DEF Told
<1>12. /\ ToSet(Whole) = {printed[i] : i \in 1 .. arrived}
       /\ ToSet(Whole \o LastOne) = ToSet(Whole) \cup ToSet(LastOne)
       /\ Cut => ToSet(LastOne) = {printed[arrived + 1]}
  BY <1>1, WholeAndLast
<1>13. Faithful(from)
  <2>1. \A i \in 1 .. arrived : from[i] # <<>> => from[i][1].token \in Told(Whole)
    BY <1>3, <1>4, <1>6, <1>11, <1>12
  <2>2. n = arrived + 1 /\ from[n] # <<>> =>
          printed[arrived + 1] \in Told(LastOne) /\ IsPrefix(from[n][1].token, printed[arrived + 1])
    <3>1. SUFFICES ASSUME n = arrived + 1, from[n] # <<>>
                   PROVE  printed[arrived + 1] \in Told(LastOne) /\ IsPrefix(from[n][1].token, printed[arrived + 1])
      OBVIOUS
    <3>2. n \in 1 .. n
      BY <1>1, <3>1
    <3>3. Cut /\ from[n][1].token = b
      BY <1>3, <1>6, <3>1, <3>2
    <3> QED
      BY <1>2, <1>11, <1>12, <3>3
  <2> QED
    BY <1>1, <1>3, <1>9, <2>1, <2>2 DEF Faithful
<1>14. TrueList(items, NameLimit)
  BY <1>10, <1>11, <1>12, <1>13, FaithfulIs
<1>15. Complete(items, Due(Whole, words # {}), NameLimit)
  <2>1. ASSUME NEW t \in Due(Whole, words # {})
        PROVE  \E i \in DOMAIN from : from[i] # <<>> /\ t = from[i][1].token /\ IsPrefix(requested, t)
    <3>1. t \in ToSet(Whole) /\ IsPlain(t)
      BY <2>1 DEF Due
    <3>2. PICK i \in 1 .. arrived : t = printed[i]
      BY <1>12, <3>1
    <3>3. IsPrefix(requested, t)
      BY <1>4, <3>2 DEF NamesPrinted
    <3>4. i \in 1 .. n /\ names[i] = t
      BY <1>3, <1>4, <3>2
    <3> QED
      BY <1>6, <1>7, <3>1, <3>3, <3>4
  <2> HIDE DEF words
  <2> QED
    BY <1>10, <2>1, CompleteIs
<1>16. TrueSuggestions(items, NameLimit)
  BY <1>14, <1>15 DEF TrueSuggestions
<1> QED
  BY <1>16 DEF items

-----------------------------------------------------------------------------
(* A help text                                                             *)

\* What help_suggestions_command prints is lines of a help text.
LEMMA PrintsHelp ==
  ASSUME PrintHelp
  PROVE  HelpPrinted'
<1>1. PICK n \in 0 .. MaxHelp : printed' \in [1 .. n -> HelpLines]
  BY DEF PrintHelp, Prints, SeqOf
<1>2. n \in Nat /\ \A i \in 1 .. n : printed'[i] \in HelpLine /\ IsHelpLine(printed'[i])
  BY <1>1, ToldAssumption
<1>3. printed' \in Seq(HelpLine) /\ Len(printed') = n
  <2> DEFINE p == printed'
  <2>1. p \in [1 .. n -> HelpLine]
    BY <1>1, <1>2
  <2> HIDE DEF p
  <2>2. p \in Seq(HelpLine) /\ Len(p) = n
    BY <1>2, <2>1
  <2> QED
    BY <2>2 DEF p
<1> QED
  BY <1>2, <1>3 DEF HelpPrinted

\* What is heard of a line: it, or what is left of it.
HeardLine(b, line) ==
  /\ b \in HelpLine /\ IsHelpLine(b)
  /\ \A t \in ToSet(b.tokens) : \E u \in ToSet(line.tokens) :
       IsPrefix(t, u) /\ (t = u \/ b.text = NoText)

LEMMA HeardHelp ==
  ASSUME HelpPrinted, Arrives, NEW lines \in Heard(CutLine)
  PROVE  \E n \in {arrived, arrived + 1} :
           /\ n \in Nat /\ DOMAIN lines = 1 .. n
           /\ \A i \in 1 .. n : lines[i] \in HelpLine /\ IsHelpLine(lines[i])
           /\ \A i \in 1 .. arrived : lines[i] = printed[i]
           /\ n = arrived + 1 => Cut /\ HeardLine(lines[n], printed[n])
<1>1. /\ printed \in Seq(HelpLine) /\ arrived \in Nat /\ Len(printed) \in Nat
      /\ arrived \in 0 .. Len(printed) /\ (piece # "none" => arrived < Len(printed))
      /\ \A i \in 1 .. Len(printed) : printed[i] \in HelpLine /\ IsHelpLine(printed[i])
  BY DEF HelpPrinted, Arrives
<1>2. Cut => arrived + 1 \in 1 .. Len(printed)
  BY <1>1 DEF Cut
<1>3. PICK b : Hears(lines, b) /\ (Cut => HeardLine(b, printed[arrived + 1]))
  <2>1. CASE piece = "none"
    <3>1. lines = SubSeq(printed, 1, arrived)
      BY <2>1 DEF Heard
    <3>2. ASSUME NEW line \in HelpLine, IsHelpLine(line)  PROVE HeardLine(line, line)
      <4>1. \A t \in ToSet(line.tokens) : t \in Tokens
        BY DEF HelpLine, ToSet
      <4> QED
        BY <3>2, <4>1, TokensAre DEF HeardLine
    <3>3. Cut => HeardLine(printed[arrived + 1], printed[arrived + 1])
      BY <1>1, <1>2, <3>2
    <3> QED
      BY <3>1, <3>3 DEF Hears
  <2>2. CASE piece # "none"
    <3>1. PICK c \in CutLine(printed[arrived + 1]) : lines = Append(SubSeq(printed, 1, arrived), c)
      BY <2>2 DEF Heard
    <3>2. Cut /\ arrived < Len(printed)
      BY <1>1, <2>2 DEF Cut
    <3>3. printed[arrived + 1] \in HelpLine /\ IsHelpLine(printed[arrived + 1])
      BY <1>1, <1>2, <3>2
    <3>4. HeardLine(c, printed[arrived + 1])
      BY <3>3, CutLineIs DEF HeardLine
    <3> QED
      BY <3>1, <3>2, <3>4 DEF Hears
  <2> QED
    BY <2>1, <2>2
<1>4. PICK n \in {arrived, arrived + 1} :
        /\ n \in Nat /\ DOMAIN lines = 1 .. n /\ (n = arrived + 1 => Cut /\ lines[n] = b)
        /\ \A i \in 1 .. arrived : lines[i] = printed[i]
  BY <1>1, <1>3, HeardIs
<1>5. /\ \A i \in 1 .. arrived : i \in 1 .. Len(printed)
      /\ \A i \in 1 .. n : i \in 1 .. arrived \/ (i = n /\ n = arrived + 1)
  BY <1>1, <1>4
<1>6. ASSUME NEW i \in 1 .. n  PROVE lines[i] \in HelpLine /\ IsHelpLine(lines[i])
  <2>1. CASE i \in 1 .. arrived
    BY <1>1, <1>4, <1>5, <2>1
  <2>2. CASE i = n /\ n = arrived + 1
    BY <1>3, <1>4, <2>2 DEF HeardLine
  <2> QED
    BY <1>5, <2>1, <2>2
<1>7. n = arrived + 1 => Cut /\ HeardLine(lines[n], printed[n])
  BY <1>3, <1>4
<1> QED
  BY <1>4, <1>6, <1>7

\* What a text tells of is what its lines tell of.
LEMMA ToldIs ==
  ASSUME op = "help", HelpPrinted, Arrives
  PROVE  /\ Told(Whole \o LastOne) = Told(Whole) \cup Told(LastOne)
         /\ \A i \in 1 .. arrived : ToSet(printed[i].tokens) \subseteq Told(Whole)
         /\ Cut => ToSet(printed[arrived + 1].tokens) \subseteq Told(LastOne)
<1>1. printed \in Seq(HelpLine)
  BY DEF HelpPrinted
<1>2. /\ ToSet(Whole) = {printed[i] : i \in 1 .. arrived}
      /\ ToSet(Whole \o LastOne) = ToSet(Whole) \cup ToSet(LastOne)
      /\ Cut => ToSet(LastOne) = {printed[arrived + 1]}
  BY <1>1, WholeAndLast
<1>3. /\ Told(Whole) = UNION {ToSet(l.tokens) : l \in ToSet(Whole)}
      /\ Told(LastOne) = UNION {ToSet(l.tokens) : l \in ToSet(LastOne)}
      /\ Told(Whole \o LastOne) = UNION {ToSet(l.tokens) : l \in ToSet(Whole \o LastOne)}
  BY DEF Told
<1>4. \A i \in 1 .. arrived : ToSet(printed[i].tokens) \subseteq Told(Whole)
  BY <1>2, <1>3
<1>5. Cut => ToSet(printed[arrived + 1].tokens) \subseteq Told(LastOne)
  BY <1>2, <1>3
<1>6. Told(Whole \o LastOne) = Told(Whole) \cup Told(LastOne)
  BY <1>2, <1>3
<1> QED
  BY <1>4, <1>5, <1>6

\* What is due of what has arrived was taken from one of its lines.
LEMMA DueIs ==
  ASSUME op = "help", ToSet(Whole) = {printed[i] : i \in 1 .. arrived},
         NEW shown \in BOOLEAN, NEW t \in Due(Whole, shown)
  PROVE  \/ \E i \in 1 .. arrived :
              WordOf(printed[i]) # <<>> /\ t = WordOf(printed[i])[1].token /\ IsPrefix(requested, t)
         \/ /\ ~shown
            /\ \E i \in 1 .. arrived :
                 OptionOf(printed[i]) # <<>> /\ t = OptionOf(printed[i])[1].token /\ IsPrefix(requested, t)
<1> DEFINE options == {OptionOf(l) : l \in ToSet(Whole)} \ {<<>>}
           words   == {WordOf(l) : l \in ToSet(Whole)} \ {<<>>}
           fitting(items) == {u \in {item[1].token : item \in items} : IsPrefix(requested, u)}
<1>1. Due(Whole, shown) = IF shown \/ fitting(words) # {} THEN fitting(words) ELSE fitting(options)
  BY DEF Due
<1>2. ASSUME t \in fitting(words)
      PROVE  \E i \in 1 .. arrived :
               WordOf(printed[i]) # <<>> /\ t = WordOf(printed[i])[1].token /\ IsPrefix(requested, t)
  <2>1. PICK l \in ToSet(Whole) : WordOf(l) # <<>> /\ t = WordOf(l)[1].token /\ IsPrefix(requested, t)
    BY <1>2
  <2> QED
    BY <2>1
<1>3. ASSUME t \in fitting(options)
      PROVE  \E i \in 1 .. arrived :
               OptionOf(printed[i]) # <<>> /\ t = OptionOf(printed[i])[1].token /\ IsPrefix(requested, t)
  <2>1. PICK l \in ToSet(Whole) : OptionOf(l) # <<>> /\ t = OptionOf(l)[1].token /\ IsPrefix(requested, t)
    BY <1>3
  <2> QED
    BY <2>1
<1> HIDE DEF options, words, fitting
<1> QED
  BY <1>1, <1>2, <1>3

\* What begins with a letter has it first.
LEMMA FirstLetter ==
  ASSUME NEW q \in Seq(Nat), NEW d \in Nat, IsPrefix(<<d>>, q)
  PROVE  1 \in 1 .. Len(q) /\ q[1] = d
<1> DEFINE one == <<d>>
<1>1. one \in Seq(Nat) /\ Len(one) = 1 /\ one[1] = d /\ IsPrefix(one, q)
  OBVIOUS
<1> HIDE DEF one
<1>2. Len(one) <= Len(q) /\ \A j \in 1 .. Len(one) : one[j] = q[j]
  BY <1>1, PrefixIs
<1>3. 1 \in 1 .. Len(one) /\ Len(q) \in Nat
  BY <1>1
<1> QED
  BY <1>1, <1>2, <1>3

LEMMA HelpIsTrue ==
  ASSUME op = "help", HelpPrinted, Arrives, requested \in Tokens \cup {<<>>},
         NEW lines \in Heard(CutLine)
  PROVE  TrueSuggestions(HelpSuggestions(requested, lines), HelpLimit)
<1> DEFINE options == [i \in DOMAIN lines |-> OptionOf(lines[i])]
           words   == [i \in DOMAIN lines |-> WordOf(lines[i])]
           fit     == {i \in DOMAIN lines : WordOf(lines[i]) # <<>> /\ IsPrefix(requested, WordOf(lines[i])[1].token)}
           dashed  == IsPrefix(<<Dash>>, requested)
           items   == HelpSuggestions(requested, lines)
           tokens  == {items[i].token : i \in DOMAIN items}
           shown   == {t \in tokens : t[1] # Dash}
<1>1. PICK n \in {arrived, arrived + 1} :
        /\ n \in Nat /\ DOMAIN lines = 1 .. n
        /\ \A i \in 1 .. n : lines[i] \in HelpLine /\ IsHelpLine(lines[i])
        /\ \A i \in 1 .. arrived : lines[i] = printed[i]
        /\ n = arrived + 1 => Cut /\ HeardLine(lines[n], printed[n])
  BY HeardHelp
<1>2. arrived \in Nat /\ \A i \in 1 .. arrived : i \in 1 .. n
  <2>1. printed \in Seq(HelpLine) /\ arrived \in 0 .. Len(printed)
    BY DEF HelpPrinted, Arrives
  <2>2. arrived \in Nat
    BY <2>1
  <2> QED
    BY <1>1, <2>2
<1>3. /\ Told(Whole \o LastOne) = Told(Whole) \cup Told(LastOne)
      /\ \A i \in 1 .. arrived : ToSet(printed[i].tokens) \subseteq Told(Whole)
      /\ Cut => ToSet(printed[arrived + 1].tokens) \subseteq Told(LastOne)
      /\ ToSet(Whole) = {printed[i] : i \in 1 .. arrived}
  BY ToldIs, WholeAndLast DEF HelpPrinted
<1>4. items = IF dashed \/ fit = {} THEN Shown(Fitting(requested, options), HelpLimit)
              ELSE Shown(Fitting(requested, words), HelpLimit)
  <2>1. DOMAIN WordsIn(requested, lines) = fit
    BY DEF WordsIn, Fitting
  <2>2. /\ OptionsIn(requested, lines) = Fitting(requested, options)
        /\ WordsIn(requested, lines) = Fitting(requested, words)
    BY DEF OptionsIn, WordsIn
  <2> HIDE DEF fit, options, words
  <2>3. items = Shown(IF dashed \/ fit = {} THEN OptionsIn(requested, lines) ELSE WordsIn(requested, lines),
                      HelpLimit)
    BY <2>1 DEF HelpSuggestions
  <2> QED
    BY <2>2, <2>3
<1>5. /\ DOMAIN options = 1 .. n /\ \A i \in 1 .. n : options[i] = OptionOf(lines[i])
      /\ DOMAIN words = 1 .. n /\ \A i \in 1 .. n : words[i] = WordOf(lines[i])
      /\ fit = {i \in 1 .. n : WordOf(lines[i]) # <<>> /\ IsPrefix(requested, WordOf(lines[i])[1].token)}
  BY <1>1
<1> HIDE DEF options, words, fit, items
<1>6. \A i \in 1 .. n :
        /\ options[i] # <<>> => /\ options[i][1] \in Suggestion
                                /\ options[i][1].token \in ToSet(lines[i].tokens)
                                /\ options[i][1].token[1] = Dash
        /\ words[i] # <<>> => /\ words[i][1] \in Suggestion
                              /\ words[i][1].token \in ToSet(lines[i].tokens)
                              /\ words[i][1].token[1] # Dash /\ lines[i].text # NoText
  BY <1>1, <1>5, OptionIs, WordIs
<1>7. TakesItems(options, n) /\ TakesItems(words, n)
  BY <1>5, <1>6 DEF TakesItems
<1>8. ASSUME NEW from \in {options, words}  PROVE Faithful(from)
  <2>1. ASSUME NEW i \in 1 .. arrived, from[i] # <<>>  PROVE from[i][1].token \in Told(Whole)
    <3>1. from[i][1].token \in ToSet(printed[i].tokens)
      BY <1>1, <1>2, <1>6, <2>1
    <3> QED
      BY <1>3, <3>1
  <2>2. ASSUME n = arrived + 1, from[n] # <<>>
        PROVE  \E u \in Told(LastOne) :
                 /\ IsPrefix(from[n][1].token, u)
                 /\ from[n][1].token = u \/ op = "names" \/ from[n][1].token[1] = Dash
    <3> DEFINE t == from[n][1].token
    <3>1. n \in 1 .. n
      BY <1>2, <2>2
    <3>2. t \in ToSet(lines[n].tokens) /\ (t[1] = Dash \/ lines[n].text # NoText)
      BY <1>6, <2>2, <3>1
    <3>3. Cut /\ HeardLine(lines[n], printed[n])
      BY <1>1, <2>2
    <3>4. PICK u \in ToSet(printed[n].tokens) : IsPrefix(t, u) /\ (t = u \/ lines[n].text = NoText)
      BY <3>2, <3>3 DEF HeardLine
    <3>5. u \in Told(LastOne)
      BY <1>3, <2>2, <3>3, <3>4
    <3> QED
      BY <3>2, <3>4, <3>5
  <2>3. TakesItems(from, n)
    BY <1>7
  <2> QED
    BY <1>1, <1>2, <2>1, <2>2, <2>3 DEF Faithful
<1>9. ASSUME NEW from \in {options, words}, items = Shown(Fitting(requested, from), HelpLimit)
      PROVE  OffersFitting(items, from, requested, HelpLimit) /\ TrueList(items, HelpLimit)
  <2>1. TakesItems(from, n)
    BY <1>7
  <2>2. OffersFitting(items, from, requested, HelpLimit)
    BY <1>1, <1>9, <2>1, FittingIs, HelpAssumption
  <2> QED
    BY <1>3, <1>8, <2>2, FaithfulIs
<1>10. CASE dashed \/ fit = {}
  <2>1. OffersFitting(items, options, requested, HelpLimit) /\ TrueList(items, HelpLimit)
    BY <1>4, <1>9, <1>10
  <2>2. shown = {}
    <3>1. ASSUME NEW k \in DOMAIN items  PROVE items[k].token[1] = Dash
      <4>1. PICK i \in 1 .. n : options[i] # <<>> /\ items[k] = options[i][1]
        BY <1>5, <2>1 DEF OffersFitting
      <4> QED
        BY <1>6, <4>1
    <3> QED
      BY <3>1
  <2>3. ASSUME NEW t \in Due(Whole, FALSE)
        PROVE  \E i \in DOMAIN options : options[i] # <<>> /\ t = options[i][1].token /\ IsPrefix(requested, t)
    <3>1. ASSUME NEW i \in 1 .. arrived, WordOf(printed[i]) # <<>>, t = WordOf(printed[i])[1].token,
                 IsPrefix(requested, t)
          PROVE  FALSE
      <4>1. i \in 1 .. n /\ lines[i] = printed[i]
        BY <1>1, <1>2
      <4>2. dashed
        BY <1>5, <1>10, <3>1, <4>1
      <4>3. t \in Seq(Nat) /\ t[1] # Dash
        BY <1>5, <1>6, <3>1, <4>1 DEF Suggestion
      <4>4. requested \in Seq(Nat)
        <5>1. <<>> \in Seq(Nat)
          OBVIOUS
        <5> QED
          BY <5>1, TokensAre
      <4>5. Dash \in Nat
        BY HelpAssumption
      <4>6. 1 \in 1 .. Len(requested) /\ requested[1] = Dash
        BY <4>2, <4>4, <4>5, FirstLetter
      <4>7. \A j \in 1 .. Len(requested) : requested[j] = t[j]
        BY <3>1, <4>3, <4>4, PrefixIs
      <4> QED
        BY <4>3, <4>6, <4>7
    <3>2. PICK i \in 1 .. arrived :
            OptionOf(printed[i]) # <<>> /\ t = OptionOf(printed[i])[1].token /\ IsPrefix(requested, t)
      BY <1>3, <2>3, <3>1, DueIs
    <3> QED
      BY <1>1, <1>2, <1>5, <3>2
  <2> HIDE DEF shown, tokens
  <2>4. Complete(items, Due(Whole, shown # {}), HelpLimit)
    BY <2>1, <2>2, <2>3, CompleteIs
  <2> QED
    BY <2>1, <2>2, <2>4 DEF TrueSuggestions, items, shown, tokens
<1>11. CASE ~dashed /\ fit # {}
  <2>1. OffersFitting(items, words, requested, HelpLimit) /\ TrueList(items, HelpLimit)
    BY <1>4, <1>9, <1>11
  <2>2. shown = tokens
    <3>1. ASSUME NEW k \in DOMAIN items  PROVE items[k].token[1] # Dash
      <4>1. PICK i \in 1 .. n : words[i] # <<>> /\ items[k] = words[i][1]
        BY <1>5, <2>1 DEF OffersFitting
      <4> QED
        BY <1>6, <4>1
    <3> QED
      BY <3>1
  <2>3. tokens # {}
    <3>1. PICK i \in 1 .. n : words[i] # <<>> /\ IsPrefix(requested, words[i][1].token)
      BY <1>5, <1>11
    <3>2. (\E k \in 1 .. Len(items) : items[k].token = words[i][1].token) \/ Len(items) = HelpLimit
      BY <1>5, <2>1, <3>1 DEF OffersFitting
    <3>3. HelpLimit \in 1 .. HelpLimit
      BY HelpAssumption
    <3>4. 1 .. Len(items) # {} /\ DOMAIN items = 1 .. Len(items)
      BY <2>1, <3>2, <3>3 DEF OffersFitting
    <3> QED
      BY <3>4
  <2>4. ASSUME NEW t \in Due(Whole, TRUE)
        PROVE  \E i \in DOMAIN words : words[i] # <<>> /\ t = words[i][1].token /\ IsPrefix(requested, t)
    <3>1. PICK i \in 1 .. arrived :
            WordOf(printed[i]) # <<>> /\ t = WordOf(printed[i])[1].token /\ IsPrefix(requested, t)
      BY <1>3, <2>4, DueIs
    <3> QED
      BY <1>1, <1>2, <1>5, <3>1
  <2> HIDE DEF shown, tokens
  <2>5. Complete(items, Due(Whole, shown # {}), HelpLimit)
    BY <2>1, <2>2, <2>3, <2>4, CompleteIs
  <2> QED
    BY <2>1, <2>2, <2>5 DEF TrueSuggestions, items, shown, tokens
<1> QED
  BY <1>10, <1>11 DEF items

\* SuggestionsAreTrue depends on the state through these alone.
WordsOf(items) == {t \in {items[i].token : i \in DOMAIN items} : t[1] # Dash}

Claims(o, r, items, all, last, due) ==
  LET tokens == {items[i].token : i \in DOMAIN items}
      most   == IF o = "help" THEN HelpLimit ELSE NameLimit
      broken == tokens \ all
  IN  /\ Len(items) <= most /\ \A t \in tokens : IsPrefix(r, t)
      /\ \A i, j \in DOMAIN items : i < j => ~LexLess(Lower(items[j].token), Lower(items[i].token))
      /\ Cardinality(broken) <= 1
      /\ \A t \in broken : \E n \in last : IsPrefix(t, n) /\ (o = "help" => t \notin WordsOf(items))
      /\ o = "help" => WordsOf(items) \in {{}, tokens}
      /\ \A n \in due \ tokens :
           Len(items) = most /\ ~LexLess(Lower(n), Lower(Last(items).token))

Claimed ==
  Claims(op, requested, answer.value, Told(Whole \o LastOne), Told(LastOne),
         Due(Whole, WordsOf(answer.value) # {}))

LEMMA SuggestionsClaim ==
  /\ SuggestionsAreTrue <=> (Answered("help") \/ Answered("names") => Claimed)
  /\ SuggestionsAreTrue' <=> (Answered("help")' \/ Answered("names")' => Claimed')
BY DEF SuggestionsAreTrue, Claimed, Claims, WordsOf, Whole, LastOne

LEMMA ClaimStays ==
  ASSUME UNCHANGED <<op, requested, printed, arrived>>
  PROVE  Claimed' <=> Claims(op, requested, answer'.value, Told(Whole \o LastOne), Told(LastOne),
                             Due(Whole, WordsOf(answer'.value) # {}))
<1> DEFINE v == answer'.value
           shown == WordsOf(v) # {}
           TellsOf(o, lines) ==
             IF o = "names" THEN ToSet(lines) ELSE UNION {ToSet(l.tokens) : l \in ToSet(lines)}
           OfOptions(lines) == {OptionOf(l) : l \in ToSet(lines)} \ {<<>>}
           OfWords(lines)   == {WordOf(l) : l \in ToSet(lines)} \ {<<>>}
           fitting(r, items) == {t \in {item[1].token : item \in items} : IsPrefix(r, t)}
           Dues(o, r, lines, w) ==
             IF o = "names" THEN {n \in ToSet(lines) : IsPlain(n)}
             ELSE IF w \/ fitting(r, OfWords(lines)) # {} THEN fitting(r, OfWords(lines))
                  ELSE fitting(r, OfOptions(lines))
<1>1. Whole' = Whole /\ LastOne' = LastOne /\ op' = op /\ requested' = requested
  BY DEF Whole, LastOne, Cut
<1>2. Told(Whole \o LastOne)' = Told(Whole \o LastOne) /\ Told(LastOne)' = Told(LastOne)
  <2>1. Told(Whole \o LastOne) = TellsOf(op, Whole \o LastOne) /\ Told(LastOne) = TellsOf(op, LastOne)
    BY DEF Told
  <2>2. Told(Whole \o LastOne)' = TellsOf(op', Whole' \o LastOne') /\ Told(LastOne)' = TellsOf(op', LastOne')
    BY DEF Told
  <2> HIDE DEF TellsOf
  <2> QED
    BY <1>1, <2>1, <2>2
<1>3. Due(Whole, WordsOf(answer.value) # {})' = Due(Whole, shown)
  <2>1. Due(Whole, shown) = Dues(op, requested, Whole, shown)
    BY DEF Due
  <2>2. Due(Whole, WordsOf(answer.value) # {})' = Dues(op', requested', Whole', shown)
    BY DEF Due, WordsOf
  <2> HIDE DEF Dues, shown
  <2> QED
    BY <1>1, <2>1, <2>2
<1>4. Claimed' <=> Claims(op', requested', v, Told(Whole \o LastOne)', Told(LastOne)',
                          Due(Whole, WordsOf(answer.value) # {})')
  BY DEF Claimed, Claims, WordsOf
<1> HIDE DEF v, shown
<1>5. Claimed' <=> Claims(op, requested, v, Told(Whole \o LastOne), Told(LastOne), Due(Whole, shown))
  BY <1>1, <1>2, <1>3, <1>4
<1> QED
  BY <1>5 DEF v, shown

\* The answer to it keeps what SuggestionsAreTrue says.
LEMMA ParsesSuggestions ==
  ASSUME op \in {"help", "names"}, requested \in Tokens \cup {<<>>}, Arrives,
         op = "help" => HelpPrinted, op = "names" => NamesPrinted, Help \/ CommandNames
  PROVE  SuggestionsAreTrue'
<1> DEFINE limit == IF op = "help" THEN HelpLimit ELSE NameLimit
           v == answer'.value
<1>1. UNCHANGED <<op, requested, printed, arrived>>
  BY DEF Help, CommandNames, Parse, host
<1>2. TrueSuggestions(v, limit)
  <2>1. CASE Help
    <3>1. op = "help"
      BY <2>1 DEF Help
    <3>2. PICK lines \in Heard(CutLine) : v = HelpSuggestions(requested, lines)
      BY <2>1 DEF Help, Parse, Value
    <3> QED
      BY <3>1, <3>2, HelpIsTrue
  <2>2. CASE CommandNames
    <3>1. op = "names"
      BY <2>2 DEF CommandNames
    <3>2. PICK names \in Heard(CutName) : v = NameSuggestions(requested, names)
      BY <2>2 DEF CommandNames, Parse, Value
    <3> QED
      BY <3>1, <3>2, NamesAreTrue
  <2> QED
    BY <2>1, <2>2
<1>3. Claims(op, requested, v, Told(Whole \o LastOne), Told(LastOne), Due(Whole, WordsOf(v) # {}))
  BY <1>2 DEF TrueSuggestions, TrueList, Complete, Claims, WordsOf
<1>4. Claimed'
  BY <1>1, <1>3, ClaimStays
<1> QED
  BY <1>4, SuggestionsClaim

LEMMA SuggestionsStay ==
  ASSUME UNCHANGED <<op, requested, printed, arrived, answer, phase>>, SuggestionsAreTrue
  PROVE  SuggestionsAreTrue'
<1>1. Claimed' <=> Claimed
  BY ClaimStays DEF Claimed
<1>2. (Answered("help")' <=> Answered("help")) /\ (Answered("names")' <=> Answered("names"))
  BY DEF Answered
<1> QED
  BY <1>1, <1>2, SuggestionsClaim

-----------------------------------------------------------------------------
(* The theorems                                                            *)

\* No answer, no claim.
LEMMA NothingAnswered ==
  ASSUME phase # "done" \/ ~answer.ok
  PROVE  Answers
BY DEF Answers, ReadIsWhole, SnapshotIsTrue, ListingIsTrue, ResolvesUniquely, SuggestionsAreTrue,
       Answered

LEMMA SomeContents ==
  ASSUME NEW names \in SUBSET Names, NEW kinds \in SUBSET Kinds, entries \in Contents(names, kinds)
  PROVE  Directory
<1>1. PICK n \in SUBSET names : IsFiniteSet(n) /\ entries \in [n -> kinds]
  BY DEF Contents
<1> QED
  BY <1>1 DEF Directory

LEMMA ReadsInit == Init => ReadsInv
<1> SUFFICES ASSUME Init  PROVE ReadsInv
  OBVIOUS
<1>1. op = "read" => file \in {<<"missing", 0>>} \cup {"there"} \X Nat
  <2>1. 0 .. MaxPieces \subseteq Nat
    OBVIOUS
  <2> QED
    BY <2>1 DEF Init
<1>2. phase = "ask"
  BY DEF Init
<1>3. op \in {"list", "resolve"} => Directory /\ access \in Accesses
  <2>1. {"dir"} \in SUBSET Kinds /\ {"dir", "file"} \in SUBSET Kinds /\ Kinds \in SUBSET Kinds
    BY DEF Kinds
  <2>2. Names \in SUBSET Names /\ Listed \in SUBSET Names
    BY ListedAssumption
  <2>3. /\ op = "list" => entries \in Contents(Listed, Kinds)
        /\ op \in {"list", "resolve"} => access \in Accesses
    BY DEF Init
  <2>4. op = "resolve" =>
          entries \in Contents(Names, {"dir"}) \/ entries \in Contents(Listed, {"dir", "file"})
    BY DEF Init
  <2> QED
    BY <2>1, <2>2, <2>3, <2>4, SomeContents
<1>4. op = "resolve" => requested \in Names
  BY DEF Init
<1>5. Answers
  BY <1>2, NothingAnswered
<1>6. op \in {"help", "names"} => requested \in Tokens \cup {<<>>}
  BY ToldAssumption DEF Init
<1> QED
  BY <1>1, <1>2, <1>3, <1>4, <1>5, <1>6 DEF ReadsInv, Asked

\* The steps before the answer.
LEMMA CommandKeeps ==
  ASSUME ReadsInv, UNCHANGED host, phase' = "receive", Output'
  PROVE  ReadsInv'
<1>1. Asked'
  BY DEF ReadsInv, Asked, host, Directory
<1>2. phase' # "done"
  OBVIOUS
<1>3. Answers'
  BY <1>2 DEF Answers, ReadIsWhole, SnapshotIsTrue, ListingIsTrue, ResolvesUniquely, SuggestionsAreTrue,
       Answered
<1> QED
  BY <1>1, <1>3 DEF ReadsInv

LEMMA PrintsOutput ==
  ASSUME ReadsInv,
         PrintPaths \/ PrintEntries \/ PrintFile \/ PrintFields \/ PrintHelp \/ PrintNames
  PROVE  ReadsInv'
<1>1. UNCHANGED host /\ phase' = "receive"
  BY DEF PrintPaths, PrintEntries, PrintFile, PrintFields, PrintHelp, PrintNames, Prints
<1>2. Asked /\ op' = op /\ UNCHANGED <<entries, access>> /\ requested' = requested /\ Directories' = Directories
  BY <1>1 DEF ReadsInv, host, Directories
<1>3. ASSUME PrintPaths  PROVE Output'
  <2>1. op = "resolve" /\ Directory
    BY <1>2, <1>3 DEF PrintPaths, Asked
  <2>2. requested \notin Directories => Beside(printed')
    BY <1>3, <2>1, PrintsPaths
  <2>3. requested' \notin Directories' => Beside(printed)'
    BY <1>2, <2>2 DEF Beside
  <2> QED
    BY <1>2, <2>1, <2>3 DEF Output
<1>4. ASSUME PrintEntries  PROVE Output'
  <2>1. op = "list" /\ Directory /\ access \in Accesses
    BY <1>2, <1>4 DEF PrintEntries, Asked
  <2>2. Lists(printed')
    BY <1>4, <2>1, PrintsEntries
  <2>3. Lists(printed)'
    BY <1>2, <2>2 DEF Lists
  <2> QED
    BY <1>2, <2>1, <2>3 DEF Output
<1>5. ASSUME PrintFile  PROVE Output'
  <2>1. op = "read" /\ FilePrinted'
    BY <1>2, <1>5, PrintsFile DEF PrintFile, Asked
  <2> QED
    BY <1>2, <2>1 DEF Output
<1>6. ASSUME PrintFields  PROVE Output'
  <2>1. op = "snapshot" /\ Tells(printed')
    BY <1>6, PrintsFields DEF PrintFields
  <2>2. Tells(printed)'
    BY <2>1 DEF Tells
  <2> QED
    BY <1>2, <2>1, <2>2 DEF Output
<1>7. ASSUME PrintHelp \/ PrintNames  PROVE Output'
  <2>1. CASE PrintHelp
    BY <1>2, <2>1, PrintsHelp DEF PrintHelp, Output
  <2>2. CASE PrintNames
    BY <1>2, <2>2, PrintsNames DEF PrintNames, Output
  <2> QED
    BY <1>7, <2>1, <2>2
<1> QED
  BY <1>1, <1>3, <1>4, <1>5, <1>6, <1>7, CommandKeeps

LEMMA ReceivesOutput ==
  ASSUME ReadsInv, Receive
  PROVE  ReadsInv'
<1>1. /\ phase = "receive" /\ phase' = "parse" /\ UNCHANGED <<host, printed, encoded, answer>>
      /\ arrived' \in 0 .. Len(printed)
      /\ piece' \in IF arrived' < Len(printed) THEN {"none", "early", "late"} ELSE {"none"}
  BY DEF Receive
<1>2. Asked' /\ Output'
  BY <1>1 DEF ReadsInv, Asked, Output, host, Directory, Directories, FilePrinted, Tells, Lists,
     Beside, HelpPrinted, NamesPrinted
<1>3. Arrives'
  BY <1>1 DEF Arrives
<1>4. Answers'
  BY <1>1 DEF Answers, ReadIsWhole, SnapshotIsTrue, ListingIsTrue, ResolvesUniquely, SuggestionsAreTrue,
       Answered
<1> QED
  BY <1>1, <1>2, <1>3, <1>4 DEF ReadsInv

\* The steps that answer.
LEMMA AnswerKeeps ==
  ASSUME ReadsInv, UNCHANGED host, phase' = "done", Answers'
  PROVE  ReadsInv'
BY DEF ReadsInv, Asked, host, Directory

LEMMA FailureAnswers ==
  ASSUME ReadsInv, ExecFails
  PROVE  ReadsInv'
<1>1. UNCHANGED host /\ phase' = "done" /\ ~answer'.ok
  BY DEF ExecFails, Error
<1>2. Answers'
  BY <1>1 DEF Answers, ReadIsWhole, SnapshotIsTrue, ListingIsTrue, ResolvesUniquely, SuggestionsAreTrue,
       Answered
<1> QED
  BY <1>1, <1>2, AnswerKeeps

LEMMA ParserAnswers ==
  ASSUME ReadsInv, Resolve \/ List \/ Read \/ Snapshot \/ Help \/ CommandNames
  PROVE  ReadsInv'
<1>1. UNCHANGED <<host, encoded>> /\ phase' = "done" /\ phase = "parse"
  BY DEF Resolve, List, Read, Snapshot, Help, CommandNames, Parse
<1>2. Asked /\ Output /\ Arrives /\ op' = op /\ file' = file
  BY <1>1 DEF ReadsInv, host
<1>3. ASSUME op # "read"  PROVE ReadIsWhole'
  BY <1>2, <1>3 DEF ReadIsWhole, Answered
<1>4. ASSUME op # "snapshot"  PROVE SnapshotIsTrue'
  BY <1>2, <1>4 DEF SnapshotIsTrue, Answered
<1>5. ASSUME op # "list"  PROVE ListingIsTrue'
  BY <1>2, <1>5 DEF ListingIsTrue, Answered
<1>6. ASSUME op # "resolve"  PROVE ResolvesUniquely'
  BY <1>2, <1>6 DEF ResolvesUniquely, Answered
<1>7. ASSUME op \notin {"help", "names"}  PROVE SuggestionsAreTrue'
  BY <1>2, <1>7 DEF SuggestionsAreTrue, Answered
<1>8. ASSUME Resolve  PROVE Answers'
  <2>1. op = "resolve"
    BY <1>8 DEF Resolve
  <2>2. ResolvesUniquely'
    BY <1>2, <1>8, <2>1, ParsesPaths DEF Asked, Output
  <2> QED
    BY <1>3, <1>4, <1>5, <1>7, <2>1, <2>2 DEF Answers
<1>9. ASSUME List  PROVE Answers'
  <2>1. op = "list"
    BY <1>9 DEF List
  <2>2. ListingIsTrue'
    BY <1>2, <1>9, <2>1, ParsesListing DEF Asked, Output
  <2> QED
    BY <1>3, <1>4, <1>6, <1>7, <2>1, <2>2 DEF Answers
<1>10. ASSUME Read  PROVE Answers'
  <2>1. op = "read"
    BY <1>10 DEF Read
  <2>2. ReadIsWhole'
    BY <1>1, <1>2, <1>10, <2>1, ReadsFile DEF Output, ReadIsWhole, Answered
  <2> QED
    BY <1>4, <1>5, <1>6, <1>7, <2>1, <2>2 DEF Answers
<1>11. ASSUME Snapshot  PROVE Answers'
  <2>1. op = "snapshot"
    BY <1>11 DEF Snapshot
  <2>2. SnapshotIsTrue'
    BY <1>2, <1>11, <2>1, ParsesSnapshot DEF Output
  <2> QED
    BY <1>3, <1>5, <1>6, <1>7, <2>1, <2>2 DEF Answers
<1>12. ASSUME Help \/ CommandNames  PROVE Answers'
  <2>1. op \in {"help", "names"}
    BY <1>12 DEF Help, CommandNames
  <2>2. SuggestionsAreTrue'
    BY <1>2, <1>12, <2>1, ParsesSuggestions DEF Asked, Output
  <2> QED
    BY <1>3, <1>4, <1>5, <1>6, <2>1, <2>2 DEF Answers
<1> QED
  BY <1>1, <1>8, <1>9, <1>10, <1>11, <1>12, AnswerKeeps

LEMMA ReadsStutter ==
  ASSUME ReadsInv, UNCHANGED vars
  PROVE  ReadsInv'
<1>1. UNCHANGED <<op, entries, access, requested, file, printed, encoded, arrived, piece, answer, phase>>
  BY DEF vars, host
<1>2. Asked'
  BY <1>1 DEF ReadsInv, Asked, Directory
<1>3. phase' \in {"receive", "parse"} => Output'
  BY <1>1 DEF ReadsInv, Output, Directories, FilePrinted, Tells, Lists,
     Beside, HelpPrinted, NamesPrinted
<1>4. phase' = "parse" => Arrives'
  BY <1>1 DEF ReadsInv, Arrives
<1>5. ReadIsWhole' /\ SnapshotIsTrue'
  BY <1>1 DEF ReadsInv, Answers, ReadIsWhole, SnapshotIsTrue, Answered, Cut
<1>6. ListingIsTrue'
  BY <1>1 DEF ReadsInv, Answers, ListingIsTrue, Answered, Cut
<1>7. ResolvesUniquely'
  <2>1. Seen' = Seen /\ Directories' = Directories /\ Cut' = Cut
    BY <1>1 DEF Seen, Arrived, Directories, Cut
  <2> QED
    BY <1>1, <2>1 DEF ReadsInv, Answers, ResolvesUniquely, Answered, Lower
<1>8. SuggestionsAreTrue'
  BY <1>1, SuggestionsStay DEF ReadsInv, Answers
<1> QED
  BY <1>2, <1>3, <1>4, <1>5, <1>6, <1>7, <1>8 DEF ReadsInv, Answers

LEMMA ReadsNext == ReadsInv /\ [Next]_vars => ReadsInv'
  BY PrintsOutput, ReceivesOutput, FailureAnswers, ParserAnswers, ReadsStutter DEF Next

\* Until it is parsed, the output is what the command prints, however little of
\* it arrived: the encoding of a file, lines of different fields, an entry for
\* each name in a directory, the directories beside one that does not exist, lines
\* of help, or commands that begin with what was typed.
THEOREM ReadsInvariance == Spec => []ReadsInv
  BY ReadsInit, ReadsNext, PTL DEF Spec

\* A file that read_remote_file_bytes returns as Ok is whole.
THEOREM ReadIsWholeHolds == Spec => []ReadIsWhole
<1>1. ReadsInv => ReadIsWhole
  BY DEF ReadsInv, Answers
<1> QED
  BY <1>1, ReadsInvariance, PTL

\* A snapshot has under each name what the host told of it, but for one that was
\* cut.
THEOREM SnapshotIsTrueHolds == Spec => []SnapshotIsTrue
<1>1. ReadsInv => SnapshotIsTrue
  BY DEF ReadsInv, Answers
<1> QED
  BY <1>1, ReadsInvariance, PTL

\* A listing is that of the directory, directories first, up to where it was cut; it is
\* empty for one that cannot be read, and has only files for one that cannot be
\* searched.
THEOREM ListingIsTrueHolds == Spec => []ListingIsTrue
<1>1. ReadsInv => ListingIsTrue
  BY DEF ReadsInv, Answers
<1> QED
  BY <1>1, ReadsInvariance, PTL

\* A name is resolved to the one directory that it can mean, or to itself.
THEOREM ResolvesUniquelyHolds == Spec => []ResolvesUniquely
<1>1. ReadsInv => ResolvesUniquely
  BY DEF ReadsInv, Answers
<1> QED
  BY <1>1, ReadsInvariance, PTL

\* What is offered of a help text, or of the names of commands, begins with what
\* was typed, is told there but for one that was cut, and leaves out nothing that
\* has arrived while there is room.
THEOREM SuggestionsAreTrueHolds == Spec => []SuggestionsAreTrue
<1>1. ReadsInv => SuggestionsAreTrue
  BY DEF ReadsInv, Answers
<1> QED
  BY <1>1, ReadsInvariance, PTL
=============================================================================
