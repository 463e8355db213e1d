-------------------------- MODULE MediaToolsProofs --------------------------
(***************************************************************************)
(* What the generic tools inline fits and is whole, the fields of a result *)
(* agree with its content, and a mirrored tool's result is only added to:  *)
(* for any files, sizes, limits and numbers of calls, and whatever is      *)
(* written in between.                                                     *)
(***************************************************************************)
EXTENDS MediaTools, TLAPS

\* A limit with room for the byte that tells whether a file fits: any but the largest int64.
RoomToTell == InlineMax < MaxInt64

\* An item of a content that is whole and fits, if it is media.
IsGood(item) ==
    item.kind \in Eligible => item.length \in 0..InlineMax /\ item.length = item.of.size

IsGoodResult(r) ==
    /\ r = [isError |-> r.isError, fields |-> r.fields, content |-> r.content]
    /\ \E S : r.content \in Seq(S) /\ \A item \in S : IsGood(item)

\* The result of call c is of the proxy's own making, not an upstream's.
IsOwn(c) == at[c] = "idle" \/ call[c].tool \in Generic

Good ==
    /\ DOMAIN result = Clients
    /\ \A c \in Clients : IsOwn(c) => IsGoodResult(result[c])

\* The types, and that only a request is minted.
Types ==
    /\ TypeOK
    /\ DOMAIN call = Clients /\ DOMAIN minted = Clients
    /\ \A c \in Clients : at[c] = "mint" => call[c].request \in Requests

Inv == Types /\ Good

LEMMA NotMedia == \A url : IsGood(Text(url)) /\ IsGood(Note)
BY DEF IsGood, Text, Note, Eligible, Image, Audio

LEMMA Appended ==
    ASSUME NEW r, IsGoodResult(r), NEW item, IsGood(item)
    PROVE  IsGoodResult([r EXCEPT !.content = Append(@, item)])
<1>1. PICK S : r.content \in Seq(S) /\ \A x \in S : IsGood(x)
  BY DEF IsGoodResult
<1> DEFINE R == S \cup {item}
           q == [r EXCEPT !.content = Append(r.content, item)]
<1>2. r.content \in Seq(R) /\ item \in R /\ \A x \in R : IsGood(x)
  BY <1>1
<1> HIDE DEF R
<1>3. Append(r.content, item) \in Seq(R)
  BY <1>2
<1>4. /\ q = [isError |-> q.isError, fields |-> q.fields, content |-> q.content]
      /\ q.content = Append(r.content, item)
  <2>1. r = [isError |-> r.isError, fields |-> r.fields, content |-> r.content]
    BY DEF IsGoodResult
  <2> QED
    BY ONLY <2>1
<1> HIDE DEF q
<1>5. IsGoodResult(q)
  BY <1>2, <1>3, <1>4 DEF IsGoodResult
<1> QED
  BY <1>5 DEF q

LEMMA Single ==
    ASSUME NEW item, IsGood(item)
    PROVE  \E S : <<item>> \in Seq(S) /\ \A x \in S : IsGood(x)
<1> DEFINE S == {item}
<1>1. item \in S /\ \A x \in S : IsGood(x)
  OBVIOUS
<1> HIDE DEF S
<1>2. <<item>> \in Seq(S)
  BY <1>1
<1> QED
  BY <1>1, <1>2

\* Other fields do not matter.
LEMMA Refielded ==
    ASSUME NEW r, IsGoodResult(r), NEW fields
    PROVE  IsGoodResult([r EXCEPT !.fields = fields])
<1> DEFINE q == [r EXCEPT !.fields = fields]
<1>1. /\ q = [isError |-> q.isError, fields |-> q.fields, content |-> q.content]
      /\ q.content = r.content
  BY DEF IsGoodResult
<1> HIDE DEF q
<1>2. IsGoodResult(q)
  BY <1>1 DEF IsGoodResult
<1> QED
  BY <1>2 DEF q

LEMMA NotedIsGood == ASSUME NEW r, IsGoodResult(r) PROVE IsGoodResult(WithNote(r))
BY NotMedia, Appended DEF WithNote

LEMMA ErrorIsGood == IsGoodResult(Error)
<1>1. \E S : <<Note>> \in Seq(S) /\ \A x \in S : IsGood(x)
  BY NotMedia, Single
<1>2. /\ Error = [isError |-> Error.isError, fields |-> Error.fields, content |-> Error.content]
      /\ Error.content = <<Note>>
  BY DEF Error
<1> QED
  BY <1>1, <1>2 DEF IsGoodResult

LEMMA LinkedIsGood == ASSUME NEW c, NEW m PROVE IsGoodResult(Linked(c, m))
<1> DEFINE r == Linked(c, m)
<1>1. \E S : <<Text(m.url)>> \in Seq(S) /\ \A x \in S : IsGood(x)
  BY NotMedia, Single
<1>2. /\ r = [isError |-> r.isError, fields |-> r.fields, content |-> r.content]
      /\ r.content = <<Text(m.url)>>
  BY DEF Linked
<1> HIDE DEF r
<1>3. IsGoodResult(r)
  BY <1>1, <1>2 DEF IsGoodResult
<1> QED
  BY <1>3 DEF r

\* What a fetch reads of a file is too long, or it is the whole file.
LEMMA ReadWhole ==
    ASSUME RoomToTell, NEW size \in Sizes, BytesRead(size) <= InlineMax
    PROVE  BytesRead(size) = size /\ size \in 0..InlineMax
<1>1. ReadLimit = InlineMax + 1 /\ InlineMax \in Nat /\ size \in Nat
  BY MediaAssumption DEF RoomToTell, ReadLimit, Wrapped, MediaAssumption
<1> QED
  BY <1>1 DEF BytesRead

LEMMA MediaIsGood ==
    ASSUME RoomToTell, NEW r, IsGoodResult(r), NEW m, NEW entry, entry.size \in Sizes,
           BytesRead(entry.size) <= InlineMax
    PROVE  IsGoodResult(WithMedia(r, m, entry, BytesRead(entry.size)))
<1> DEFINE item == Media(m, entry, BytesRead(entry.size))
           q == [r EXCEPT !.content = Append(@, item)]
           fields == [q.fields EXCEPT !.inline_included = TRUE]
<1>1. IsGood(item)
  BY ReadWhole DEF IsGood, Media
<1> HIDE DEF item
<1>2. IsGoodResult(q)
  BY <1>1, Appended
<1>3. WithMedia(r, m, entry, BytesRead(entry.size)) = [q EXCEPT !.fields = fields]
  BY DEF WithMedia, item
<1> HIDE DEF q, fields
<1> QED
  BY <1>2, <1>3, Refielded

LEMMA EnrichedIsGood ==
    ASSUME NEW r, IsGoodResult(r), NEW m PROVE IsGoodResult(Enriched(r, m))
<1> DEFINE q == [r EXCEPT !.content = Append(@, Text(m.url))]
           fields == [r.fields EXCEPT !.url = m.url, !.mime_type = m.mime, !.size_bytes = m.size]
<1>1. IsGoodResult(q)
  BY NotMedia, Appended
<1>2. Enriched(r, m) = [q EXCEPT !.fields = fields]
  BY DEF Enriched
<1> HIDE DEF q, fields
<1> QED
  BY <1>1, <1>2, Refielded

-----------------------------------------------------------------------------

(* Types. *)

LEMMA InitTypes == Init => Types
BY MediaAssumption DEF Init, Types, TypeOK, MediaAssumption

\* A call that goes to the middleware, or from there to its end.
LEMMA MovesOn ==
    ASSUME Types, NEW c \in Clients, NEW state \in {"enrich", "done"}, at[c] # "idle",
           at' = [at EXCEPT ![c] = state], UNCHANGED <<volume, writes, call, minted>>
    PROVE  Types'
BY DEF Types, TypeOK

LEMMA MintTypes == ASSUME Types, NEW c \in Clients, Mint(c) PROVE Types'
<1> DEFINE f == FileOf[call[c].request]
           m == MintResponse(call[c].request, Disposition(call[c].tool))
<1>1. f \in Files /\ volume[f] \in Entries
  BY MediaAssumption DEF Types, TypeOK, Mint, CanMint, MediaAssumption
<1>2. m \in Minted
  BY <1>1 DEF MintResponse, Disposition, Minted, Urls, Dispositions, Entries
<1>3. m # None
  BY <1>2, MediaAssumption DEF MediaAssumption
<1> QED
  BY <1>2, <1>3 DEF Types, TypeOK, Mint, MayInline

LEMMA TypesStep == ASSUME Types, [Next]_vars PROVE Types'
<1>1. CASE Write
  BY <1>1, MediaAssumption DEF Write, Types, TypeOK, MediaAssumption
<1>2. ASSUME NEW c \in Clients, CallGeneric(c) PROVE Types'
  <2>1. PICK tool \in Generic, request \in Requests, mode \in Modes \cup {"other"} :
          /\ call' = [call EXCEPT ![c] = [tool |-> tool, request |-> request, mode |-> mode]]
          /\ at' = [at EXCEPT ![c] = "enrich"] \/ at' = [at EXCEPT ![c] = "mint"]
    BY <1>2 DEF CallGeneric, Modes, DefaultMode
  <2>2. UNCHANGED <<volume, writes, minted>>
    BY <1>2 DEF CallGeneric
  <2> QED
    BY <2>1, <2>2 DEF Types, TypeOK
<1>3. ASSUME NEW c \in Clients, CallMirrored(c) PROVE Types'
  BY <1>3 DEF CallMirrored, Types, TypeOK
<1>4. ASSUME NEW c \in Clients, MintFails(c) \/ Fetch(c) \/ FetchFails(c) PROVE Types'
  BY <1>4, MovesOn DEF MintFails, Fetch, FetchFails
<1>5. ASSUME NEW c \in Clients, Pass(c) \/ Enrich(c) PROVE Types'
  BY <1>5, MovesOn DEF Pass, Enrich, Return
<1>6. CASE UNCHANGED vars
  BY <1>6 DEF vars, Types, TypeOK
<1> QED
  BY <1>1, <1>2, <1>3, <1>4, <1>5, <1>6, MintTypes DEF Next, Step

-----------------------------------------------------------------------------
(* Results. *)

LEMMA InitGood == Init => Good
BY ErrorIsGood DEF Init, Good

\* A call whose result becomes a good one, if it is the proxy's own.
LEMMA ResultStep ==
    ASSUME Good, Types, NEW c \in Clients, NEW r, IsOwn(c) => IsGoodResult(r),
           result' = [result EXCEPT ![c] = r], at[c] # "idle", UNCHANGED call,
           NEW state, at' = [at EXCEPT ![c] = state], state # "idle"
    PROVE  Good'
BY DEF Good, IsOwn, Types, TypeOK

\* A call that is made: of a generic tool, or of an upstream's.
LEMMA CallStep ==
    ASSUME Good, Types, NEW c \in Clients, NEW x, NEW state, state # "idle", at[c] = "idle",
           at' = [at EXCEPT ![c] = state], call' = [call EXCEPT ![c] = x],
           UNCHANGED result \/ \E r : result' = [result EXCEPT ![c] = r],
           x.tool \in Generic => IsGoodResult(result'[c])
    PROVE  Good'
BY DEF Good, IsOwn, Types, TypeOK

LEMMA GoodStep == ASSUME RoomToTell, Types, Good, [Next]_vars PROVE Good'
<1>1. CASE Write
  BY <1>1 DEF Write, Good, IsOwn
<1>2. ASSUME NEW c \in Clients, CallGeneric(c) PROVE Good'
  <2>1. PICK x, state : /\ call' = [call EXCEPT ![c] = x] /\ state # "idle"
                        /\ at' = [at EXCEPT ![c] = state]
                        /\ \/ UNCHANGED result
                           \/ result' = [result EXCEPT ![c] = Error]
    BY <1>2 DEF CallGeneric
  <2>2. IsGoodResult(result'[c])
    <3>1. CASE result' = [result EXCEPT ![c] = Error]
      BY <3>1, ErrorIsGood DEF Good
    <3>2. CASE UNCHANGED result
      BY <1>2, <3>2 DEF CallGeneric, Good, IsOwn
    <3> QED
      BY <2>1, <3>1, <3>2
  <2>3. at[c] = "idle"
    BY <1>2 DEF CallGeneric
  <2> QED
    BY <2>1, <2>2, <2>3, CallStep
<1>3. ASSUME NEW c \in Clients, CallMirrored(c) PROVE Good'
  <2>1. PICK x, r : /\ x.tool \in Mirrored /\ call' = [call EXCEPT ![c] = x]
                    /\ result' = [result EXCEPT ![c] = r]
    BY <1>3 DEF CallMirrored
  <2>2. x.tool \notin Generic
    BY <2>1, MediaAssumption DEF MediaAssumption
  <2>3. at[c] = "idle" /\ at' = [at EXCEPT ![c] = "enrich"]
    BY <1>3 DEF CallMirrored
  <2> QED
    BY <2>1, <2>2, <2>3, CallStep
<1>4. ASSUME NEW c \in Clients, Mint(c) PROVE Good'
  <2>1. PICK m : \/ result' = [result EXCEPT ![c] = Linked(c, m)]
                 \/ result' = [result EXCEPT ![c] = WithNote(Linked(c, m))]
    BY <1>4 DEF Mint
  <2>2. IsGoodResult(Linked(c, m)) /\ IsGoodResult(WithNote(Linked(c, m)))
    BY LinkedIsGood, NotedIsGood
  <2>3. /\ at[c] # "idle" /\ UNCHANGED call
        /\ at' = [at EXCEPT ![c] = "fetch"] \/ at' = [at EXCEPT ![c] = "enrich"]
    BY <1>4 DEF Mint
  <2> QED
    BY <2>1, <2>2, <2>3, ResultStep
<1>5. ASSUME NEW c \in Clients, MintFails(c) PROVE Good'
  BY <1>5, ResultStep, ErrorIsGood DEF MintFails
<1>6. ASSUME NEW c \in Clients, Fetch(c) PROVE Good'
  <2> DEFINE entry == volume[minted[c].url.file]
             length == BytesRead(entry.size)
             r == IF Fits(minted[c], length) THEN WithMedia(result[c], minted[c], entry, length)
                  ELSE WithNote(result[c])
  <2>1. /\ result' = [result EXCEPT ![c] = r] /\ at' = [at EXCEPT ![c] = "enrich"]
        /\ at[c] # "idle" /\ UNCHANGED call
    BY <1>6 DEF Fetch
  <2>2. IsOwn(c) => IsGoodResult(r)
    <3>1. CASE Fits(minted[c], length)
      <4>1. entry.size \in Sizes
        <5>1. minted[c] \in Minted
          BY <1>6 DEF Fetch, Types, TypeOK
        <5>2. minted[c].url.file \in Files
          BY <5>1 DEF Minted, Urls
        <5> QED
          BY <1>6, <5>2 DEF Fetch, Types, TypeOK, Entries
      <4>2. length <= InlineMax
        BY <3>1 DEF Fits
      <4> QED
        BY <3>1, <4>1, <4>2, MediaIsGood DEF Good
    <3>2. CASE ~Fits(minted[c], length)
      BY <3>2, NotedIsGood DEF Good
    <3> QED
      BY <3>1, <3>2
  <2> HIDE DEF r
  <2> QED
    BY <2>1, <2>2, ResultStep
<1>7. ASSUME NEW c \in Clients, FetchFails(c) PROVE Good'
  <2>1. IsOwn(c) => IsGoodResult(WithNote(result[c]))
    BY NotedIsGood DEF Good
  <2> QED
    BY <1>7, <2>1, ResultStep DEF FetchFails
<1>8. ASSUME NEW c \in Clients, Pass(c) PROVE Good'
  BY <1>8 DEF Pass, Return, Good, IsOwn, Types, TypeOK
<1>9. ASSUME NEW c \in Clients, Enrich(c) PROVE Good'
  <2>1. PICK m : result' = [result EXCEPT ![c] = Enriched(result[c], m)]
    BY <1>9 DEF Enrich
  <2>2. IsOwn(c) => IsGoodResult(Enriched(result[c], m))
    BY <1>9, EnrichedIsGood DEF Enrich, Good
  <2> QED
    BY <1>9, <2>1, <2>2, ResultStep DEF Enrich, Return
<1>10. CASE UNCHANGED vars
  BY <1>10 DEF vars, Good, IsOwn
<1> QED
  BY <1>1, <1>2, <1>3, <1>4, <1>5, <1>6, <1>7, <1>8, <1>9, <1>10 DEF Next, Step

\* The media in every result of the proxy's own making are whole and fit.
THEOREM Invariant == RoomToTell => (Spec => []Inv)
<1> SUFFICES ASSUME RoomToTell PROVE Spec => []Inv
  OBVIOUS
<1>1. Inv /\ [Next]_vars => Inv'
  BY GoodStep, TypesStep DEF Inv
<1>2. Init => Inv
  BY InitGood, InitTypes DEF Inv
<1> QED
  BY <1>1, <1>2, PTL DEF Spec

\* Every variable keeps its type, and what is fetched was minted.
THEOREM TypeCorrect == Spec => []TypeOK
<1>1. Types /\ [Next]_vars => Types'
  BY TypesStep
<1>2. Types => TypeOK
  BY DEF Types
<1> QED
  BY <1>1, <1>2, InitTypes, PTL DEF Spec

LEMMA InlinedItems ==
    ASSUME Inv, NEW c \in Clients, NEW i \in Inlined(c)
    PROVE  LET item == result[c].content[i]
           IN  item.length \in 0..InlineMax /\ item.length = item.of.size
<1>1. PICK S : result[c].content \in Seq(S) /\ \A item \in S : IsGood(item)
  BY DEF Inv, Good, IsOwn, IsGoodResult, Inlined
<1>2. i \in DOMAIN result[c].content /\ IsInline(result[c].content[i])
  BY DEF Inlined
<1>3. IsGood(result[c].content[i])
  BY <1>1, <1>2
<1> QED
  BY <1>2, <1>3 DEF IsGood, IsInline

\* Nothing longer than INLINE_MAX_BYTES is inlined, also of a file that grew since its URL was
\* minted, for any limit below the largest int64.
THEOREM NothingTooLarge == RoomToTell => (Spec => []InlineWithin)
<1> SUFFICES ASSUME RoomToTell PROVE Spec => []InlineWithin
  OBVIOUS
<1>1. Inv => InlineWithin
  <2>1. InlineMax \in Nat
    BY MediaAssumption DEF MediaAssumption
  <2> QED
    BY <2>1, InlinedItems DEF InlineWithin
<1> QED
  BY <1>1, Invariant, PTL

\* What is inlined is a whole file, for any limit below the largest int64: at the largest
\* fetchInline's InlineMaxBytes+1 wraps and an empty prefix is inlined.
THEOREM NothingTruncated == RoomToTell => (Spec => []InlineWhole)
<1> SUFFICES ASSUME RoomToTell PROVE Spec => []InlineWhole
  OBVIOUS
<1>1. Inv => InlineWhole
  BY InlinedItems DEF InlineWhole
<1> QED
  BY <1>1, Invariant, PTL

-----------------------------------------------------------------------------
(* Fields and content agree. *)

IsFields(f) ==
    \E file, path, name, url, mime, size, inline, rest :
       f = [file_path |-> file, path |-> path, filename |-> name, url |-> url, mime_type |-> mime,
            size_bytes |-> size, inline_included |-> inline, rest |-> rest]

Has(s, x) == \E i \in DOMAIN s : s[i] = x

HasInline(s) == \E i \in DOMAIN s : IsInline(s[i])

OneInline(s) == \A i, j \in DOMAIN s : IsInline(s[i]) /\ IsInline(s[j]) => i = j

\* A result whose fields say what its content is.
Agrees(r) ==
    /\ r = [isError |-> r.isError, fields |-> r.fields, content |-> r.content]
    /\ IsFields(r.fields) /\ \E S : r.content \in Seq(S)
    /\ r.fields.inline_included = TRUE <=> HasInline(r.content)
    /\ OneInline(r.content)
    /\ ~r.isError => Has(r.content, Text(r.fields.url))

AgreeInv ==
    /\ Types /\ DOMAIN result = Clients
    /\ \A c \in Clients :
        /\ at[c] = "fetch" => minted[c].mime \in Eligible
        /\ IsOwn(c) => /\ Agrees(result[c])
                       /\ at[c] = "fetch" => HasInline(result[c].content) = FALSE

LEMMA NotInline == IsInline(Note) = FALSE /\ \A url : IsInline(Text(url)) = FALSE
BY DEF IsInline, Text, Note, Eligible, Image, Audio

LEMMA AppendedItems ==
    ASSUME NEW S, NEW s \in Seq(S), NEW item
    PROVE  /\ Append(s, item) \in Seq(S \cup {item})
           /\ HasInline(Append(s, item)) <=> IsInline(item) \/ HasInline(s)
           /\ \A x : Has(Append(s, item), x) <=> x = item \/ Has(s, x)
           /\ OneInline(s) /\ (IsInline(item) = FALSE \/ HasInline(s) = FALSE) =>
                  OneInline(Append(s, item))
<1> DEFINE R == S \cup {item}
           t == Append(s, item)
<1>1. s \in Seq(R) /\ item \in R
  OBVIOUS
<1> HIDE DEF R
<1>2. /\ Len(s) \in Nat /\ DOMAIN s = 1..Len(s) /\ DOMAIN t = 1..(Len(s) + 1)
      /\ t[Len(s) + 1] = item /\ \A i \in 1..Len(s) : t[i] = s[i]
      /\ t \in Seq(R)
  BY <1>1
<1> HIDE DEF t
<1>3. HasInline(t) <=> IsInline(item) \/ HasInline(s)
  BY <1>2 DEF HasInline
<1>4. \A x : Has(t, x) <=> x = item \/ Has(s, x)
  BY <1>2 DEF Has
<1>5. OneInline(s) /\ (IsInline(item) = FALSE \/ HasInline(s) = FALSE) => OneInline(t)
  BY <1>2 DEF OneInline, HasInline
<1> QED
  BY <1>2, <1>3, <1>4, <1>5 DEF t, R

\* A result of one item that is not media, and is the text of its url unless it is an error.
LEMMA SingleAgrees ==
    ASSUME NEW r, NEW item, IsInline(item) = FALSE,
           r = [isError |-> r.isError, fields |-> r.fields, content |-> r.content],
           IsFields(r.fields), r.content = <<item>>, r.fields.inline_included # TRUE,
           r.isError = TRUE \/ item = Text(r.fields.url)
    PROVE  Agrees(r) /\ HasInline(r.content) = FALSE
<1>1. <<item>> \in Seq({item}) /\ DOMAIN <<item>> = {1} /\ <<item>>[1] = item
  OBVIOUS
<1> QED
  BY <1>1 DEF Agrees, Has, HasInline, OneInline

LEMMA NoFieldsAre ==
    /\ IsFields(NoFields) /\ NoFields.inline_included # TRUE
BY MediaAssumption DEF NoFields, IsFields, MediaAssumption

\* Other values of fields leave them fields.
LEMMA FlaggedFields ==
    ASSUME NEW f, IsFields(f), NEW g, g = [f EXCEPT !.inline_included = TRUE]
    PROVE  IsFields(g) /\ g.url = f.url /\ g.inline_included = TRUE
<1>1. PICK file, path, name, url, mime, size, inline, rest :
         f = [file_path |-> file, path |-> path, filename |-> name, url |-> url, mime_type |-> mime,
              size_bytes |-> size, inline_included |-> inline, rest |-> rest]
  BY DEF IsFields
<1> DEFINE record == [file_path |-> file, path |-> path, filename |-> name, url |-> url,
                      mime_type |-> mime, size_bytes |-> size, inline_included |-> inline,
                      rest |-> rest]
<1>2. g = [record EXCEPT !.inline_included = TRUE]
  BY <1>1
<1>3. g = [file_path |-> file, path |-> path, filename |-> name, url |-> url,
           mime_type |-> mime, size_bytes |-> size, inline_included |-> TRUE, rest |-> rest]
  BY ONLY <1>2
<1>4. f.url = url
  BY <1>1
<1> QED
  BY ONLY <1>3, <1>4 DEF IsFields

LEMMA ErrorAgrees == Agrees(Error)
<1>1. /\ Error = [isError |-> Error.isError, fields |-> Error.fields, content |-> Error.content]
      /\ Error.content = <<Note>> /\ Error.fields = NoFields /\ Error.isError = TRUE
  BY DEF Error
<1> QED
  BY <1>1, NoFieldsAre, NotInline, SingleAgrees

LEMMA LinkedAgrees ==
    ASSUME NEW c, NEW m
    PROVE  Agrees(Linked(c, m)) /\ HasInline(Linked(c, m).content) = FALSE
<1> DEFINE r == Linked(c, m)
<1>1. /\ r = [isError |-> r.isError, fields |-> r.fields, content |-> r.content]
      /\ r.content = <<Text(m.url)>>
      /\ r.fields = [NoFields EXCEPT !.filename = BaseName[call[c].request], !.url = m.url,
                                     !.mime_type = m.mime, !.size_bytes = m.size,
                                     !.inline_included = FALSE]
  BY DEF Linked
<1> HIDE DEF r
<1>2. IsFields(r.fields) /\ r.fields.url = m.url /\ r.fields.inline_included = FALSE
  BY <1>1 DEF NoFields, IsFields
<1>3. Agrees(r) /\ HasInline(r.content) = FALSE
  BY <1>1, <1>2, NotInline, SingleAgrees
<1> QED
  BY <1>3 DEF r

\* A result to which an item is appended, with other fields.
LEMMA ExtendedAgrees ==
    ASSUME NEW r, Agrees(r), NEW item, NEW fields, NEW q, IsFields(fields),
           q = [isError |-> r.isError, fields |-> fields, content |-> Append(r.content, item)],
           fields.inline_included = TRUE <=> IsInline(item) \/ HasInline(r.content),
           IsInline(item) = FALSE \/ HasInline(r.content) = FALSE,
           fields.url = r.fields.url \/ item = Text(fields.url)
    PROVE  Agrees(q)
<1>1. PICK S : r.content \in Seq(S)
  BY DEF Agrees
<1>2. q.isError = r.isError /\ q.fields = fields /\ q.content = Append(r.content, item)
  OBVIOUS
<1>3. /\ q.content \in Seq(S \cup {item})
      /\ HasInline(q.content) <=> IsInline(item) \/ HasInline(r.content)
      /\ \A x : Has(q.content, x) <=> x = item \/ Has(r.content, x)
      /\ OneInline(q.content)
  <2> DEFINE t == Append(r.content, item)
  <2>1. t \in Seq(S \cup {item})
    BY <1>1, AppendedItems, Zenon
  <2>2. HasInline(t) <=> IsInline(item) \/ HasInline(r.content)
    BY <1>1, AppendedItems, Zenon
  <2>3. \A x : Has(t, x) <=> x = item \/ Has(r.content, x)
    BY <1>1, AppendedItems, Zenon
  <2>4. OneInline(t)
    <3>1. OneInline(r.content)
      BY DEF Agrees
    <3> QED
      BY <1>1, <3>1, AppendedItems, Zenon
  <2> HIDE DEF t
  <2>5. q.content = t
    BY <1>2 DEF t
  <2> QED
    BY <2>1, <2>2, <2>3, <2>4, <2>5
<1>4. ~q.isError => Has(q.content, Text(fields.url))
  BY <1>2, <1>3 DEF Agrees
<1> QED
  BY <1>2, <1>3, <1>4 DEF Agrees

LEMMA NotedAgrees == ASSUME NEW r, Agrees(r) PROVE Agrees(WithNote(r))
<1> DEFINE q == WithNote(r)
<1>1. q = [isError |-> r.isError, fields |-> r.fields, content |-> Append(r.content, Note)]
  <2>1. r = [isError |-> r.isError, fields |-> r.fields, content |-> r.content]
    BY DEF Agrees
  <2> QED
    BY ONLY <2>1 DEF WithNote
<1> HIDE DEF q
<1>2. IsFields(r.fields)
      /\ (r.fields.inline_included = TRUE <=> HasInline(r.content))
  BY DEF Agrees
<1>3. Agrees(q)
  BY <1>1, <1>2, NotInline, ExtendedAgrees
<1> QED
  BY <1>3 DEF q

LEMMA MediaAgrees ==
    ASSUME NEW r, Agrees(r), HasInline(r.content) = FALSE,
           NEW m, m.mime \in Eligible, NEW entry, NEW length
    PROVE  Agrees(WithMedia(r, m, entry, length))
<1> DEFINE q == WithMedia(r, m, entry, length)
           item == Media(m, entry, length)
           fields == [r.fields EXCEPT !.inline_included = TRUE]
<1>1. IsInline(item)
  BY DEF IsInline, Media
<1>2. IsFields(fields) /\ fields.url = r.fields.url /\ fields.inline_included = TRUE
  <2>1. IsFields(r.fields)
    BY DEF Agrees
  <2>2. fields = [r.fields EXCEPT !.inline_included = TRUE]
    OBVIOUS
  <2> HIDE DEF fields
  <2> QED
    BY <2>1, <2>2, FlaggedFields
<1>3. q = [isError |-> r.isError, fields |-> fields, content |-> Append(r.content, item)]
  <2>1. r = [isError |-> r.isError, fields |-> r.fields, content |-> r.content]
    BY DEF Agrees
  <2>2. q = [r EXCEPT !.content = Append(r.content, item), !.fields = fields]
    BY ONLY <2>1 DEF WithMedia
  <2> HIDE DEF q, item, fields
  <2> QED
    BY ONLY <2>1, <2>2
<1> HIDE DEF q, item, fields
<1>4. Agrees(q)
  BY <1>1, <1>2, <1>3, ExtendedAgrees
<1> QED
  BY <1>4 DEF q

LEMMA EnrichedAgrees == ASSUME NEW r, Agrees(r), NEW m PROVE Agrees(Enriched(r, m))
<1> DEFINE q == Enriched(r, m)
           fields == [r.fields EXCEPT !.url = m.url, !.mime_type = m.mime, !.size_bytes = m.size]
<1>1. /\ IsFields(fields) /\ fields.url = m.url
      /\ fields.inline_included = r.fields.inline_included
  <2>1. PICK file, path, name, url, mime, size, inline, rest :
           r.fields = [file_path |-> file, path |-> path, filename |-> name, url |-> url,
                       mime_type |-> mime, size_bytes |-> size, inline_included |-> inline,
                       rest |-> rest]
    BY DEF Agrees, IsFields
  <2> DEFINE record == [file_path |-> file, path |-> path, filename |-> name, url |-> url,
                        mime_type |-> mime, size_bytes |-> size, inline_included |-> inline,
                        rest |-> rest]
             u == m.url
             t == m.mime
             n == m.size
  <2>2. fields = [record EXCEPT !.url = u, !.mime_type = t, !.size_bytes = n]
    BY <2>1
  <2>3. r.fields.inline_included = inline
    BY <2>1
  <2> HIDE DEF fields, u, t, n
  <2>4. fields = [file_path |-> file, path |-> path, filename |-> name, url |-> u,
                  mime_type |-> t, size_bytes |-> n, inline_included |-> inline, rest |-> rest]
    BY ONLY <2>2
  <2>5. IsFields(fields) /\ fields.url = u /\ fields.inline_included = inline
    BY ONLY <2>4 DEF IsFields
  <2> QED
    BY <2>3, <2>5 DEF u
<1>2. q = [isError |-> r.isError, fields |-> fields, content |-> Append(r.content, Text(m.url))]
  <2>1. r = [isError |-> r.isError, fields |-> r.fields, content |-> r.content]
    BY DEF Agrees
  <2>2. q = [r EXCEPT !.fields = fields, !.content = Append(r.content, Text(m.url))]
    BY ONLY <2>1 DEF Enriched
  <2> HIDE DEF q, fields
  <2> QED
    BY ONLY <2>1, <2>2
<1>3. r.fields.inline_included = TRUE <=> HasInline(r.content)
  BY DEF Agrees
<1> HIDE DEF q, fields
<1>4. Agrees(q)
  BY <1>1, <1>2, <1>3, NotInline, ExtendedAgrees
<1> QED
  BY <1>4 DEF q

LEMMA InitAgrees == Init => AgreeInv
BY InitTypes, ErrorAgrees DEF Init, AgreeInv

\* A step of one call, to a place where it does not fetch, with a result that agrees.
LEMMA AgreeStep ==
    ASSUME AgreeInv, Types', NEW c \in Clients, NEW r, IsOwn(c) => Agrees(r),
           at[c] # "idle", NEW state \in {"enrich", "done"},
           at' = [at EXCEPT ![c] = state], UNCHANGED <<call, minted>>,
           result' = [result EXCEPT ![c] = r]
    PROVE  AgreeInv'
BY DEF AgreeInv, IsOwn, Types, TypeOK

\* A call that is made.
LEMMA AgreeCall ==
    ASSUME AgreeInv, Types', NEW c \in Clients, NEW x, NEW state \in {"mint", "enrich"},
           at[c] = "idle", at' = [at EXCEPT ![c] = state], call' = [call EXCEPT ![c] = x],
           UNCHANGED result \/ \E r : result' = [result EXCEPT ![c] = r],
           UNCHANGED minted, x.tool \in Generic => Agrees(result'[c])
    PROVE  AgreeInv'
BY DEF AgreeInv, IsOwn, Types, TypeOK

LEMMA AgreeMint == ASSUME AgreeInv, Types', NEW c \in Clients, Mint(c) PROVE AgreeInv'
<1> DEFINE m == MintResponse(call[c].request, Disposition(call[c].tool))
           r == Linked(c, m)
<1>1. /\ minted' = [minted EXCEPT ![c] = m]
      /\ at[c] = "mint" /\ UNCHANGED call
      /\ \/ /\ MayInline(c, m)
            /\ at' = [at EXCEPT ![c] = "fetch"] /\ result' = [result EXCEPT ![c] = r]
         \/ /\ at' = [at EXCEPT ![c] = "enrich"]
            /\ \/ result' = [result EXCEPT ![c] = r]
               \/ result' = [result EXCEPT ![c] = WithNote(r)]
  BY DEF Mint
<1>2. Agrees(r) /\ HasInline(r.content) = FALSE /\ Agrees(WithNote(r))
  BY LinkedAgrees, NotedAgrees
<1>3. MayInline(c, m) => m.mime \in Eligible
  BY DEF MayInline
<1> HIDE DEF m, r
<1>4. DOMAIN result' = Clients /\ \A d \in Clients : IsOwn(d)' => Agrees(result'[d])
  BY <1>1, <1>2 DEF AgreeInv, IsOwn, Types, TypeOK
<1>5. \A d \in Clients : at'[d] = "fetch" =>
        /\ minted'[d].mime \in Eligible
        /\ IsOwn(d)' => HasInline(result'[d].content) = FALSE
  BY <1>1, <1>2, <1>3 DEF AgreeInv, IsOwn, Types, TypeOK
<1> QED
  BY <1>4, <1>5 DEF AgreeInv

LEMMA AgreesAlways == ASSUME AgreeInv, [Next]_vars PROVE AgreeInv'
<1>1. Types' /\ DOMAIN result = Clients /\ \A c \in Clients : IsOwn(c) => Agrees(result[c])
  BY TypesStep DEF AgreeInv
<1>2. ASSUME NEW c \in Clients, CallGeneric(c) PROVE AgreeInv'
  <2>1. PICK x : call' = [call EXCEPT ![c] = x]
    BY <1>2 DEF CallGeneric
  <2>2. at[c] = "idle" /\ UNCHANGED minted
    BY <1>2 DEF CallGeneric
  <2>3. CASE at' = [at EXCEPT ![c] = "enrich"] /\ result' = [result EXCEPT ![c] = Error]
    <3>1. Agrees(result'[c])
      BY <1>1, <2>3, ErrorAgrees
    <3> QED
      BY <1>1, <2>1, <2>2, <2>3, <3>1, AgreeCall
  <2>4. CASE at' = [at EXCEPT ![c] = "mint"] /\ UNCHANGED result
    <3>1. Agrees(result'[c])
      BY <1>1, <2>2, <2>4 DEF IsOwn
    <3> QED
      BY <1>1, <2>1, <2>2, <2>4, <3>1, AgreeCall
  <2> QED
    BY <1>2, <2>3, <2>4 DEF CallGeneric
<1>3. ASSUME NEW c \in Clients, CallMirrored(c) PROVE AgreeInv'
  <2>1. PICK x, r : /\ x.tool \in Mirrored /\ call' = [call EXCEPT ![c] = x]
                    /\ result' = [result EXCEPT ![c] = r]
    BY <1>3 DEF CallMirrored
  <2>2. x.tool \notin Generic
    BY <2>1, MediaAssumption DEF MediaAssumption
  <2>3. at[c] = "idle" /\ UNCHANGED minted /\ at' = [at EXCEPT ![c] = "enrich"]
    BY <1>3 DEF CallMirrored
  <2> QED
    BY <1>1, <2>1, <2>2, <2>3, AgreeCall
<1>4. ASSUME NEW c \in Clients, MintFails(c) PROVE AgreeInv'
  BY <1>1, <1>4, ErrorAgrees, AgreeStep DEF MintFails
<1>5. ASSUME NEW c \in Clients, Fetch(c) PROVE AgreeInv'
  <2>1. IsOwn(c) => HasInline(result[c].content) = FALSE
    BY <1>5 DEF Fetch, AgreeInv
  <2>2. minted[c].mime \in Eligible
    BY <1>5 DEF Fetch, AgreeInv
  <2>3. PICK r : (IsOwn(c) => Agrees(r)) /\ result' = [result EXCEPT ![c] = r]
    BY <1>1, <1>5, <2>1, <2>2, MediaAgrees, NotedAgrees DEF Fetch
  <2> QED
    BY <1>1, <1>5, <2>3, AgreeStep DEF Fetch
<1>6. ASSUME NEW c \in Clients, FetchFails(c) PROVE AgreeInv'
  <2>1. IsOwn(c) => Agrees(WithNote(result[c]))
    BY <1>1, NotedAgrees
  <2> QED
    BY <1>1, <1>6, <2>1, AgreeStep DEF FetchFails
<1>7. ASSUME NEW c \in Clients, Pass(c) PROVE AgreeInv'
  BY <1>1, <1>7 DEF Pass, Return, AgreeInv, IsOwn, Types, TypeOK
<1>8. ASSUME NEW c \in Clients, Enrich(c) PROVE AgreeInv'
  <2>1. PICK r : (IsOwn(c) => Agrees(r)) /\ result' = [result EXCEPT ![c] = r]
    BY <1>1, <1>8, EnrichedAgrees DEF Enrich
  <2> QED
    BY <1>1, <1>8, <2>1, AgreeStep DEF Enrich, Return
<1>9. CASE Write
  BY <1>1, <1>9 DEF Write, AgreeInv, IsOwn
<1>10. CASE UNCHANGED vars
  BY <1>1, <1>10 DEF vars, AgreeInv, IsOwn
<1> QED
  BY <1>1, <1>2, <1>3, <1>4, <1>5, <1>6, <1>7, <1>8, <1>9, <1>10, AgreeMint DEF Next, Step

\* In a generic tool's result inline_included tells whether a medium is attached, never more than
\* one is, and the url is among the texts, however the fetch, the mint and the enrichment of a
\* call end, and also when TOOL_MATCH matches the generic tools.
THEOREM FieldsAndContentAgree == Spec => []FieldsAgree
<1>1. ASSUME AgreeInv, NEW c \in Clients, at[c] = "done", call[c].tool \in Generic, ~result[c].isError
      PROVE  LET r == result[c]
             IN  /\ r.fields.inline_included = TRUE <=> Inlined(c) # {}
                 /\ \A i, j \in Inlined(c) : i = j
                 /\ \E i \in DOMAIN r.content : r.content[i] = Text(r.fields.url)
  <2>1. Agrees(result[c])
    BY <1>1 DEF AgreeInv, IsOwn
  <2>2. Inlined(c) = {i \in DOMAIN result[c].content : IsInline(result[c].content[i])}
    BY <1>1 DEF Inlined
  <2> QED
    BY <1>1, <2>1, <2>2 DEF Agrees, Has, HasInline, OneInline
<1>2. AgreeInv => FieldsAgree
  BY <1>1 DEF FieldsAgree
<1> QED
  BY <1>2, InitAgrees, AgreesAlways, PTL DEF Spec

-----------------------------------------------------------------------------
(* What becomes of a mirrored tool's result. *)

Replaced == {"url", "mime_type", "size_bytes"}

\* The result r of a call whose tool returned g is g with the answer of mint in three fields.
Kept(g, r) ==
    LET paths == <<g.fields.file_path, g.fields.path, g.fields.filename>>
    IN  /\ ~g.isError /\ ~r.isError
        /\ \E k \in 1..3 :
              /\ paths[k] # None /\ \A j \in 1..(k - 1) : paths[j] = None
              /\ r.fields.url = [file |-> FileOf[paths[k]], disposition |-> "attachment"]
        /\ [mime |-> r.fields.mime_type, size |-> r.fields.size_bytes] \in Entries
        /\ \A field \in DOMAIN g.fields \ Replaced : r.fields[field] = g.fields[field]
        /\ r.content = Append(g.content, Text(r.fields.url))

KeptInv ==
    /\ Types /\ DOMAIN call = Clients /\ DOMAIN given = Clients /\ DOMAIN result = Clients
    /\ \A c \in Clients :
        /\ at[c] \in {"mint", "fetch"} => call[c].tool \in Generic
        /\ at[c] = "enrich" /\ call[c].tool \in Mirrored =>
               result[c] = given[c] /\ given[c] \in Replies \cup {Error}
        /\ at[c] = "done" /\ call[c].tool \in Mirrored /\ result[c] # given[c] =>
               call[c].tool \in Matches /\ Kept(given[c], result[c])

\* The path that is minted is the first field that is there.
LEMMA FirstPath ==
    ASSUME NEW g, PathField(g.fields) # None
    PROVE  LET paths == <<g.fields.file_path, g.fields.path, g.fields.filename>>
           IN  \E k \in 1..3 : /\ paths[k] = PathField(g.fields)
                               /\ \A j \in 1..(k - 1) : paths[j] = None
<1> DEFINE paths == <<g.fields.file_path, g.fields.path, g.fields.filename>>
<1>1. CASE g.fields.file_path # None
  <2>1. paths[1] = PathField(g.fields)
    BY <1>1 DEF PathField
  <2> QED
    BY <2>1
<1>2. CASE g.fields.file_path = None /\ g.fields.path # None
  <2>1. paths[2] = PathField(g.fields) /\ paths[1] = None
    BY <1>2 DEF PathField
  <2>2. \A j \in 1..(2 - 1) : j = 1
    OBVIOUS
  <2> QED
    BY <2>1, <2>2
<1>3. CASE g.fields.file_path = None /\ g.fields.path = None
  <2>1. paths[3] = PathField(g.fields) /\ paths[1] = None /\ paths[2] = None
    BY <1>3 DEF PathField
  <2>2. \A j \in 1..(3 - 1) : j = 1 \/ j = 2
    OBVIOUS
  <2> QED
    BY <2>1, <2>2
<1> QED
  BY <1>1, <1>2, <1>3

LEMMA EnrichedKept ==
    ASSUME NEW g \in Results, ~g.isError, PathField(g.fields) # None,
           NEW m, m.url = [file |-> FileOf[PathField(g.fields)], disposition |-> "attachment"],
           [mime |-> m.mime, size |-> m.size] \in Entries
    PROVE  Kept(g, Enriched(g, m))
<1> DEFINE r == Enriched(g, m)
           x == Text(m.url)
           fields == [g.fields EXCEPT !.url = m.url, !.mime_type = m.mime, !.size_bytes = m.size]
<1>1. /\ fields.url = m.url /\ fields.mime_type = m.mime /\ fields.size_bytes = m.size
      /\ \A field \in DOMAIN g.fields \ Replaced : fields[field] = g.fields[field]
  BY DEF Results, Replaced
<1>2. r = [isError |-> g.isError, fields |-> fields, content |-> Append(g.content, x)]
  <2>1. g = [isError |-> g.isError, fields |-> g.fields, content |-> g.content]
    BY DEF Results
  <2>2. r = [g EXCEPT !.fields = fields, !.content = Append(g.content, x)]
    BY ONLY <2>1 DEF Enriched
  <2> HIDE DEF r, fields, x
  <2> QED
    BY ONLY <2>1, <2>2
<1> HIDE DEF r, fields
<1>3. /\ r.isError = g.isError /\ r.fields = fields
      /\ r.content = Append(g.content, Text(r.fields.url))
  BY <1>1, <1>2
<1>4. Kept(g, r)
  BY <1>1, <1>3, FirstPath DEF Kept
<1> QED
  BY <1>4 DEF r

\* What mint answers for a path of a result.
LEMMA MintedForPath ==
    ASSUME Types, NEW g \in Results, PathField(g.fields) # None, CanMint(PathField(g.fields))
    PROVE  LET m == MintResponse(PathField(g.fields), "attachment")
           IN  /\ m.url = [file |-> FileOf[PathField(g.fields)], disposition |-> "attachment"]
               /\ [mime |-> m.mime, size |-> m.size] \in Entries
<1>1. PathField(g.fields) \in Requests
  BY DEF PathField, Results
<1>2. FileOf[PathField(g.fields)] \in Files
  BY <1>1, MediaAssumption DEF CanMint, MediaAssumption
<1>3. volume[FileOf[PathField(g.fields)]] \in Entries
  BY <1>2 DEF CanMint, Types, TypeOK
<1> QED
  BY <1>3 DEF MintResponse, Entries

LEMMA KeptInit == Init => KeptInv
BY InitTypes DEF Init, KeptInv

LEMMA KeptStep == ASSUME KeptInv, [Next]_vars PROVE KeptInv'
<1> USE DEF KeptInv
<1>1. Types'
  BY TypesStep
<1>2. ASSUME NEW c \in Clients, CallGeneric(c) PROVE KeptInv'
  <2>1. PICK tool \in Generic, request \in Requests, mode \in Modes \cup {"other"} :
          call' = [call EXCEPT ![c] = [tool |-> tool, request |-> request, mode |-> mode]]
    BY <1>2 DEF CallGeneric, Modes, DefaultMode
  <2>2. call'[c].tool \in Generic /\ call'[c].tool \notin Mirrored
    BY <2>1, MediaAssumption DEF MediaAssumption
  <2>3. /\ \A d \in Clients \ {c} : /\ at'[d] = at[d] /\ call'[d] = call[d]
                                    /\ given'[d] = given[d] /\ result'[d] = result[d]
        /\ DOMAIN call' = Clients /\ DOMAIN given' = Clients /\ DOMAIN result' = Clients
    BY <1>2 DEF CallGeneric, Types, TypeOK
  <2> QED
    BY <1>1, <2>2, <2>3
<1>3. ASSUME NEW c \in Clients, CallMirrored(c) PROVE KeptInv'
  BY <1>1, <1>3 DEF CallMirrored, Types, TypeOK
<1>4. ASSUME NEW c \in Clients, Mint(c) \/ MintFails(c) \/ Fetch(c) \/ FetchFails(c) PROVE KeptInv'
  <2>1. call[c].tool \notin Mirrored
    BY <1>4, MediaAssumption DEF Mint, MintFails, Fetch, FetchFails, MediaAssumption
  <2>2. /\ UNCHANGED <<call, given>>
        /\ \E state \in {"fetch", "enrich"} : at' = [at EXCEPT ![c] = state]
        /\ \E r : result' = [result EXCEPT ![c] = r] \/ result' = result
        /\ call[c].tool \in Generic
    BY <1>4 DEF Mint, MintFails, Fetch, FetchFails
  <2> QED
    BY <1>1, <2>1, <2>2 DEF Types, TypeOK
<1>5. ASSUME NEW c \in Clients, Pass(c) PROVE KeptInv'
  BY <1>1, <1>5 DEF Pass, Return, Types, TypeOK
<1>6. ASSUME NEW c \in Clients, Enrich(c) PROVE KeptInv'
  <2> DEFINE m == MintResponse(PathField(result[c].fields), "attachment")
  <2>1. /\ at[c] = "enrich" /\ UNCHANGED <<call, given>> /\ at' = [at EXCEPT ![c] = "done"]
        /\ result' = [result EXCEPT ![c] = Enriched(result[c], m)]
        /\ Enrichable(c)
    BY <1>6 DEF Enrich, Return
  <2>2. ASSUME call[c].tool \in Mirrored
        PROVE  call[c].tool \in Matches /\ Kept(given[c], Enriched(result[c], m))
    <3>1. /\ given[c] = result[c] /\ ~result[c].isError /\ call[c].tool \in Matches
          /\ PathField(result[c].fields) # None
      BY <2>1, <2>2 DEF Enrichable
    <3>2. result[c] \in Results
      BY <2>1, <2>2, <3>1, MediaAssumption DEF MediaAssumption, Error
    <3>3. /\ m.url = [file |-> FileOf[PathField(result[c].fields)], disposition |-> "attachment"]
          /\ [mime |-> m.mime, size |-> m.size] \in Entries
      BY <1>6, <3>1, <3>2, MintedForPath DEF Enrich
    <3> HIDE DEF m
    <3> QED
      BY <3>1, <3>2, <3>3, EnrichedKept
  <2> HIDE DEF m
  <2> QED
    BY <1>1, <2>1, <2>2 DEF Types, TypeOK
<1>7. CASE Write
  BY <1>1, <1>7 DEF Write
<1>8. CASE UNCHANGED vars
  BY <1>1, <1>8 DEF vars
<1> QED
  BY <1>2, <1>3, <1>4, <1>5, <1>6, <1>7, <1>8 DEF Next, Step

\* Whatever an upstream tool returns, also a url, mime_type or size_bytes of its own, its result
\* comes back as it came or, only when the tool matches and did not fail, with these three
\* replaced by what mint answered for its first path field and with that URL appended to its
\* content; every other field and the content it came with are kept.
THEOREM MirroredResultKept == Spec => []MirroredKept
<1>1. KeptInv => MirroredKept
  BY DEF KeptInv, Kept, MirroredKept, Replaced
<1> QED
  BY <1>1, KeptInit, KeptStep, PTL DEF Spec

-----------------------------------------------------------------------------
(* The URL of a generic tool, when the pattern of enrichment leaves the generic tools alone. *)

\* A result with the URL of call c, or an error.
HasUrl(c, r) ==
    ~r.isError => r.fields.url = [file |-> FileOf[call[c].request],
                                  disposition |-> Disposition(call[c].tool)]

UrlInv ==
    /\ AgreeInv
    /\ \A c \in Clients :
        at[c] \in {"fetch", "enrich", "done"} /\ call[c].tool \in Generic => HasUrl(c, result[c])

\* What is appended to a result without touching its URL.
LEMMA NotedUrl == ASSUME NEW c, NEW r, Agrees(r), HasUrl(c, r) PROVE HasUrl(c, WithNote(r))
<1>1. r = [isError |-> r.isError, fields |-> r.fields, content |-> r.content]
  BY DEF Agrees
<1>2. WithNote(r).isError = r.isError /\ WithNote(r).fields = r.fields
  BY ONLY <1>1 DEF WithNote
<1> QED
  BY <1>2 DEF HasUrl

LEMMA MediaUrl ==
    ASSUME NEW c, NEW r, Agrees(r), HasUrl(c, r), NEW m, NEW entry, NEW length
    PROVE  HasUrl(c, WithMedia(r, m, entry, length))
<1> DEFINE q == WithMedia(r, m, entry, length)
           item == Media(m, entry, length)
           fields == [r.fields EXCEPT !.inline_included = TRUE]
<1>1. fields.url = r.fields.url
  <2>1. IsFields(r.fields) /\ fields = [r.fields EXCEPT !.inline_included = TRUE]
    BY DEF Agrees
  <2> HIDE DEF fields
  <2> QED
    BY <2>1, FlaggedFields
<1>2. q.isError = r.isError /\ q.fields = fields
  <2>1. r = [isError |-> r.isError, fields |-> r.fields, content |-> r.content]
    BY DEF Agrees
  <2>2. q = [r EXCEPT !.content = Append(r.content, item), !.fields = fields]
    BY ONLY <2>1 DEF WithMedia
  <2> HIDE DEF q, item, fields
  <2> QED
    BY ONLY <2>1, <2>2
<1> HIDE DEF q, fields
<1>3. HasUrl(c, q)
  BY <1>1, <1>2 DEF HasUrl
<1> QED
  BY <1>3 DEF q

LEMMA LinkedUrl ==
    ASSUME NEW c, NEW m,
           m.url = [file |-> FileOf[call[c].request], disposition |-> Disposition(call[c].tool)]
    PROVE  HasUrl(c, Linked(c, m)) /\ HasUrl(c, WithNote(Linked(c, m)))
<1>1. HasUrl(c, Linked(c, m))
  BY DEF HasUrl, Linked, NoFields
<1> QED
  BY <1>1, LinkedAgrees, NotedUrl

LEMMA UrlInit == Init => UrlInv
BY InitAgrees DEF Init, UrlInv

\* A step of a call of a generic tool to a result with its URL.
LEMMA UrlKept ==
    ASSUME UrlInv, AgreeInv', NEW c \in Clients, NEW state, NEW r, HasUrl(c, r),
           at' = [at EXCEPT ![c] = state], UNCHANGED call,
           result' = [result EXCEPT ![c] = r]
    PROVE  UrlInv'
BY DEF UrlInv, AgreeInv, Types, TypeOK, HasUrl

LEMMA UrlStep ==
    ASSUME Matches \cap Generic = {}, UrlInv, [Next]_vars
    PROVE  UrlInv'
<1>1. AgreeInv'
  BY AgreesAlways DEF UrlInv
<1>2. ASSUME NEW c \in Clients, at[c] # "idle", call[c].tool \in Generic PROVE Agrees(result[c])
  BY <1>2 DEF UrlInv, AgreeInv, IsOwn
<1>3. \A c : HasUrl(c, Error)
  BY DEF HasUrl, Error
<1>4. ASSUME NEW c \in Clients, CallGeneric(c) PROVE UrlInv'
  <2>1. \/ at' = [at EXCEPT ![c] = "enrich"] /\ result' = [result EXCEPT ![c] = Error]
        \/ at' = [at EXCEPT ![c] = "mint"] /\ UNCHANGED result
    BY <1>4 DEF CallGeneric
  <2>2. \A d \in Clients \ {c} : call'[d] = call[d] /\ at'[d] = at[d] /\ result'[d] = result[d]
    BY <1>4, <2>1 DEF CallGeneric, UrlInv, AgreeInv, Types, TypeOK
  <2>3. at'[c] = "mint" \/ result'[c].isError
    BY <2>1 DEF UrlInv, AgreeInv, Types, TypeOK, Error
  <2> QED
    BY <1>1, <2>2, <2>3 DEF UrlInv, HasUrl
<1>5. ASSUME NEW c \in Clients, CallMirrored(c) PROVE UrlInv'
  <2>1. call'[c].tool \notin Generic
    BY <1>5, MediaAssumption DEF CallMirrored, UrlInv, AgreeInv, Types, MediaAssumption
  <2>2. \A d \in Clients \ {c} : call'[d] = call[d] /\ at'[d] = at[d] /\ result'[d] = result[d]
    BY <1>5 DEF CallMirrored, UrlInv, AgreeInv, Types, TypeOK
  <2> QED
    BY <1>1, <2>1, <2>2 DEF UrlInv, HasUrl
<1>6. ASSUME NEW c \in Clients, Mint(c) PROVE UrlInv'
  <2> DEFINE m == MintResponse(call[c].request, Disposition(call[c].tool))
  <2>1. HasUrl(c, Linked(c, m)) /\ HasUrl(c, WithNote(Linked(c, m)))
    <3>1. m.url = [file |-> FileOf[call[c].request], disposition |-> Disposition(call[c].tool)]
      BY DEF MintResponse
    <3> HIDE DEF m
    <3> QED
      BY <3>1, LinkedUrl
  <2>2. PICK state, r : /\ at' = [at EXCEPT ![c] = state]
                        /\ result' = [result EXCEPT ![c] = r]
                        /\ r = Linked(c, m) \/ r = WithNote(Linked(c, m))
    <3>1. at' = [at EXCEPT ![c] = IF MayInline(c, m) THEN "fetch" ELSE "enrich"]
      BY <1>6 DEF Mint
    <3>2. \/ result' = [result EXCEPT ![c] = Linked(c, m)]
          \/ result' = [result EXCEPT ![c] = WithNote(Linked(c, m))]
      BY <1>6 DEF Mint
    <3> HIDE DEF m
    <3> QED
      BY ONLY <3>1, <3>2
  <2>3. UNCHANGED call
    BY <1>6 DEF Mint
  <2> HIDE DEF m
  <2> QED
    BY <1>1, <2>1, <2>2, <2>3, UrlKept
<1>7. ASSUME NEW c \in Clients, MintFails(c) PROVE UrlInv'
  BY <1>1, <1>3, <1>7, UrlKept DEF MintFails
<1>8. ASSUME NEW c \in Clients, Fetch(c) \/ FetchFails(c) PROVE UrlInv'
  <2>1. call[c].tool \in Generic => HasUrl(c, result[c])
    BY <1>8 DEF Fetch, FetchFails, UrlInv
  <2>2. PICK r : /\ result' = [result EXCEPT ![c] = r]
                 /\ \/ r = WithNote(result[c])
                    \/ \E m, entry, length : r = WithMedia(result[c], m, entry, length)
    BY <1>8 DEF Fetch, FetchFails
  <2>3. call[c].tool \in Generic => HasUrl(c, r)
    <3>1. at[c] # "idle"
      BY <1>8 DEF Fetch, FetchFails
    <3> QED
      BY <1>2, <2>1, <2>2, <3>1, NotedUrl, MediaUrl
  <2>4. at' = [at EXCEPT ![c] = "enrich"] /\ UNCHANGED call
    BY <1>8 DEF Fetch, FetchFails
  <2> QED
    BY <1>1, <2>2, <2>3, <2>4 DEF UrlInv, AgreeInv, Types, TypeOK, HasUrl
<1>9. ASSUME NEW c \in Clients, Pass(c) PROVE UrlInv'
  BY <1>1, <1>9 DEF Pass, Return, UrlInv, AgreeInv, Types, TypeOK, HasUrl
<1>10. ASSUME NEW c \in Clients, Enrich(c) PROVE UrlInv'
  <2>1. call[c].tool \notin Generic
    BY <1>10 DEF Enrich, Enrichable
  <2>2. \A d \in Clients \ {c} : call'[d] = call[d] /\ at'[d] = at[d] /\ result'[d] = result[d]
    BY <1>10 DEF Enrich, Return, UrlInv, AgreeInv, Types, TypeOK
  <2>3. call'[c].tool \notin Generic
    BY <1>10, <2>1 DEF Enrich
  <2> QED
    BY <1>1, <2>2, <2>3 DEF UrlInv, HasUrl
<1>11. CASE Write \/ UNCHANGED vars
  BY <1>1, <1>11 DEF Write, vars, UrlInv, HasUrl
<1> QED
  BY <1>4, <1>5, <1>6, <1>7, <1>8, <1>9, <1>10, <1>11 DEF Next, Step

\* A generic tool returns the URL of the file it was asked for with the tool's own disposition,
\* whenever TOOL_MATCH matches no generic tool: an operator's pattern that does is the only way
\* to what run media_generic shows.
THEOREM GenericUrlKept == Matches \cap Generic = {} => (Spec => []GenericKeepsUrl)
<1> SUFFICES ASSUME Matches \cap Generic = {} PROVE Spec => []GenericKeepsUrl
  OBVIOUS
<1>1. UrlInv /\ [Next]_vars => UrlInv'
  BY UrlStep
<1>2. UrlInv => GenericKeepsUrl
  BY DEF UrlInv, HasUrl, GenericKeepsUrl
<1> QED
  BY <1>1, <1>2, UrlInit, PTL DEF Spec

=============================================================================
