----------------------------- MODULE MediaTools -----------------------------
(***************************************************************************)
(* Tool calls through mcp-media-proxy: the two generic tools, which mint a *)
(* URL and may fetch the file to inline it, the mirrored tools, and the    *)
(* enrichment middleware around both.  The sidecar is seen through its two *)
(* requests, each a look at a volume that the workload writes meanwhile.   *)
(***************************************************************************)
EXTENDS Integers, Sequences

CONSTANTS
    Clients,        \* concurrent tool calls
    Files,          \* the files the sidecar may serve
    Requests,       \* paths a caller or a tool may name
    FileOf,         \* what mint resolves a request to, relative ones below the first root
    BaseName,       \* path.Base of a request, a request itself
    Mimes,          \* types of files; Eligible are the image and audio ones
    Sizes,          \* sizes of files
    Mirrored,       \* names of the mirrored tools
    Matches,        \* the tools TOOL_MATCH matches; none in standalone mode
    Values, Items,  \* what an upstream tool may put in a field, and among its content
    Replies,        \* the results upstream tools may return
    InlineMax,      \* INLINE_MAX_BYTES
    MaxInt64,       \* the largest int64
    MaxWrites,      \* bound: how often the workload writes a file
    None            \* a missing file, or a field that is not there

Image == "image"
Audio == "audio"
Eligible == {Image, Audio}
Generic == {"stream_media", "download_file"}
Modes == {"url", "inline", "both"}

\* What a file holds, a signed URL, and the answer of POST /mint.
Entries == [mime : Mimes, size : Sizes]
Dispositions == {"inline", "attachment"}
Urls == [file : Files, disposition : Dispositions]
Minted == [url : Urls, mime : Mimes, size : Sizes]

\* Any result with a path, or none, in each field that the proxy looks for one in.
Results ==
    LET Paths == Requests \cup {None}
    IN  [isError : BOOLEAN, content : Seq(Items),
         fields : [file_path : Paths, path : Paths, filename : Paths, url : Values,
                   mime_type : Values, size_bytes : Values, inline_included : Values,
                   rest : Values]]

MediaAssumption ==
    /\ FileOf \in [Requests -> Files \cup {None}] /\ BaseName \in [Requests -> Requests]
    /\ None \notin Files \cup Requests \cup Mimes /\ None \notin BOOLEAN /\ None \notin Minted
    /\ MaxInt64 \in Nat /\ Sizes \subseteq 0..MaxInt64
    /\ InlineMax \in 1..MaxInt64    \* loadConfig refuses any other
    /\ Mirrored \cap Generic = {}   \* the generic names are reserved
    /\ Replies \subseteq Results
    /\ MaxWrites \in Nat

ASSUME MediaAssumption

VARIABLES
    volume,     \* what is in each file now
    writes,     \* how often it was written
    at,         \* where each call is
    call,       \* its tool and arguments
    minted,     \* the MintResponse it holds
    given,      \* what its tool returned, before the middleware
    result      \* its result

vars == <<volume, writes, at, call, minted, given, result>>

\* Structured content, a field at a time; None where it has none.  The rest, of an upstream's
\* result, is every field of it that the proxy neither reads nor writes.
NoFields == [file_path |-> None, path |-> None, filename |-> None, url |-> None,
             mime_type |-> None, size_bytes |-> None, inline_included |-> None, rest |-> None]

Text(url) == [kind |-> "url", url |-> url]
Note == [kind |-> "note"]
Media(m, entry, length) == [kind |-> m.mime, of |-> entry, length |-> length]

IsInline(content) == content.kind \in Eligible

Error == [isError |-> TRUE, fields |-> NoFields, content |-> <<Note>>]

-----------------------------------------------------------------------------
(* The generic tools. *)

Disposition(tool) == IF tool = "stream_media" THEN "inline" ELSE "attachment"
DefaultMode(tool) == IF tool = "stream_media" THEN "inline" ELSE "url"

\* What mint answers for a request, as long as the file is there.
MintResponse(request, disposition) ==
    [url |-> [file |-> FileOf[request], disposition |-> disposition],
     mime |-> volume[FileOf[request]].mime, size |-> volume[FileOf[request]].size]

CanMint(request) == FileOf[request] # None /\ volume[FileOf[request]] # None

\* The result of a generic tool before anything is inlined.
Linked(c, m) ==
    [isError |-> FALSE,
     fields |-> [NoFields EXCEPT !.filename = BaseName[call[c].request], !.url = m.url,
                                 !.mime_type = m.mime, !.size_bytes = m.size,
                                 !.inline_included = FALSE],
     content |-> <<Text(m.url)>>]

WithNote(r) == [r EXCEPT !.content = Append(@, Note)]

WithMedia_Unflagged(r, m, entry, length) == [r EXCEPT !.content = Append(@, Media(m, entry, length))]

WithMedia(r, m, entry, length) ==
    [r EXCEPT !.content = Append(@, Media(m, entry, length)), !.fields.inline_included = TRUE]

Wrapped(n) == IF n > MaxInt64 THEN n - 2 * (MaxInt64 + 1) ELSE n

ReadLimit_Exact == InlineMax

\* One byte more than may be inlined tells a file that fits from one that does not.
ReadLimit == Wrapped(InlineMax + 1)

\* io.ReadAll of a LimitReader, which reads nothing when its limit is not positive.
BytesRead(size) ==
    CASE ReadLimit <= 0 -> 0
      [] ReadLimit > 0 /\ size <= ReadLimit -> size
      [] OTHER -> ReadLimit

Fits_Minted(m, length) == m.size <= InlineMax

Fits(m, length) == length <= InlineMax

\* A call to a generic tool, with its mode or without.
CallGeneric(c) ==
    /\ at[c] = "idle"
    /\ \E tool \in Generic, request \in Requests, mode \in Modes \cup {"", "other"} :
        /\ call' = [call EXCEPT ![c] =
                       [tool |-> tool, request |-> request,
                        mode |-> IF mode = "" THEN DefaultMode(tool) ELSE mode]]
        /\ IF mode = "other"
           THEN at' = [at EXCEPT ![c] = "enrich"] /\ result' = [result EXCEPT ![c] = Error]
           ELSE at' = [at EXCEPT ![c] = "mint"] /\ UNCHANGED result
    /\ UNCHANGED <<volume, writes, minted, given>>

MayInline_AnyMode(c, m) == m.mime \in Eligible /\ m.size <= InlineMax

MayInline(c, m) ==
    call[c].mode \in {"inline", "both"} /\ m.mime \in Eligible /\ m.size <= InlineMax

Mint(c) ==
    /\ at[c] = "mint" /\ CanMint(call[c].request)
    /\ LET m == MintResponse(call[c].request, Disposition(call[c].tool))
       IN  /\ minted' = [minted EXCEPT ![c] = m]
           /\ at' = [at EXCEPT ![c] = IF MayInline(c, m) THEN "fetch" ELSE "enrich"]
           /\ result' = [result EXCEPT ![c] =
                            IF call[c].mode = "url" \/ MayInline(c, m) THEN Linked(c, m)
                            ELSE WithNote(Linked(c, m))]
    /\ UNCHANGED <<volume, writes, call, given>>

MintFails_Never(c) == FALSE /\ UNCHANGED vars

\* The sidecar refuses or cannot be reached, or the client's timeout passes.
MintFails(c) ==
    /\ at[c] = "mint"
    /\ at' = [at EXCEPT ![c] = "enrich"]
    /\ result' = [result EXCEPT ![c] = Error]
    /\ UNCHANGED <<volume, writes, call, minted, given>>

Fetch(c) ==
    /\ at[c] = "fetch" /\ volume[minted[c].url.file] # None
    /\ at' = [at EXCEPT ![c] = "enrich"]
    /\ LET entry == volume[minted[c].url.file]
           length == BytesRead(entry.size)
       IN  result' = [result EXCEPT ![c] =
                         IF Fits(minted[c], length)
                         THEN WithMedia(result[c], minted[c], entry, length)
                         ELSE WithNote(result[c])]
    /\ UNCHANGED <<volume, writes, call, minted, given>>

\* The URL has expired, the file is gone, the body breaks off, the timeout passes.
FetchFails(c) ==
    /\ at[c] = "fetch"
    /\ at' = [at EXCEPT ![c] = "enrich"]
    /\ result' = [result EXCEPT ![c] = WithNote(result[c])]
    /\ UNCHANGED <<volume, writes, call, minted, given>>

-----------------------------------------------------------------------------
(* Mirrored tools and the middleware. *)

\* The upstream answers, with an error of the tool or without, or the call fails.
CallMirrored(c) ==
    /\ at[c] = "idle"
    /\ at' = [at EXCEPT ![c] = "enrich"]
    /\ \E tool \in Mirrored, r \in Replies \cup {Error} :
        /\ call' = [call EXCEPT ![c] = [tool |-> tool, request |-> None, mode |-> None]]
        /\ result' = [result EXCEPT ![c] = r]
        /\ given' = [given EXCEPT ![c] = r]
    /\ UNCHANGED <<volume, writes, minted>>

PathField_PathFirst(fields) ==
    CASE fields.path # None -> fields.path
      [] fields.path = None /\ fields.file_path # None -> fields.file_path
      [] OTHER -> fields.filename

\* extractPathField, in the order of pathKeys.
PathField(fields) ==
    CASE fields.file_path # None -> fields.file_path
      [] fields.file_path = None /\ fields.path # None -> fields.path
      [] OTHER -> fields.filename

Enrichable(c) ==
    ~result[c].isError /\ call[c].tool \in Matches /\ PathField(result[c].fields) # None

Enriched_Afresh(r, m) ==
    [r EXCEPT !.fields = [NoFields EXCEPT !.url = m.url, !.mime_type = m.mime, !.size_bytes = m.size],
              !.content = Append(@, Text(m.url))]

Enriched(r, m) ==
    [r EXCEPT !.fields.url = m.url, !.fields.mime_type = m.mime, !.fields.size_bytes = m.size,
              !.content = Append(@, Text(m.url))]

Return(c) == at' = [at EXCEPT ![c] = "done"]

\* The result of a tool that is not enriched, or whose enrichment fails.
Pass(c) ==
    /\ at[c] = "enrich"
    /\ Return(c)
    /\ UNCHANGED <<volume, writes, call, minted, given, result>>

Enrich(c) ==
    /\ at[c] = "enrich" /\ Enrichable(c) /\ CanMint(PathField(result[c].fields))
    /\ Return(c)
    /\ LET m == MintResponse(PathField(result[c].fields), "attachment")
       IN  result' = [result EXCEPT ![c] = Enriched(result[c], m)]
    /\ UNCHANGED <<volume, writes, call, minted, given>>

-----------------------------------------------------------------------------

\* The workload writes or removes a file.
Write ==
    /\ writes < MaxWrites /\ writes' = writes + 1
    /\ \E f \in Files, entry \in Entries \cup {None} : volume' = [volume EXCEPT ![f] = entry]
    /\ UNCHANGED <<at, call, minted, given, result>>

Init ==
    /\ volume \in [Files -> Entries \cup {None}]
    /\ writes = 0
    /\ at = [c \in Clients |-> "idle"]
    /\ call = [c \in Clients |-> None]
    /\ minted = [c \in Clients |-> None]
    /\ given = [c \in Clients |-> None]
    /\ result = [c \in Clients |-> Error]

Step(c) ==
    \/ Mint(c) \/ MintFails(c) \/ Fetch(c) \/ FetchFails(c) \/ Pass(c) \/ Enrich(c)

Next == Write \/ \E c \in Clients : CallGeneric(c) \/ CallMirrored(c) \/ Step(c)

Spec == Init /\ [][Next]_vars

\* Both HTTP clients have a timeout, so that a request that is not answered fails.
Fairness == \A c \in Clients : WF_vars(MintFails(c)) /\ WF_vars(FetchFails(c)) /\ WF_vars(Pass(c))

FairSpec == Spec /\ Fairness

-----------------------------------------------------------------------------
(* What clients of the proxy can rely on. *)

\* The media that a generic tool attached; what an upstream tool returns is its own.
Inlined(c) ==
    {i \in DOMAIN result[c].content :
        at[c] # "idle" /\ call[c].tool \in Generic /\ IsInline(result[c].content[i])}

\* Every variable has its type, a call that fetches holds a URL, and it was made in a mode for
\* inlining.
TypeOK ==
    /\ volume \in [Files -> Entries \cup {None}] /\ writes \in 0..MaxWrites
    /\ at \in [Clients -> {"idle", "mint", "fetch", "enrich", "done"}]
    /\ \A c \in Clients :
        /\ minted[c] \in Minted \cup {None}
        /\ at[c] = "fetch" => minted[c] # None /\ call[c].mode \in {"inline", "both"}
        /\ at[c] # "idle" => call[c].tool \in Generic \cup Mirrored

\* Nothing larger than INLINE_MAX_BYTES is inlined, although the size that was judged is
\* the one from minting and the file may have grown since.
InlineWithin ==
    \A c \in Clients : \A i \in Inlined(c) : result[c].content[i].length <= InlineMax

\* What is inlined is a whole file, never the first bytes of one.
InlineWhole ==
    \A c \in Clients : \A i \in Inlined(c) :
        result[c].content[i].length = result[c].content[i].of.size

\* The structured content and the content of a generic tool's result agree: inline_included
\* says whether a medium is attached, there is one at most, and the url is among the texts,
\* also after an enrichment has put another url in its place.
FieldsAgree ==
    \A c \in Clients : at[c] = "done" /\ call[c].tool \in Generic /\ ~result[c].isError =>
        LET r == result[c]
        IN  /\ r.fields.inline_included = TRUE <=> Inlined(c) # {}
            /\ \A i, j \in Inlined(c) : i = j
            /\ \E i \in DOMAIN r.content : r.content[i] = Text(r.fields.url)

\* A mirrored tool's result is returned as it came or enriched, which happens only when the
\* tool matched and did not fail.  Enrichment replaces three fields together, also those the
\* upstream had set: the url, by that of the file its first path field names, as an attachment,
\* and mime_type and size_bytes, by those of a file.  It keeps all other fields and the whole
\* content, and appends the URL to it.
MirroredKept ==
    \A c \in Clients : at[c] = "done" /\ call[c].tool \in Mirrored /\ result[c] # given[c] =>
        LET g == given[c]
            r == result[c]
            paths == <<g.fields.file_path, g.fields.path, g.fields.filename>>
        IN  /\ ~g.isError /\ ~r.isError /\ call[c].tool \in Matches
            /\ \E k \in 1..3 :
                  /\ paths[k] # None /\ \A j \in 1..(k - 1) : paths[j] = None
                  /\ r.fields.url = [file |-> FileOf[paths[k]], disposition |-> "attachment"]
            /\ [mime |-> r.fields.mime_type, size |-> r.fields.size_bytes] \in Entries
            /\ \A field \in DOMAIN g.fields \ {"url", "mime_type", "size_bytes"} :
                  r.fields[field] = g.fields[field]
            /\ r.content = Append(g.content, Text(r.fields.url))

\* The URL a generic tool returns is the one of the file it was asked for, with the tool's own
\* disposition ("when a mirrored tool's structured content carries a path field", enrich.go:16:
\* generic tools are not enriched).
GenericKeepsUrl ==
    \A c \in Clients : at[c] = "done" /\ call[c].tool \in Generic /\ ~result[c].isError =>
        result[c].fields.url =
            [file |-> FileOf[call[c].request], disposition |-> Disposition(call[c].tool)]

\* A call to a generic tool returns, whether or not the sidecar ever answers.
GenericReturns == \A c \in Clients : at[c] = "mint" ~> at[c] = "done"

=============================================================================
