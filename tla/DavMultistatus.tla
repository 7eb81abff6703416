---------------------------- MODULE DavMultistatus ----------------------------
(***************************************************************************)
(* How the calendar reads the multistatus answers of a CalDAV server: one  *)
(* pass over the events of an XML reader, with the stack of open elements, *)
(* the response and the propstat being read, and the responses read.       *)
(*                                                                         *)
(* The server writes the document event by event, in the orders that       *)
(* RFC 4918 allows, each property once in a response, and the connection   *)
(* may break anywhere.  A text comes in chunks (plain text, CDATA and      *)
(* references): it is the sequence of its chunks.                          *)
(***************************************************************************)
EXTENDS Naturals, SequencesExt

CONSTANTS
    Nothing,               \* no response, no propstat
    Served,                \* the properties the server tells: "ResourceType", and members of Texts and Links
    MaxChunks,             \* a bound: the chunks of text in a document
    CALDAV_MAX_RESPONSES, CALDAV_MAX_XML_DEPTH

\* The properties that hold a text, and those that hold an href.
Texts == {"DisplayName", "CalendarColor", "Etag", "CalendarData"}
Links == {"CurrentUserPrincipal", "CalendarHomeSet"}

Values == Served \ {"ResourceType"}

\* Texts in chunks, and what is read into them.
Chunks == {"text", "ok", "missing"}
PropertySets == [text : [Values -> Seq(Chunks)], isCalendar : BOOLEAN]
Responses == [href : Seq(Chunks), properties : PropertySets, hasSuccessfulProperties : BOOLEAN]
PropStats == [properties : PropertySets, status : Seq(Chunks)]

ASSUME MultistatusAssumption ==
    /\ MaxChunks \in Nat /\ CALDAV_MAX_RESPONSES \in Nat /\ CALDAV_MAX_XML_DEPTH \in Nat
    /\ Served \subseteq Texts \cup Links \cup {"ResourceType"}
    /\ Nothing \notin Responses /\ Nothing \notin PropStats

VARIABLES
    stack, response, propStat, responses,   \* multistatus_parse
    outcome,                                \* "reading", "ok" or "error"
    doc                                     \* what the server has written, and what it means

parser == <<stack, response, propStat, responses>>
xvars == <<stack, response, propStat, responses, outcome, doc>>

NoProperties == [text |-> [p \in Values |-> <<>>], isCalendar |-> FALSE]
DavResponse == [href |-> <<>>, properties |-> NoProperties, hasSuccessfulProperties |-> FALSE]
DavPropStat == [properties |-> NoProperties, status |-> <<>>]

(* ---- the parser ---- *)
\* What is absent does not replace what is there.
merge(properties, other) ==
    [text |-> [p \in Values |-> IF other.text[p] # <<>> THEN other.text[p] ELSE properties.text[p]],
     isCalendar |-> properties.isCalendar \/ other.isCalendar]

http_status_is_success(status) == status = <<"ok">>

Refuses == outcome' = "error" /\ UNCHANGED parser

\* The properties of the propstat that is open, or else of the response.
property_set == IF propStat = Nothing THEN response.properties ELSE propStat.properties
property_set_mut(set) ==
    /\ propStat' = IF propStat = Nothing THEN Nothing ELSE [propStat EXCEPT !.properties = set]
    /\ response' = IF propStat # Nothing THEN response ELSE [response EXCEPT !.properties = set]

IsCalendar(kind) == kind = "Calendar" /\ stack # <<>> /\ Last(stack) = "ResourceType"
MarkCalendar == property_set_mut([property_set EXCEPT !.isCalendar = TRUE])

Start(kind) ==
    IF \/ Len(stack) >= CALDAV_MAX_XML_DEPTH
       \/ kind = "Response" /\ response # Nothing
       \/ kind = "PropStat" /\ propStat # Nothing
       \/ IsCalendar(kind) /\ response = Nothing /\ propStat = Nothing
    THEN Refuses
    ELSE /\ stack' = Append(stack, kind)
         /\ IF IsCalendar(kind) THEN MarkCalendar
            ELSE /\ response' = IF kind = "Response" THEN DavResponse ELSE response
                 /\ propStat' = IF kind = "PropStat" THEN DavPropStat ELSE propStat
         /\ UNCHANGED <<responses, outcome>>

Empty(kind) ==
    /\ IF IsCalendar(kind) THEN MarkCalendar ELSE UNCHANGED <<response, propStat>>
    /\ UNCHANGED <<stack, responses, outcome>>

\* What a text belongs to is told by the two innermost elements.
text_append(chunk) ==
    LET current == IF stack = <<>> THEN "Other" ELSE Last(stack)
        parent == IF Len(stack) < 2 THEN "Other" ELSE stack[Len(stack) - 1]
        Adds(p) == property_set_mut([property_set EXCEPT !.text[p] = Append(@, chunk)])
    IN /\ CASE current = "Href" /\ parent = "Response" ->
                  response' = [response EXCEPT !.href = Append(@, chunk)] /\ UNCHANGED propStat
            [] current = "Href" /\ parent \in Links -> Adds(parent)
            [] current \in Texts -> Adds(current)
            [] current = "Status" /\ parent = "PropStat" ->
                  propStat' = [propStat EXCEPT !.status = Append(@, chunk)] /\ UNCHANGED response
            [] OTHER -> UNCHANGED <<response, propStat>>
       /\ UNCHANGED <<stack, responses, outcome>>

\* A faulty variant: the status of a propstat is not looked at.
CompletedAnyway ==
    /\ propStat' = Nothing
    /\ response' = [response EXCEPT !.properties = merge(@, propStat.properties), !.hasSuccessfulProperties = TRUE]

CompletePropStat ==
    /\ propStat' = Nothing
    /\ response' = IF http_status_is_success(propStat.status)
                   THEN [response EXCEPT !.properties = merge(@, propStat.properties),
                                         !.hasSuccessfulProperties = TRUE]
                   ELSE response

End(kind) ==
    IF \/ stack = <<>> \/ Last(stack) # kind
       \/ kind = "PropStat" /\ propStat = Nothing
       \/ kind = "Response" /\ (response = Nothing \/ Len(responses) >= CALDAV_MAX_RESPONSES)
    THEN Refuses
    ELSE /\ stack' = Front(stack) /\ UNCHANGED outcome
         /\ IF kind = "PropStat" THEN CompletePropStat
            ELSE response' = (IF kind = "Response" THEN Nothing ELSE response) /\ UNCHANGED propStat
         /\ responses' = IF kind = "Response" THEN Append(responses, response) ELSE responses

\* The answer may end anywhere, before its first tag too; nothing is open then.
Eof ==
    /\ outcome = "reading" /\ UNCHANGED parser
    /\ outcome' = IF stack # <<>> \/ response # Nothing \/ propStat # Nothing THEN "error" ELSE "ok"
    /\ doc' = [doc EXCEPT !.broken = doc.open # <<>> \/ ~doc.begun]

(* ---- the server ---- *)
\* What may come next, from the path of the elements that are open:
\* multistatus, response, propstat, prop, a property, and what is in it.
Children ==
    LET path == doc.open
        first == Len(doc.all) < CALDAV_MAX_RESPONSES
    IN CASE path = <<>> -> IF doc.begun THEN {} ELSE {"Other"}
         [] Len(path) = 1 -> IF Len(doc.all) <= CALDAV_MAX_RESPONSES THEN {"Response"} ELSE {}
         [] Len(path) = 2 /\ first -> IF doc.here.href = <<>> THEN {"Href"} ELSE {"PropStat"}
         [] Len(path) = 3 /\ path[3] = "PropStat" ->
              (IF doc.prop THEN {} ELSE {"Other"}) \cup (IF doc.stat.status = <<>> THEN {"Status"} ELSE {})
         [] Len(path) = 4 /\ path[4] = "Other" ->
              (Served \ doc.told) \cup (IF doc.told = {} THEN {"Other"} ELSE {})
         [] Len(path) = 5 /\ path[5] \in Links ->
              IF doc.stat.properties.text[path[5]] = <<>> THEN {"Href"} ELSE {}
         [] Len(path) = 5 /\ path[5] = "ResourceType" -> {"Calendar"} \ doc.told
         [] Len(path) >= 5 /\ path[5] = "Other" /\ Len(path) <= CALDAV_MAX_XML_DEPTH -> {"Href", "Other"}
         [] OTHER -> {}

\* What an element means by being there.
Marked(d, kind) ==
    [d EXCEPT !.told = IF Len(doc.open) >= 4 THEN @ \cup {kind} ELSE @,
              !.prop = @ \/ (Len(doc.open) = 3 /\ kind = "Other"),
              !.stat.properties.isCalendar = @ \/ (kind = "Calendar" /\ Len(doc.open) = 5 /\ doc.open[5] = "ResourceType")]

StartTag(kind) ==
    /\ outcome = "reading" /\ kind \in Children
    /\ doc' = [Marked(doc, kind) EXCEPT !.open = Append(@, kind), !.begun = TRUE,
                   !.stat = IF kind = "PropStat" THEN DavPropStat ELSE @,
                   !.prop = @ /\ kind # "PropStat",
                   !.here = IF kind = "Response" THEN DavResponse ELSE @]
    /\ Start(kind)

EmptyTag(kind) ==
    /\ outcome = "reading" /\ kind \in Children /\ Len(doc.open) >= 4
    /\ doc' = Marked(doc, kind)
    /\ Empty(kind)

\* The text of the element that is open.
TextChunk(chunk) ==
    LET path == doc.open
        more == doc.chunks < MaxChunks /\ chunk = "text"
    IN /\ outcome = "reading" /\ path # <<>>
       /\ \/ /\ Len(path) = 3 /\ path[3] = "Href" /\ more
             /\ doc' = [doc EXCEPT !.here.href = Append(@, chunk), !.chunks = @ + 1]
          \/ /\ Len(path) = 4 /\ path[4] = "Status" /\ doc.stat.status = <<>> /\ chunk \in {"ok", "missing"}
             /\ doc' = [doc EXCEPT !.stat.status = <<chunk>>]
          \/ /\ \/ Len(path) = 5 /\ path[5] \in Texts
                \/ Len(path) = 6 /\ path[5] \in Links
             /\ more
             /\ doc' = [doc EXCEPT !.stat.properties.text[path[5]] = Append(@, chunk), !.chunks = @ + 1]
          \/ /\ Len(path) >= 5 /\ path[5] = "Other" /\ chunk = "text" /\ UNCHANGED doc
       /\ text_append(chunk)

\* An element ends when what it must have is there; a property means what it says in a propstat
\* that is a success.
EndTag ==
    LET kind == Last(doc.open)
        here == doc.here
        stat == doc.stat
    IN /\ outcome = "reading" /\ doc.open # <<>>
       /\ doc.open = <<"Other", "Response", "Href">> => here.href # <<>>
       /\ kind = "Status" => stat.status # <<>>
       /\ kind = "PropStat" => doc.prop /\ stat.status # <<>>
       /\ doc' = [doc EXCEPT !.open = Front(@),
                      !.all = IF kind = "Response" THEN Append(@, here) ELSE @,
                      !.told = IF kind = "Response" THEN {} ELSE @,
                      !.here = IF kind = "PropStat" /\ stat.status = <<"ok">>
                               THEN [href |-> here.href, hasSuccessfulProperties |-> TRUE,
                                     properties |-> [text |-> [p \in Values |-> here.properties.text[p] \o stat.properties.text[p]],
                                                     isCalendar |-> here.properties.isCalendar \/ stat.properties.isCalendar]]
                               ELSE here]
       /\ End(kind)

MultistatusInit ==
    /\ stack = <<>> /\ response = Nothing /\ propStat = Nothing /\ responses = <<>> /\ outcome = "reading"
    /\ doc = [open |-> <<>>, all |-> <<>>, here |-> DavResponse, stat |-> DavPropStat,
              told |-> {}, begun |-> FALSE, prop |-> FALSE, broken |-> FALSE, chunks |-> 0]

Kinds == Texts \cup Links \cup {"Response", "Href", "PropStat", "Status", "ResourceType", "Calendar", "Other"}

MultistatusNext ==
    \/ \E kind \in Kinds : StartTag(kind) \/ EmptyTag(kind)
    \/ \E chunk \in Chunks : TextChunk(chunk)
    \/ EndTag \/ Eof

MultistatusSpec == MultistatusInit /\ [][MultistatusNext]_xvars

(***************************************************************************)
(* Properties                                                              *)
(***************************************************************************)
\* What is read is what the server means: of each resource its own href and the properties of its
\* successful propstats, whole, whatever the order of status and properties, and nothing of another
\* resource; a document that was broken off is not taken for a short one, except that an answer with
\* nothing in it is taken for one without resources; and only a document that was broken off and one
\* beyond the limits are refused.
ParsedIsMeant ==
    /\ outcome = "ok" => doc.open = <<>> /\ responses = doc.all /\ (doc.broken => ~doc.begun)
    /\ outcome = "error" =>
         doc.broken \/ Len(doc.open) > CALDAV_MAX_XML_DEPTH \/ Len(doc.all) > CALDAV_MAX_RESPONSES
===============================================================================
