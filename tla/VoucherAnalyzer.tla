---------------------------- MODULE VoucherAnalyzer ----------------------------
(***************************************************************************)
(* Analysis of an image of a voucher by a language model behind a gateway: *)
(* what is found in its reply, wherever the reply holds it, and what of    *)
(* that is shown to the client.                                            *)
(***************************************************************************)
EXTENDS RequestPipeline

VARIABLES
  analysis  \* worker -> what the model answered and what was shown of it

\* Where a reply holds the answer of the model.
StructuredPlaces == {"content object", "message object"}
TextPlaces       == {"string", "message string", "message parts", "content parts"}
EnvelopePlaces   == {"content string", "output_text"}
Places == StructuredPlaces \cup TextPlaces \cup EnvelopePlaces \cup {"object", "array"}

\* How a text holds it: alone, in a fence, or after or before other words.
Forms == {"alone", "fenced", "at the end", "at the beginning"}

\* The object the model answers with.  valid: the schema accepts it; text:
\* what it read, if not blank; its fields go by the same name.
Objects == [status : {"VOUCHER", "NOT_VOUCHER"}, valid : BOOLEAN, text : {"blank", "words"}, warnings : BOOLEAN]

Replies ==
  [place : Places \ TextPlaces, form : {"alone"}, object : Objects]
    \cup [place : TextPlaces, form : Forms, object : Objects]

\* What a reply wraps the object in, taken for the object: it has no status.
Envelope == [status |-> "none", valid |-> FALSE, text |-> "of the envelope", warnings |-> FALSE]

\* Arrays, and envelopes without choices or a list of contents, are taken for the object
\* itself: a text inside them is not looked at.
Normalized(reply) ==
  CASE reply.place \in StructuredPlaces \cup {"object"} -> {reply.object}
    [] reply.place \in TextPlaces /\ reply.form # "at the beginning" -> {reply.object}
    [] reply.place \in EnvelopePlaces \cup {"array"} -> {Envelope}
    [] OTHER -> {}

\* Faulty variant: a status that is missing has a default.
ParseWithDefaults(reply) == {o \in Normalized(reply) : o.valid \/ o = Envelope}

\* extractJsonFromText finds nothing in what the normaliser could not parse.
ParseNormalizedResult(reply) == {o \in Normalized(reply) : o.valid}

Nothing == [document |-> "none", text |-> "none", fields |-> "none", warnings |-> "none"]
NoAnalysis == [objects |-> {}, shown |-> Nothing]

InitAnalyzer == analysis = [w \in Workers |-> NoAnalysis]

Shown(o) ==
  IF o.status = "VOUCHER"
  THEN [document |-> "voucher", text |-> IF o.text = "blank" THEN "none" ELSE o.text, fields |-> "read",
        warnings |-> IF o.warnings THEN "its own" ELSE "none"]
  ELSE [document |-> "unknown", text |-> "none", fields |-> "none",
        warnings |-> IF o.warnings THEN "its own" ELSE "default"]

-----------------------------------------------------------------------------
\* The pipe has looked at the declared type, the service looks at the bytes.
ResolveMimeType(w) ==
  /\ At(w, "handler") /\ On(w, {"analyze"})
  /\ IF "image" \in Body(w) THEN Go(w, "gateway") ELSE Answer(w, 422)
  /\ UNCHANGED <<surroundings, received, analysis>>

GatewayReplies(w) ==
  /\ At(w, "gateway")
  /\ \E reply \in Replies :
     IF ParseNormalizedResult(reply) = {}
     THEN Answer(w, 502) /\ UNCHANGED analysis
     ELSE /\ Answer(w, 200)
          /\ \E o \in ParseNormalizedResult(reply) :
               analysis' = [analysis EXCEPT ![w] = [objects |-> {reply.object}, shown |-> Shown(o)]]
  /\ UNCHANGED <<surroundings, received>>

\* A failure, or its own timer, after the repetitions of the library.
GatewayFails(w) ==
  /\ At(w, "gateway")
  /\ Answer(w, 502)
  /\ UNCHANGED <<surroundings, received, analysis>>
=================================================================================
