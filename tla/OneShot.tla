------------------------------ MODULE OneShot ------------------------------
(***************************************************************************)
(* Calls answered in one piece: images of the OpenAI and the OpenRouter    *)
(* API (generate_images) and embeddings (embed, embed_many).  A call puts  *)
(* its payload together, lets a hook see and replace it, sends it (with    *)
(* the retries of HttpRetry, of which the outcome is taken here), reads    *)
(* the body, shows the response to a second hook, and takes the vectors or *)
(* the images out of it.                                                   *)
(*                                                                         *)
(* A vector and an image stand for what they were made from.  The server   *)
(* gives vectors in any order, may leave one out or give one twice, and    *)
(* gives images as data only where it was asked to or does so on its own.  *)
(***************************************************************************)
EXTENDS Sequences, Naturals, SequencesExt

CONSTANTS
  Jobs,      \* api, inputs, the options, whether the address is OpenAI's own, both hooks
  Answers    \* what a server may make of images: sequences of choices, or of items

VARIABLES
  job,        \* the call
  pc,
  cancelled,  \* the caller's token
  sent,       \* the payload after its hook, and whether the token was cancelled then
  response,
  result

vars == <<job, pc, cancelled, sent, response, result>>

Nothing == [kind |-> "nothing"]
Vectors(v) == [kind |-> "vectors", vectors |-> v]
Images(stop, output) == [kind |-> stop, output |-> output]

MakesImages == job.api # "openai-embeddings"

-----------------------------------------------------------------------------
(* Payloads.                                                               *)

\* image_provider_options: the later name of an option wins
Option(camel, snake) == IF job.options[snake] # "unset" THEN job.options[snake] ELSE job.options[camel]

ResponseFormat ==
  LET asked == Option("responseFormat", "response_format")
  IN  IF asked # "unset" THEN asked ELSE IF job.ownAddress THEN "b64_json" ELSE "unset"

ImagesPayload ==
  [inputs |-> job.inputs, format |-> Option("outputFormat", "output_format"), response |-> ResponseFormat]
RouterPayload == [inputs |-> job.inputs, format |-> "unset", response |-> "unset"]
EmbeddingsPayload == [inputs |-> job.inputs, format |-> "unset", response |-> "unset"]

Payload ==
  CASE job.api = "openai-images"     -> ImagesPayload
    [] job.api = "openrouter-images" -> RouterPayload
    [] job.api = "openai-embeddings" -> EmbeddingsPayload

Hooked(payload) ==
  CASE job.hook = "drops"     -> [payload EXCEPT !.inputs = Tail(@)]
    [] job.hook = "reverses"  -> [payload EXCEPT !.inputs = Reverse(@)]
    [] job.hook = "reformats" -> [payload EXCEPT !.format = "image/jpeg"]
    [] OTHER                  -> payload

Unfit ==
  \/ job.api = "openai-embeddings" /\ job.inputs = <<>>
  \/ job.api = "openai-images" /\ \E i \in DOMAIN job.inputs : job.inputs[i] = "image"

-----------------------------------------------------------------------------
(* What is made of an answer.                                              *)

MimeType(format) == IF format \in {"unset", ""} THEN "image/png" ELSE "image/jpeg"

Kept(s) == SelectSeq(s, LAMBDA x : x.data \notin {"none", "empty"})

Text(data) == [type |-> "text", data |-> data, mime |-> "none"]
Image(data, mime) == [type |-> "image", data |-> data, mime |-> mime]

ImagesOutput(items) ==
  Kept(FlattenSeq([i \in DOMAIN items |->
         <<Text(items[i].prompt), Image(items[i].data, MimeType(sent.format))>>]))

RouterOutput(choices) ==
  IF choices = <<>> THEN <<>>
  ELSE Kept(<<Text(choices[1].content)>>
              \o [i \in DOMAIN choices[1].images |-> Image(choices[1].images[i].data, choices[1].images[i].mime)])

Sorted(data) == SortSeq(data, LAMBDA a, b : a.index < b.index)

\* a mutant: as many vectors as inputs will do
CompleteByCount(data) == Len(data) = Len(job.inputs)

Complete(data) == Len(data) = Len(job.inputs) /\ \A i \in DOMAIN data : data[i].index = i

Embeddings(data) ==
  IF Complete(Sorted(data)) THEN Vectors([i \in DOMAIN data |-> Sorted(data)[i].vector])
  ELSE [kind |-> "InvalidProviderResponse"]

Parsed(body) ==
  CASE job.api = "openai-images"     -> Images("Stop", ImagesOutput(body))
    [] job.api = "openrouter-images" -> Images("Stop", RouterOutput(body))
    [] job.api = "openai-embeddings" -> Embeddings(body)

\* a failure of images is an answer that says so
Failed(why) == IF MakesImages THEN Images(IF why = "Cancelled" THEN "Aborted" ELSE "Error", <<>>)
               ELSE [kind |-> why]

-----------------------------------------------------------------------------
Init ==
  /\ job \in Jobs
  /\ pc = "ask"
  /\ cancelled = FALSE
  /\ sent = Nothing /\ response = Nothing /\ result = Nothing

End(r) == pc' = "done" /\ result' = r

Ask ==
  /\ pc = "ask"
  /\ IF Unfit \/ job.hook = "fails"
     THEN End(Failed("Error")) /\ UNCHANGED sent
     ELSE /\ sent' = [kind |-> "sent", early |-> cancelled, inputs |-> Hooked(Payload).inputs,
                      format |-> Hooked(Payload).format, response |-> Hooked(Payload).response]
          /\ pc' = "send" /\ UNCHANGED result
  /\ UNCHANGED <<job, cancelled, response>>

\* the orders a server may give the vectors of its inputs in, one perhaps left
\* out or given twice
VectorsOf(inputs) ==
  LET items == [i \in DOMAIN inputs |-> [index |-> i, vector |-> inputs[i]]]
  IN  {Reverse(items), items, items \o <<Head(items)>>, Tail(items), Tail(items) \o <<items[Len(items)]>>}

\* OpenAI's own models always give data
ServedImages(items) ==
  IF sent.response = "url" \/ (job.ownAddress /\ sent.response = "unset")
  THEN [i \in DOMAIN items |-> [items[i] EXCEPT !.data = "none"]] ELSE items

Bodies ==
  CASE job.api = "openai-images"     -> {ServedImages(a) : a \in Answers.items}
    [] job.api = "openrouter-images" -> Answers.choices
    [] job.api = "openai-embeddings" -> IF sent.inputs = <<>> THEN {<<>>} ELSE VectorsOf(sent.inputs)

\* send_with_retries: looks at the token first, and while it waits
Send ==
  /\ pc = "send"
  /\ \/ /\ ~ sent.early
        /\ pc' = "read"
        /\ UNCHANGED result
        /\ \E status \in {"ok", "bad"}, body \in Bodies, valid \in BOOLEAN :
             response' = [kind |-> "response", status |-> status, body |-> body, valid |-> valid]
     \/ cancelled /\ End(Failed("Cancelled")) /\ UNCHANGED response
     \/ ~ sent.early /\ End(Failed("Error")) /\ UNCHANGED response
  /\ UNCHANGED <<job, cancelled, sent>>

\* the body is read to its end or not at all; nobody looks at the token any more
ReadBody ==
  /\ pc = "read"
  /\ \/ End(Failed("Error"))
     \/ response.status = "ok" /\ pc' = "parse" /\ UNCHANGED result
  /\ UNCHANGED <<job, cancelled, sent, response>>

Parse ==
  /\ pc = "parse"
  /\ End(IF job.onResponse = "fails" \/ ~ response.valid THEN Failed("Error") ELSE Parsed(response.body))
  /\ UNCHANGED <<job, cancelled, sent, response>>

Cancel ==
  /\ pc \in {"ask", "send", "read", "parse"} /\ ~ cancelled
  /\ cancelled' = TRUE
  /\ UNCHANGED <<job, pc, sent, response, result>>

Next == Ask \/ Send \/ ReadBody \/ Parse \/ Cancel

-----------------------------------------------------------------------------
Shown(output) == SelectSeq(output, LAMBDA x : x.type = "image")

(* What a call gives belongs to what it asked for.  There is a vector for   *)
(* each input of the call, and each is that of the input sent in its place, *)
(* however the server orders them and whatever it leaves out or repeats.    *)
(* Images come in the server's order and the format that was sent, each one *)
(* it made, unless the caller asked for addresses.  Nothing comes out of a  *)
(* call that failed, no call succeeds that was cancelled before it was      *)
(* sent, and only a cancelled one is aborted.                               *)
AnswersBelong ==
  /\ result.kind = "vectors" =>
       /\ Len(result.vectors) = Len(job.inputs)
       /\ result.vectors = sent.inputs
  /\ result.kind \in {"vectors", "Stop"} => ~ sent.early /\ response.status = "ok"
  /\ MakesImages /\ result.kind \in {"Aborted", "Error"} => result.output = <<>>
  /\ result.kind \in {"Aborted", "Cancelled"} => cancelled
  /\ result.kind = "Stop" /\ job.api = "openai-images" =>
       /\ \A i \in DOMAIN Shown(result.output) : Shown(result.output)[i].mime = MimeType(sent.format)
       /\ Option("responseFormat", "response_format") # "url" =>
            \E items \in Answers.items :
              [i \in DOMAIN Shown(result.output) |-> Shown(result.output)[i].data] =
                [i \in DOMAIN Kept(items) |-> Kept(items)[i].data]
=============================================================================
