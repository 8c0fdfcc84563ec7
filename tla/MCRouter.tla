------------------------------- MODULE MCRouter -------------------------------
(***************************************************************************)
(* An instance of Router for TLC: a local model, a cheap one of an OpenAI  *)
(* endpoint and a frontier one of an aggregator; and a native one, whose   *)
(* family has no client.                                                   *)
(***************************************************************************)
EXTENDS RouterProperties

TestModels == {"local", "cheap", "frontier", "native"}
TestProviderOf ==
  [local |-> "daemon", cheap |-> "api", frontier |-> "broker", native |-> "vendor"]
TestFamily == [daemon |-> "ollama", api |-> "openai", broker |-> "aggregator",
               vendor |-> "anthropic"]
TestInRate == [local |-> 0, cheap |-> 1, frontier |-> 2, native |-> 2]
TestOutRate == [local |-> 0, cheap |-> 1, frontier |-> 2, native |-> 2]
TestWriteRate == [model \in TestModels |-> 20]
TestReadRate == [local |-> 20, cheap |-> 10, frontier |-> 2, native |-> 2]

\* Every chain of one or two different entries with a client, and one that
\* falls back to the model without; none is declared as an escalation: no
\* action reads the flag.
EntryFor(model) == [model |-> model, escalation |-> FALSE]
Entries == {EntryFor(model) : model \in TestModels \ {"native"}}
PlainChains == {<<entry>> : entry \in Entries} \cup
  {chain \in Entries \X Entries : chain[1] # chain[2]} \cup
  {<<EntryFor("cheap"), EntryFor("native")>>}

TestLayers == <<1, 1>>

Reply(status, body, prompt, completion, cached, written) ==
  [status |-> status, body |-> body, prompt |-> prompt,
   completion |-> completion, cached |-> cached, written |-> written]

\* A refusal, a rate limit, a bare object and one of the wrong shape; and
\* answers within the projection: a fresh one, and one that reports more
\* cached tokens than it had.
TestResponses ==
  {Reply(401, "error", 0, 0, 0, 0), Reply(429, "error", 0, 0, 0, 0),
   Reply(200, "bare", 2, 0, 0, 0), Reply(200, "misshapen", 2, 1, 0, 0),
   Reply(200, "message", 2, 1, 0, 0), Reply(200, "message", 2, 1, 1, 2)}

TightCap == [light |-> 100, medium |-> 100, flagship |-> 5]
=============================================================================
