------------------------- MODULE PromptTemplateStore -------------------------
(***************************************************************************)
(* prompt_template_store.py: the one custom persona of the reviewer, and   *)
(* the trail of its changes, each with the text before and after it.       *)
(***************************************************************************)
EXTENDS Naturals, Sequences

CONSTANT Templates

VARIABLES
  template,        \* the stored text, or Default
  templateEvents

Default == "default"

SetTemplate(t) == template' = t
ClearTemplate  == template' = Default

SavedEvent(by, before, after) ==
  [type |-> "prompt_template_saved", by |-> by, before |-> before, after |-> after]

ClearedEvent(by, before) ==
  [type |-> "prompt_template_reset", by |-> by, before |-> before, after |-> Default]

InsertTemplateEvent(seq, event) ==
  /\ Len(templateEvents) + 1 = seq
  /\ templateEvents' = Append(templateEvents, event)
=============================================================================
