------------------------------- MODULE Panels -------------------------------
(***************************************************************************)
(* web/src/components/WebhookPanel.tsx and SchemaPanel.tsx, two tabs of    *)
(* EventSender of which at most one is mounted, and the rows of the API    *)
(* that they list.  A call is answered in two steps: the API acts on it,   *)
(* and later the answer, or its failure, is there.                         *)
(*                                                                         *)
(* A row is [id, mode]: webhooks are numbered as they are created, a       *)
(* schema has the number of its event type.                                *)
(***************************************************************************)
EXTENDS Naturals, Sequences, FiniteSets, SequencesExt, Functions

CONSTANTS SchemaNames,    \* EVENT_TYPES, as numbers
          MaxHooks        \* bound: webhooks ever created

ASSUME PanelsAssumption == SchemaNames \subseteq Nat /\ MaxHooks \in Nat \ {0}

VARIABLES server,         \* the webhooks and the schemas of the project
          created,        \* the webhooks created so far
          panel,          \* the state of the mounted panel
          calls,          \* the handlers that await an answer
          clean           \* history: nothing happened that may set the list apart

panelVars == <<server, created, panel, calls, clean>>

None == 0
Modes == {"warn", "enforce"}
Ids == (1 .. MaxHooks) \cup SchemaNames

\* useState of a panel.  rows: the test that a SchemaRow runs, the result it
\* shows and its pending timers.
FreshRow == [testing |-> FALSE, result |-> "none", timers |-> 0]
FreshPanel(kind) ==
  [kind |-> kind, list |-> <<>>, busy |-> FALSE, deleting |-> None, error |-> FALSE,
   deleteError |-> FALSE, errorTimers |-> 0, rows |-> [n \in SchemaNames |-> FreshRow]]

PanelsInit == /\ server = [webhooks |-> {}, schemas |-> {}] /\ created = 0
              /\ panel = FreshPanel("closed") /\ calls = <<>> /\ clean = FALSE

Call(what, id, mode) == [kind |-> panel.kind, what |-> what, id |-> id, mode |-> mode,
                         live |-> TRUE, at |-> "asked", got |-> <<>>]

\* The calls of the panel that is unmounted.
Orphans == [i \in DOMAIN calls |-> [calls[i] EXCEPT !.live = FALSE]]

\* A list shows a row, with the buttons to delete and to test it.
Has(list, id) == \E i \in DOMAIN list : list[i].id = id

-----------------------------------------------------------------------------
\* The inner tabs: a panel is mounted, and loads its list, or unmounted.
Mount(kind) ==
  /\ panel' = FreshPanel(kind)
  /\ calls' = Append(Orphans, [Call("load", None, "warn") EXCEPT !.kind = kind])
  /\ clean' = (\A i \in DOMAIN calls : calls[i].kind # kind)
  /\ UNCHANGED <<server, created>>

Unmount == /\ panel' = FreshPanel("closed")
           /\ calls' = Orphans
           /\ UNCHANGED <<server, created, clean>>

\* A call that changes rows conflicts with the load, and with the opposite
\* change of the same row.
Issue(call) ==
  /\ calls' = Append(calls, call)
  /\ clean' = (clean /\ \A i \in DOMAIN calls :
                 calls[i].kind = call.kind /\ call.what # "test" =>
                   /\ calls[i].what # "load"
                   /\ calls[i].id = call.id => calls[i].what = call.what)
  /\ UNCHANGED <<server, created>>

\* The buttons that are not disabled.
MayCreate == panel.kind = "webhooks" /\ ~panel.busy
MayRegister == panel.kind = "schemas" /\ ~panel.busy
MayDelete(id) == Has(panel.list, id) /\ panel.deleting # id
MayTest(n) == panel.kind = "schemas" /\ Has(panel.list, n) /\ ~panel.rows[n].testing

\* WebhookPanel.handleCreate.
HandleCreate == /\ MayCreate
                /\ panel' = [panel EXCEPT !.busy = TRUE, !.error = FALSE]
                /\ Issue(Call("save", None, "warn"))

\* SchemaPanel.handleRegister.
HandleRegister(n, mode) == /\ MayRegister
                           /\ panel' = [panel EXCEPT !.busy = TRUE, !.error = FALSE]
                           /\ Issue(Call("save", n, mode))

\* And with text that is not JSON.
HandleRegisterInvalid == /\ MayRegister
                         /\ panel' = [panel EXCEPT !.error = TRUE]
                         /\ UNCHANGED <<server, created, calls, clean>>

\* handleDelete of both.
HandleDelete(id) == /\ MayDelete(id)
                    /\ panel' = [panel EXCEPT !.deleting = id]
                    /\ Issue(Call("delete", id, "warn"))

\* SchemaRow.handleTestViolation.
HandleTestViolation(n) ==
  /\ MayTest(n)
  /\ panel' = [panel EXCEPT !.rows[n].testing = TRUE, !.rows[n].result = "none"]
  /\ Issue(Call("test", n, "warn"))

-----------------------------------------------------------------------------
\* The API acts on a call, or does not: the request is lost, refused or limited.
With(rows, row) == {r \in rows : r.id # row.id} \cup {row}
Without(rows, id) == {r \in rows : r.id # id}

\* The list in the order of the API: newest webhook first, schemas by name.
Before(kind, a, b) == IF kind = "webhooks" THEN a.id > b.id ELSE a.id < b.id

Listing(kind) ==
  [i \in 1 .. Cardinality(server[kind]) |->
     CHOOSE r \in server[kind] :
       Cardinality({q \in server[kind] : Before(kind, q, r)}) = i - 1]

\* What a violating event gets: enforce rejects, warn and no schema accept.
Verdict(n) == IF \E r \in server["schemas"] : r.id = n /\ r.mode = "enforce"
              THEN "422" ELSE "202"

Answered(i, at) == [calls EXCEPT ![i].at = at]

ServeLoad(i) == /\ calls[i].what = "load"
                /\ calls' = [calls EXCEPT ![i].at = "ok", ![i].got = Listing(calls[i].kind)]
                /\ UNCHANGED <<server, created, panel, clean>>

\* lost: the API has acted, but the answer does not arrive.
ServeSave(i, lost) ==
  LET kind == calls[i].kind
      id == IF kind = "webhooks" THEN created + 1 ELSE calls[i].id
  IN  /\ calls[i].what = "save"
      /\ kind = "webhooks" => created < MaxHooks
      /\ created' = IF kind = "webhooks" THEN created + 1 ELSE created
      /\ server' = [server EXCEPT ![kind] = With(@, [id |-> id, mode |-> calls[i].mode])]
      /\ calls' = [calls EXCEPT ![i].at = IF lost THEN "failed" ELSE "ok", ![i].id = id]
      /\ clean' = (clean /\ ~lost)
      /\ UNCHANGED panel

ServeDelete(i, lost) ==
  LET kind == calls[i].kind
      gone == kind = "webhooks" /\ Without(server[kind], calls[i].id) = server[kind]
  IN  /\ calls[i].what = "delete"
      /\ server' = [server EXCEPT ![kind] = Without(@, calls[i].id)]
      /\ calls' = Answered(i, IF lost \/ gone THEN "failed" ELSE "ok")
      /\ clean' = (clean /\ ~lost)
      /\ UNCHANGED <<created, panel>>

ServeTest(i) == /\ calls[i].what = "test"
                /\ calls' = Answered(i, Verdict(calls[i].id))
                /\ UNCHANGED <<server, created, panel, clean>>

Refuse(i) == /\ calls' = Answered(i, "failed")
             /\ clean' = (clean /\ calls[i].what # "load")
             /\ UNCHANGED <<server, created, panel>>

\* The API answers.  Nobody else changes its rows here.
Serve(i) == /\ calls[i].at = "asked"
            /\ \/ ServeLoad(i) \/ ServeTest(i) \/ Refuse(i)
               \/ \E lost \in BOOLEAN : ServeSave(i, lost) \/ ServeDelete(i, lost)

-----------------------------------------------------------------------------
\* A SchemaRow is unmounted when it leaves the list.
Kept(p) == [p EXCEPT !.rows = [n \in SchemaNames |-> IF Has(p.list, n) THEN p.rows[n]
                                                     ELSE FreshRow]]

\* So the test it runs has nobody to tell.
StillLive(cs, list) ==
  [k \in DOMAIN cs |-> [cs[k] EXCEPT !.live = @ /\ (cs[k].what = "test" => Has(list, cs[k].id))]]

\* The filter of a list: the rows with another id, in their order.
Filtered(list, id) ==
  LET kept[n \in 0 .. Len(list)] ==
        IF n = 0 THEN <<>>
        ELSE IF list[n].id # id THEN Append(kept[n - 1], list[n]) ELSE kept[n - 1]
  IN  kept[Len(list)]

\* A wrong Saved, for the mutants: a schema that is registered again is listed
\* twice.
SavedTwice(list, row, kind) == <<row>> \o list

\* setWebhooks and setSchemas after a save: only schemas replace a row.
Saved(list, row, kind) ==
  <<row>> \o (IF kind = "webhooks" THEN list ELSE Filtered(list, row.id))

AfterLoad(p, c) == IF c.at = "ok" THEN Kept([p EXCEPT !.list = c.got]) ELSE p

AfterSave(p, c) ==
  IF c.at = "ok"
  THEN [p EXCEPT !.busy = FALSE,
                 !.list = Saved(@, [id |-> c.id, mode |-> c.mode], c.kind)]
  ELSE [p EXCEPT !.busy = FALSE, !.error = TRUE]

\* A wrong AfterDelete, for the mutants: a failure leaves the row disabled.
AfterDeleteSticks(p, c) ==
  IF c.at = "ok"
  THEN Kept([p EXCEPT !.deleting = None, !.list = Filtered(@, c.id)])
  ELSE [p EXCEPT !.error = TRUE]

\* The error of a webhook is taken back by a timer, that of a schema is not.
AfterDelete(p, c) ==
  IF c.at = "ok"
  THEN Kept([p EXCEPT !.deleting = None, !.list = Filtered(@, c.id)])
  ELSE IF c.kind = "webhooks"
  THEN [p EXCEPT !.deleting = None, !.deleteError = TRUE, !.errorTimers = @ + 1]
  ELSE [p EXCEPT !.deleting = None, !.error = TRUE]

AfterTest(p, c) ==
  [p EXCEPT !.rows[c.id] = [testing |-> FALSE, result |-> c.at, timers |-> @.timers + 1]]

\* A handler goes on: if its panel is mounted, it sets its state.
Answer(i) ==
  LET c == calls[i] IN
  /\ c.at # "asked"
  /\ panel' = IF ~c.live THEN panel
              ELSE CASE c.what = "load"   -> AfterLoad(panel, c)
                     [] c.what = "save"   -> AfterSave(panel, c)
                     [] c.what = "delete" -> AfterDelete(panel, c)
                     [] c.what = "test"   -> AfterTest(panel, c)
  /\ calls' = StillLive(RemoveAt(calls, i), panel'.list)
  /\ UNCHANGED <<server, created, clean>>

ErrorTimer == /\ panel.errorTimers > 0
              /\ panel' = [panel EXCEPT !.deleteError = FALSE, !.errorTimers = @ - 1]
              /\ UNCHANGED <<server, created, calls, clean>>

RowTimer(n) == /\ panel.rows[n].timers > 0
               /\ panel' = [panel EXCEPT !.rows[n].result = "none", !.rows[n].timers = @ - 1]
               /\ UNCHANGED <<server, created, calls, clean>>

=============================================================================
