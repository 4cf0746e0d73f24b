-------------------------- MODULE VoteSessionAdmin --------------------------
(***************************************************************************)
(* The administration of a vote session (static2/js/app): the redux store  *)
(* of the form, the button that saves it, and the mutations it sends.      *)
(*                                                                         *)
(* A session has vote modules ("templates") and proposals, and a proposal  *)
(* has modules made after the templates.  The form is filled from the      *)
(* result of a query that Apollo keeps in its cache; a change of that      *)
(* result fills it again, whatever the administrator has typed since.      *)
(* A click on "save" starts chains of mutations (runSerial): one for the   *)
(* page, one for the templates, one for the proposals and their modules;   *)
(* they run beside one another, and each ends by asking the query again.   *)
(*                                                                         *)
(* "text" stands for everything a module or a proposal says (instructions, *)
(* choices, title, description).  The session exists already, and all its  *)
(* modules are gauges.                                                     *)
(***************************************************************************)
EXTENDS Integers, SequencesExt

CONSTANTS
    Proposals,   \* the numbers of the proposals at the start, each with a module
    Texts,       \* what a module or a proposal may say, but for nothing at all
    MaxEdits,    \* bound: changes the administrator makes
    MaxActs      \* bound: changes, and clicks on "save"

ASSUME ProposalsAssumption ==
    Proposals # {} /\ IsFiniteSet(Proposals) /\ Proposals \subseteq Nat \ {0, 1}
ASSUME TextsAssumption == Texts # {} /\ "" \notin Texts
ASSUME BoundsAssumption == MaxEdits \in Nat /\ MaxActs \in Nat

VARIABLES
    form,        \* the redux store: admin.voteSession
    cache,       \* the result of VoteSessionQuery that Apollo holds
    db,          \* what the server has
    chains,      \* the chains of mutations under way, in the order they began
    asked,       \* the chain that sent the last refetch, 0 for none
    intent,      \* history: what the form said at the last click
    troubles,    \* history: what may excuse a save, see Save
    edits, saves

vars == <<form, cache, db, chains, asked, intent, troubles, edits, saves>>

\* An id of the server is <<0, n>>; what the form makes up (createRandomId) is
\* <<n, k>>, for the k-th module that its n-th change creates.
None == <<0, 0>>
Blank == ""
Highest(S) == CHOOSE n \in S : \A k \in S : k <= n
Template == <<0, 1>>
FirstProposal(n) == <<0, n>>
FirstModule(n) == <<0, n + Highest(Proposals)>>
ServerId(n) == <<0, n + 1 + 2 * Highest(Proposals)>>
FreshId(k) == <<edits + 1, k>>
Smaller(a, b) == a[1] < b[1] \/ (a[1] = b[1] /\ a[2] < b[2])

Old == CHOOSE text \in Texts : TRUE

\* What is in f, and what is only in g.
Merge(f, g) == [x \in DOMAIN f \union DOMAIN g |-> IF x \in DOMAIN f THEN f[x] ELSE g[x]]
Also(f, id, value) == Merge(f, [x \in {id} |-> value])

\* The elements of a finite set by their rank; what each of them contributes.
Rank(S, x, Less(_, _)) == Cardinality({y \in S : Less(y, x)}) + 1
Ordered(S, Less(_, _)) ==
    [i \in 1..Cardinality(S) |-> CHOOSE x \in S : Rank(S, x, Less) = i]
Pieces(S, Piece(_), Less(_, _)) ==
    LET seq == Ordered(S, Less) IN FlattenSeq([i \in DOMAIN seq |-> Piece(seq[i])])

-----------------------------------------------------------------------------
(* What the server shows: templates, the proposals that are not tombstones, and their modules *)

Visible(d) ==
    LET live == {p \in DOMAIN d.proposals : d.proposals[p].live}
        seen == {s \in DOMAIN d.specs : d.specs[s].proposal \in live \union {None}}
    IN  [page |-> d.page, specs |-> Restrict(d.specs, seen), proposals |-> Restrict(d.proposals, live)]

ModulesOf(view, p) == {s \in DOMAIN view.specs : view.specs[s].proposal = p}

(* putVoteSessionInStore, putVoteModulesInStore, putVoteProposalsInStore: the three updates of the store *)
GetModuleInfo(spec) ==
    [proposal |-> spec.proposal, template |-> spec.template, text |-> spec.text, custom |-> spec.custom,
     isNew |-> FALSE, toDelete |-> FALSE, hasChanged |-> FALSE]

FillProposals(view) ==
    [p \in DOMAIN view.proposals |->
        [order |-> view.proposals[p].order, text |-> view.proposals[p].text,
         modules |-> ModulesOf(view, p), isNew |-> FALSE, toDelete |-> FALSE, hasChanged |-> FALSE]]

Fill(view, old) ==
    [page |-> view.page, pageChanged |-> FALSE,
     inOrder |-> Ordered(ModulesOf(view, None), Smaller),
     modules |-> Merge([s \in DOMAIN view.specs |-> GetModuleInfo(view.specs[s])], old.modules),
     proposals |-> FillProposals(view),
     changed |-> FALSE]

-----------------------------------------------------------------------------
(* What the administrator sees *)

Active == SelectSeq(form.inOrder, LAMBDA t : ~form.modules[t].toDelete)
Kept == {p \in DOMAIN form.proposals : ~form.proposals[p].toDelete}
InOrder(p, q) ==
    \/ form.proposals[p].order < form.proposals[q].order
    \/ form.proposals[p].order = form.proposals[q].order /\ Smaller(p, q)
Sorted == Ordered(Kept, InOrder)

(* expandModuleData: a module that is not custom says what its template says *)
Says(m) ==
    IF form.modules[m].custom \/ form.modules[m].template = None
    THEN form.modules[m].text
    ELSE form.modules[form.modules[m].template].text

(* The content of the form and of the server, in the same terms, to compare them *)
ShownModules(p) ==
    {m \in form.proposals[p].modules :
        ~form.modules[m].toDelete /\ ~form.modules[form.modules[m].template].toDelete}
Shown ==
    [page |-> form.page,
     templates |-> {<<t, Says(t)>> : t \in Range(Active)},
     proposals |-> {<<p, form.proposals[p].order, form.proposals[p].text>> : p \in Kept},
     modules |-> UNION {{<<m, p, form.modules[m].template, Says(m), form.modules[m].custom>> :
                            m \in ShownModules(p)} : p \in Kept}]

(* What the server has, in the names of the form that knows "ids": the id, or the one the form made up for it *)
Stored(ids) ==
    LET view == Visible(db)
        NameOf(id) == IF id \in DOMAIN view.specs /\ id \notin ids THEN view.specs[id].of ELSE id
        Proposal(id) == IF id \in DOMAIN view.proposals /\ id \notin ids THEN view.proposals[id].of ELSE id
        templates == ModulesOf(view, None)
    IN  [page |-> view.page,
         templates |-> {<<NameOf(t), view.specs[t].text>> : t \in templates},
         proposals |-> {<<Proposal(p), view.proposals[p].order, view.proposals[p].text>> :
                            p \in DOMAIN view.proposals},
         modules |-> {<<NameOf(m), Proposal(view.specs[m].proposal), NameOf(view.specs[m].template),
                        view.specs[m].text, view.specs[m].custom>> : m \in DOMAIN view.specs \ templates}]
Ids(shown) == {x[1] : x \in shown.templates \union shown.proposals \union shown.modules}

-----------------------------------------------------------------------------
(* What the administrator does; every operation but UNDELETE_MODULE marks the store as changed *)

Edit(new) ==
    /\ edits < MaxEdits /\ edits + saves < MaxActs
    /\ edits' = edits + 1
    /\ form' = new
    /\ troubles' = troubles \union {"edited"}
    /\ UNCHANGED <<cache, db, chains, asked, intent, saves>>

Changed == [form EXCEPT !.changed = TRUE]
SetModules(f, S, Update(_)) ==
    [f EXCEPT !.modules = [m \in DOMAIN f.modules |-> IF m \in S THEN Update(f.modules[m]) ELSE f.modules[m]]]

NewModule(p, t) ==
    [proposal |-> p, template |-> t, text |-> Blank, custom |-> FALSE,
     isNew |-> TRUE, toDelete |-> FALSE, hasChanged |-> FALSE]
NewProposal(order, modules) ==
    [order |-> order, text |-> Blank, modules |-> modules, isNew |-> TRUE, toDelete |-> FALSE, hasChanged |-> FALSE]

EditPage ==
    /\ ~form.pageChanged          \* bound: once
    /\ \E text \in Texts \ {form.page} : Edit([form EXCEPT !.page = text, !.pageChanged = TRUE])

(* The check box of the gauges, or a greater number of them *)
CreateTemplate ==
    /\ Active # <<>> \/ form.inOrder = <<>>
    /\ Edit([Changed EXCEPT !.inOrder = Append(@, FreshId(0)),
                            !.modules = Also(@, FreshId(0), NewModule(None, None))])

(* A smaller number of gauges (the last ones go), or none at all *)
DeleteTemplates ==
    \E k \in 1..Len(Active) :
        Edit(SetModules(Changed, Range(SubSeq(Active, k, Len(Active))), LAMBDA m : [m EXCEPT !.toDelete = TRUE]))

UndeleteTemplates ==
    /\ Active = <<>> /\ form.inOrder # <<>>
    /\ Edit(SetModules(form, Range(form.inOrder), LAMBDA m : [m EXCEPT !.toDelete = FALSE]))

(* MARK_ALL_DEPENDENCIES_AS_CHANGED: what the modules made after the template say changes with it *)
NoDependencies(t) == {}
Dependencies(t) == {m \in DOMAIN form.modules : form.modules[m].template = t /\ ~form.modules[m].custom}
MarkAllDependencies(t) == SetModules(Changed, Dependencies(t), LAMBDA m : [m EXCEPT !.hasChanged = TRUE])

Say(f, m, text, custom) ==
    [f EXCEPT !.modules[m].text = text, !.modules[m].custom = custom, !.modules[m].hasChanged = TRUE]

EditTemplate ==
    \E t \in Range(Active), text \in Texts :
        /\ text # form.modules[t].text
        /\ Edit(Say(MarkAllDependencies(t), t, text, form.modules[t].custom))

(* createVoteProposalAndModules: a module after each template, the new and the deleted ones too *)
OrderByCount == 1 + Len(Sorted)
NextOrder == 1 + Highest({form.proposals[p].order : p \in Kept})
CreateVoteProposalAndModules ==
    LET made == {FreshId(k) : k \in DOMAIN form.inOrder}
        TemplateOf(m) == form.inOrder[m[2]]
    IN  Edit([Changed EXCEPT
                !.proposals = Also(@, FreshId(0), NewProposal(NextOrder, made)),
                !.modules = Merge(@, [m \in made |-> NewModule(FreshId(0), TemplateOf(m))])])

EditProposal ==
    \E p \in Kept, text \in Texts :
        /\ text # form.proposals[p].text
        /\ Edit([Changed EXCEPT !.proposals[p].text = text, !.proposals[p].hasChanged = TRUE])

(* The button is there when there are more than two *)
DeleteProposal ==
    /\ Len(Sorted) > 2
    /\ \E p \in Kept : Edit([Changed EXCEPT !.proposals[p].toDelete = TRUE])

(* moveItemUp, moveItemDown: exchange two neighbours, and number all that are kept from 1 *)
Moved(seq, i) == [seq EXCEPT ![i] = seq[i + 1], ![i + 1] = seq[i]]
MoveProposal ==
    \E i \in 1..(Len(Sorted) - 1) :
        LET seq == Moved(Sorted, i)
            Order(p) == CHOOSE k \in DOMAIN seq : seq[k] = p
        IN  Edit([Changed EXCEPT !.proposals =
                    [p \in DOMAIN @ |->
                        IF p \notin Kept \/ @[p].order = Order(p) THEN @[p]
                        ELSE [@[p] EXCEPT !.order = Order(p), !.hasChanged = TRUE]]])

(* toggleModule: a template is chosen, or left, for a proposal *)
MadeAfter(p, t) == {m \in form.proposals[p].modules : form.modules[m].template = t}
FirstMade(p, t) == CHOOSE m \in MadeAfter(p, t) : \A n \in MadeAfter(p, t) : ~Smaller(n, m)

AssociateModule(p, t) ==
    /\ MadeAfter(p, t) = {}
    /\ Edit([Changed EXCEPT !.modules = Also(@, FreshId(0), NewModule(p, t)),
                            !.proposals[p].modules = @ \union {FreshId(0)}])
DeassociateModule(p, t) ==
    /\ MadeAfter(p, t) # {}
    /\ ~form.modules[FirstMade(p, t)].toDelete
    /\ Edit([Changed EXCEPT !.modules[FirstMade(p, t)].toDelete = TRUE])
ReactivateModule(p, t) ==
    /\ MadeAfter(p, t) # {}
    /\ form.modules[FirstMade(p, t)].toDelete
    /\ Edit([form EXCEPT !.modules[FirstMade(p, t)].toDelete = FALSE])

(* The settings of the gauge of a proposal: its own, or for all proposals *)
CustomizeGauge(p, t) ==
    /\ MadeAfter(p, t) # {}
    /\ \E text \in Texts :
        /\ text # Says(FirstMade(p, t))
        /\ Edit(Say(Changed, FirstMade(p, t), text, TRUE))

Cancelled(f, S, text) ==
    SetModules(f, S, LAMBDA m : [m EXCEPT !.custom = FALSE, !.hasChanged = TRUE, !.text = text])
ApplyToAllProposals(p, t) ==
    /\ MadeAfter(p, t) # {}
    /\ \E text \in Texts :
        /\ text # Says(FirstMade(p, t))
        /\ Edit(Cancelled(Say(Changed, t, text, FALSE),
                          {m \in DOMAIN form.modules : form.modules[m].template = t}, text))
CancelCustomization(p, t) ==
    /\ MadeAfter(p, t) # {}
    /\ form.modules[FirstMade(p, t)].custom
    /\ Edit(Cancelled(Changed, {FirstMade(p, t)}, form.modules[t].text))

EditModules ==
    \E p \in Kept, t \in Range(Active) :
        \/ AssociateModule(p, t)
        \/ DeassociateModule(p, t)
        \/ ReactivateModule(p, t)
        \/ CustomizeGauge(p, t)
        \/ ApplyToAllProposals(p, t)
        \/ CancelCustomization(p, t)

EditForm ==
    \/ EditPage
    \/ CreateTemplate \/ DeleteTemplates \/ UndeleteTemplates \/ EditTemplate
    \/ CreateVoteProposalAndModules \/ EditProposal \/ DeleteProposal \/ MoveProposal
    \/ EditModules

-----------------------------------------------------------------------------
(* The button "save": the mutations of the form, in chains *)

(* getMutationsPromises, for a module: create, delete, update or nothing *)
SpecTask(m) ==
    LET it == form.modules[m] IN
    CASE it.isNew /\ it.toDelete -> <<>>
      [] it.isNew /\ ~it.toDelete ->
            <<[op |-> "createSpec", of |-> m, proposal |-> it.proposal, template |-> it.template,
               text |-> Says(m), custom |-> it.custom]>>
      [] ~it.isNew /\ it.toDelete -> <<[op |-> "deleteSpec", id |-> m]>>
      [] ~it.isNew /\ ~it.toDelete /\ it.hasChanged ->
            <<[op |-> "updateSpec", id |-> m, text |-> Says(m), custom |-> it.custom]>>
      [] OTHER -> <<>>
TemplateTasks == FlattenSeq([i \in DOMAIN form.inOrder |-> SpecTask(form.inOrder[i])])

(* A proposal the server knows.  The deletions of its modules are not tasks: they are promises already *)
Promise == [op |-> "promise"]
ExistingTasks(p) ==
    LET it == form.proposals[p] IN
       (IF it.toDelete
        THEN [i \in 1..Cardinality(it.modules) |-> Promise] \o <<[op |-> "deleteProposal", id |-> p]>>
        ELSE <<>>)
    \o Pieces(it.modules, SpecTask, Smaller)
    \o (IF it.hasChanged
        THEN <<[op |-> "updateProposal", id |-> p, order |-> it.order, text |-> it.text]>>
        ELSE <<>>)

CreateTask(p) ==
    LET it == form.proposals[p]
        made == {m \in it.modules : form.modules[m].isNew /\ ~form.modules[m].toDelete}
    IN  IF it.toDelete THEN <<>>
        ELSE <<[op |-> "createProposal", of |-> p, order |-> it.order, text |-> it.text,
                modules |-> Pieces(made, SpecTask, Smaller)]>>

NewOnes == {p \in DOMAIN form.proposals : form.proposals[p].isNew}
ProposalTasks ==
    Pieces(DOMAIN form.proposals \ NewOnes, ExistingTasks, InOrder) \o Pieces(NewOnes, CreateTask, InOrder)

(* validateProposals *)
IsValid ==
    \A p \in Kept : /\ form.proposals[p].text # Blank
                    /\ \E m \in form.proposals[p].modules : ~form.modules[m].toDelete

(* runMutations: a chain of tasks, and the query again at its end *)
Refetch == [op |-> "refetch"]
ChainOnly(tasks) == IF tasks = <<>> THEN <<>> ELSE <<[tasks |-> tasks, reply |-> <<>>]>>
Chain(tasks) == IF tasks = <<>> THEN <<>> ELSE <<[tasks |-> Append(tasks, Refetch), reply |-> <<>>]>>

(* The deletions that saveAction sends at once, beside the chains: nothing waits for them *)
Deletions ==
    LET deleted == {p \in DOMAIN form.proposals \ NewOnes : form.proposals[p].toDelete}
        Deletion(m) == ChainOnly(<<[op |-> "deleteSpec", id |-> m]>>)
    IN  Pieces(UNION {form.proposals[p].modules : p \in deleted}, Deletion, Smaller)

Throws(tasks) == tasks # <<>> /\ Head(tasks) = Promise
FunctionsOf(tasks) == FlattenSeq([i \in DOMAIN tasks |-> IF tasks[i] = Promise THEN <<>> ELSE <<tasks[i]>>])
RunMutations(tasks) == IF Throws(tasks) THEN <<>> ELSE Chain(FunctionsOf(tasks))

(***************************************************************************)
(* saveAction.  What may excuse the save is noted: "refused", a proposal   *)
(* is not valid; "halved", one is not and yet the templates are saved;     *)
(* "threw", runSerial threw; "again", an earlier save was still under way; *)
(* "failed", the server rejected a mutation; "edited", the form changed    *)
(* after the click.                                                        *)
(***************************************************************************)
Save ==
    LET page == IF form.pageChanged THEN Chain(<<[op |-> "updatePage", text |-> form.page]>>) ELSE <<>>
        templates == IF form.changed THEN Chain(TemplateTasks) ELSE <<>>
        proposals == IF form.changed /\ IsValid THEN ProposalTasks ELSE <<>>
        deletions == IF form.changed /\ IsValid THEN Deletions ELSE <<>>
        refused == form.changed /\ ~IsValid
    IN  /\ edits + saves < MaxActs
        /\ chains = <<>> \/ (Len(chains) = 1 /\ "edited" \notin troubles)     \* bound on double clicks
        /\ form.changed \/ form.pageChanged
        /\ chains' = chains \o page \o templates \o deletions \o RunMutations(proposals)
        /\ intent' = IF refused THEN [intent EXCEPT !.page = form.page] ELSE Shown
        /\ troubles' = (troubles \ {"edited", "refused"})
                \union (IF refused THEN {"refused"} ELSE {})
                \union (IF refused /\ templates # <<>> THEN {"halved"} ELSE {})
                \union (IF Throws(proposals) THEN {"threw"} ELSE {})
                \union (IF chains # <<>> THEN {"again"} ELSE {})
        /\ saves' = saves + 1
        /\ UNCHANGED <<form, cache, db, asked, edits>>

-----------------------------------------------------------------------------
(* The server, and what the client makes of its answers *)

Pending(c) == chains[c].tasks # <<>> /\ chains[c].reply = <<>>
Task(c) == Head(chains[c].tasks)

Accepts(task) ==
    CASE task.op = "createSpec" -> /\ task.template \in DOMAIN db.specs \union {None}
                                   /\ task.proposal \in DOMAIN db.proposals \union {None}
      [] task.op = "updateSpec" -> task.id \in DOMAIN db.specs
      [] OTHER -> TRUE

Stores(task) ==
    CASE task.op = "createSpec" ->
            [db EXCEPT !.next = @ + 1,
                       !.specs = Also(@, ServerId(db.next),
                            [proposal |-> task.proposal, template |-> task.template, text |-> task.text,
                             custom |-> task.custom, of |-> task.of])]
      [] task.op = "updateSpec" ->
            [db EXCEPT !.specs[task.id].text = task.text, !.specs[task.id].custom = task.custom]
      [] task.op = "deleteSpec" ->
            [db EXCEPT !.specs = Restrict(@, {s \in DOMAIN @ : s # task.id /\ @[s].template # task.id})]
      [] task.op = "createProposal" ->
            [db EXCEPT !.next = @ + 1,
                       !.proposals = Also(@, ServerId(db.next),
                            [order |-> task.order, text |-> task.text, live |-> TRUE, of |-> task.of])]
      [] task.op = "updateProposal" ->
            [db EXCEPT !.proposals[task.id].order = task.order, !.proposals[task.id].text = task.text]
      [] task.op = "deleteProposal" -> [db EXCEPT !.proposals[task.id].live = FALSE]
      [] task.op = "updatePage" -> [db EXCEPT !.page = task.text]

(* Apollo merges the answer of an update into what it holds *)
Merged(task) ==
    CASE task.op = "updateSpec" /\ task.id \in DOMAIN cache.specs ->
            [cache EXCEPT !.specs[task.id].text = task.text, !.specs[task.id].custom = task.custom]
      [] task.op = "updateProposal" /\ task.id \in DOMAIN cache.proposals ->
            [cache EXCEPT !.proposals[task.id].order = task.order, !.proposals[task.id].text = task.text]
      [] OTHER -> cache

(* componentWillReceiveProps: another result fills the store again *)
Holds(view) ==
    /\ cache' = view
    /\ form' = IF view = cache THEN form ELSE Fill(view, form)

(* createProposal(...).then: the modules of a new proposal are a chain of their own *)
Made(task) == [i \in DOMAIN task.modules |-> [task.modules[i] EXCEPT !.proposal = ServerId(db.next)]]
NestedOnly(task) == IF task.op = "createProposal" THEN ChainOnly(Made(task)) ELSE <<>>
Nested(task) == IF task.op = "createProposal" THEN Chain(Made(task)) ELSE <<>>

(* What is left of the chains: nothing, when all have ended *)
Left(all) == IF \A c \in DOMAIN all : all[c].tasks = <<>> THEN <<>> ELSE all

-----------------------------------------------------------------------------
(* A mutation runs on the server and is answered; the next task of the chain is sent *)
Mutate(c) ==
    LET rest == Tail(chains[c].tasks) IN
    /\ Pending(c) /\ Task(c) # Refetch /\ Accepts(Task(c))
    /\ db' = Stores(Task(c))
    /\ chains' = Left([chains EXCEPT ![c].tasks = rest] \o Nested(Task(c)))
    /\ asked' = IF rest # <<>> /\ Head(rest) = Refetch THEN c ELSE asked
    /\ Holds(Merged(Task(c)))
    /\ UNCHANGED <<intent, troubles, edits, saves>>

(* The promise is rejected: nothing that follows it runs, not the refetch either *)
Reject(c) ==
    /\ Pending(c) /\ ~Accepts(Task(c))
    /\ chains' = Left([chains EXCEPT ![c].tasks = <<>>])
    /\ troubles' = troubles \union {"failed"}
    /\ UNCHANGED <<form, cache, db, asked, intent, edits, saves>>

(* The server reads the session for a refetch *)
Read(c) ==
    /\ Pending(c) /\ Task(c) = Refetch
    /\ chains' = [chains EXCEPT ![c].reply = <<Visible(db)>>]
    /\ UNCHANGED <<form, cache, db, asked, intent, troubles, edits, saves>>

(* Its answer arrives; Apollo leaves it out when a later refetch has been sent *)
Receive(c) ==
    /\ chains[c].reply # <<>>
    /\ Holds(IF c = asked THEN Head(chains[c].reply) ELSE cache)
    /\ chains' = Left([chains EXCEPT ![c] = [tasks |-> <<>>, reply |-> <<>>]])
    /\ UNCHANGED <<db, asked, intent, troubles, edits, saves>>

Serve == \E c \in DOMAIN chains : Mutate(c) \/ Reject(c) \/ Read(c) \/ Receive(c)

-----------------------------------------------------------------------------
FirstSpec(proposal, template, id) ==
    [proposal |-> proposal, template |-> template, text |-> Old, custom |-> FALSE, of |-> id]
FirstSpecs ==
    LET module(id) == FirstSpec(FirstProposal(id[2] - Highest(Proposals)), Template, id)
    IN  [id \in {Template} \union {FirstModule(n) : n \in Proposals} |->
            IF id = Template THEN FirstSpec(None, None, id) ELSE module(id)]
FirstProposals ==
    [id \in {FirstProposal(n) : n \in Proposals} |-> [order |-> id[2] - 1, text |-> Old, live |-> TRUE, of |-> id]]

Init ==
    /\ db = [page |-> Old, next |-> 0, specs |-> FirstSpecs, proposals |-> FirstProposals]
    /\ cache = Visible(db)
    /\ form = Fill(cache, [modules |-> <<>>, proposals |-> <<>>])
    /\ chains = <<>> /\ asked = 0
    /\ intent = Shown /\ troubles = {}
    /\ edits = 0 /\ saves = 0

Next == EditForm \/ Save \/ Serve

(* The server answers what it is sent *)
Spec == Init /\ [][Next]_vars /\ WF_vars(Serve)

-----------------------------------------------------------------------------
Only(excuses) == chains = <<>> /\ troubles \subseteq excuses
Agrees(shown) == Stored(Ids(shown)) = shown

(***************************************************************************)
(* When a save has ended and nothing excuses it, the server has what the   *)
(* form said at the click: each template and proposal once, the modules    *)
(* with their proposals, what the template says in all that were made      *)
(* after it, the deleted ones gone (saveAction, getMutationsPromises).     *)
(***************************************************************************)
SavedAsSubmitted == Only({"edited", "refused"}) => Agrees(intent)

(***************************************************************************)
(* A form with nothing to save (its button is disabled) shows what the     *)
(* server has, whatever the administrator did while it was saved, a second *)
(* click too, unless a mutation or the save itself failed.                 *)
(***************************************************************************)
CleanMeansSaved ==
    (Only({"edited", "refused", "again"}) /\ ~form.changed /\ ~form.pageChanged) => Agrees(Shown)

(***************************************************************************)
(* Two proposals that are kept never have the same order, whatever is      *)
(* created, deleted and moved (CREATE_VOTE_PROPOSAL, moveItemUp).          *)
(***************************************************************************)
OrdersDistinct ==
    Only({"edited", "refused"}) =>
        \A p, q \in Kept : form.proposals[p].order = form.proposals[q].order => p = q

(* The inductive invariant behind OrdersDistinct, in parts *)
IsView(view) ==
    /\ view = [page |-> view.page, specs |-> view.specs, proposals |-> view.proposals]
    /\ IsFiniteSet(DOMAIN view.specs) /\ DOMAIN view.specs \subseteq Nat \X Nat
    /\ IsFiniteSet(DOMAIN view.proposals) /\ DOMAIN view.proposals \subseteq Nat \X Nat

IsProposal(it) ==
    /\ it = [order |-> it.order, text |-> it.text, modules |-> it.modules,
             isNew |-> it.isNew, toDelete |-> it.toDelete, hasChanged |-> it.hasChanged]
    /\ it.isNew \in BOOLEAN /\ it.toDelete \in BOOLEAN /\ it.hasChanged \in BOOLEAN
    /\ IsFiniteSet(it.modules) /\ it.modules \subseteq Nat \X Nat

IsForm ==
    /\ form = [page |-> form.page, pageChanged |-> form.pageChanged, inOrder |-> form.inOrder,
               modules |-> form.modules, proposals |-> form.proposals, changed |-> form.changed]
    /\ form.inOrder \in Seq(Range(form.inOrder))
    /\ IsFiniteSet(DOMAIN form.proposals) /\ DOMAIN form.proposals \subseteq Nat \X Nat
    /\ \A p \in DOMAIN form.proposals : IsProposal(form.proposals[p])

IsServer ==
    /\ db = [page |-> db.page, next |-> db.next, specs |-> db.specs, proposals |-> db.proposals]
    /\ db.next \in Nat
    /\ IsFiniteSet(DOMAIN db.specs) /\ DOMAIN db.specs \subseteq Nat \X Nat
    /\ IsFiniteSet(DOMAIN db.proposals)
    /\ DOMAIN db.proposals \subseteq {0} \X (0..(db.next + 2 * Highest(Proposals)))
    /\ \A p \in DOMAIN db.proposals : db.proposals[p] =
            [order |-> db.proposals[p].order, text |-> db.proposals[p].text,
             live |-> db.proposals[p].live, of |-> db.proposals[p].of]

OfProposals(task) == task.op \in {"createProposal", "updateProposal", "deleteProposal"}
OfOthers(task) == task.op \in {"createSpec", "updateSpec", "deleteSpec", "updatePage"}

IsCreation(made) ==
    made = [op |-> "createSpec", of |-> made.of, proposal |-> made.proposal,
            template |-> made.template, text |-> made.text, custom |-> made.custom]
IsTask(task) ==
    /\ OfProposals(task) \/ OfOthers(task) \/ task = Refetch
    /\ task.op = "createProposal" =>
          /\ task.modules \in Seq(Range(task.modules))
          /\ \A made \in Range(task.modules) : IsCreation(made)

\* The query is asked again at the end, when nothing is left to do.
IsChain(chain) ==
    /\ chain = [tasks |-> chain.tasks, reply |-> chain.reply]
    /\ chain.tasks \in Seq(Range(chain.tasks))
    /\ \A task \in Range(chain.tasks) : IsTask(task)
    /\ \A i \in DOMAIN chain.tasks : chain.tasks[i] = Refetch => i = Len(chain.tasks)
    /\ \/ chain.reply = <<>>
       \/ chain.tasks = <<Refetch>> /\ chain.reply = <<chain.reply[1]>> /\ IsView(chain.reply[1])

Shapes ==
    /\ IsForm /\ IsServer /\ IsView(cache)
    /\ chains \in Seq(Range(chains)) /\ \A c \in DOMAIN chains : IsChain(chains[c])
    /\ edits \in Nat

\* The form shows each proposal of the result that it was filled from, under its
\* order unless it has changed; those it has besides are new.
FormFollowsCache ==
    /\ \A p \in DOMAIN form.proposals : form.proposals[p].isNew \/ p \in DOMAIN cache.proposals
    /\ \A p \in DOMAIN cache.proposals :
          /\ p \in DOMAIN form.proposals /\ ~form.proposals[p].isNew
          /\ form.proposals[p].hasChanged \/ form.proposals[p].order = cache.proposals[p].order

\* A result in which the orders differ, and the form that was filled from one.
InOneOrder(proposals, S) ==
    /\ S # {}
    /\ \A p \in S : proposals[p].order \in Int
    /\ \A p, q \in S : proposals[p].order = proposals[q].order => p = q
FormInOrder ==
    InOneOrder(cache.proposals, DOMAIN cache.proposals) =>
        /\ InOneOrder(form.proposals, Kept)
        /\ \A p \in DOMAIN form.proposals : form.proposals[p].order \in Int

\* The mutations of proposals that are still to run.
TasksOf(c) == Range(chains[c].tasks)
Due == {task \in UNION {TasksOf(c) : c \in DOMAIN chains} : OfProposals(task)}
DueTo(op, p) == {task \in Due : task.op = op /\ task.id = p}
Creations == {task \in Due : task.op = "createProposal"}

\* They are in one chain, and each creation is in it once.
OneChain ==
    /\ \A c, d \in DOMAIN chains :
          \A t \in TasksOf(c), u \in TasksOf(d) : OfProposals(t) /\ OfProposals(u) => c = d
    /\ \A c \in DOMAIN chains : \A i, j \in DOMAIN chains[c].tasks :
          chains[c].tasks[i].op = "createProposal" /\ chains[c].tasks[i] = chains[c].tasks[j] => i = j
DueIsKnown ==
    \A task \in Due : task.op = "createProposal" \/ task.id \in DOMAIN db.proposals

\* The proposals that will be left when they have run, and under which orders.
Live == {p \in DOMAIN db.proposals : db.proposals[p].live}
Survivors == {p \in Live : DueTo("deleteProposal", p) = {}}
Planned(p) ==
    IF DueTo("updateProposal", p) = {} THEN db.proposals[p].order
    ELSE (CHOOSE task \in DueTo("updateProposal", p) : TRUE).order
PlannedInOrder ==
    /\ \A t, u \in Due : t.op = "updateProposal" /\ u.op = "updateProposal" /\ t.id = u.id => t = u
    /\ Survivors # {} \/ Creations # {}
    /\ \A p \in Survivors : Planned(p) \in Int
    /\ \A task \in Creations : task.order \in Int
    /\ \A p, q \in Survivors : Planned(p) = Planned(q) => p = q
    /\ \A p \in Survivors, task \in Creations : Planned(p) # task.order
    /\ \A t, u \in Creations : t.order = u.order => t = u

\* The client has the proposals of the server, or the refetch that it asked for
\* last will bring them, or a chain with more to do will ask for it.
Current(view) == view.proposals = Visible(db).proposals
LastReads ==
    /\ Due = {}
    /\ IF asked \in DOMAIN chains /\ chains[asked].tasks = <<Refetch>>
       THEN \A view \in Range(chains[asked].reply) : Current(view)
       ELSE Current(cache)
WillRead(c) ==
    /\ Len(chains[c].tasks) > 1
    /\ Last(chains[c].tasks) = Refetch
    /\ Due \subseteq TasksOf(c)
AnswerComes == LastReads \/ \E c \in DOMAIN chains : WillRead(c)

\* A save that ran into another, or failed, excuses whatever follows.
Excused == {"again", "threw", "failed"} \cap troubles # {}

OrderIInv ==
    Excused \/ /\ Shapes /\ FormFollowsCache /\ FormInOrder
               /\ OneChain /\ DueIsKnown /\ PlannedInOrder
               /\ AnswerComes

(***************************************************************************)
(* A save comes to an end, and then the form shows what the server has,    *)
(* unless it was changed again or something failed: the store is filled    *)
(* again by the refetch at the end of every chain (runMutations).          *)
(***************************************************************************)
SaveSettles == [](chains # <<>> => <>(chains = <<>> /\ (troubles # {} \/ Agrees(Shown))))

(***************************************************************************)
(* "delete all modules and then delete the proposal" (the comment in       *)
(* saveAction): a proposal deleted in the form that was saved is deleted.  *)
(***************************************************************************)
DeletedProposalsGo ==
    Only({"edited", "threw"}) =>
        Stored(Ids(intent)).proposals \subseteq intent.proposals
=============================================================================
