------------------------------ MODULE TenantScope ------------------------------
(***************************************************************************)
(* tenantrepo: the tenant of a request, which ctxauth reads from its       *)
(* context, put into the filters, pipelines and documents that data        *)
(* modules send to a collection.                                           *)
(***************************************************************************)
EXTENDS Naturals, Sequences

CONSTANTS
    Tenants,
    NoTenant,   \* the context has no tenant, or an empty one
    Anything,   \* a filter does not constrain the field, a document lacks it
    Statuses,   \* values of some other field
    MaxDocs,    \* bound: documents
    MaxStages   \* bound: stages of an aggregation

ASSUME ScopeAssumption ==
    /\ NoTenant \notin Tenants /\ Anything \notin Tenants \cup Statuses
    /\ MaxDocs \in Nat /\ MaxStages \in Nat

Contexts == Tenants \cup {NoTenant}

\* What a repository passes in: a filter, an aggregation of $match and of
\* $limit 1 stages in any order, stages that only narrow what they are given.
\* A stage that reads a collection anew ($lookup, $unionWith) is let through
\* by the code and unscoped there: such pipelines are not part of the model.
Filter == [tenant : Tenants \cup {Anything}, status : Statuses \cup {Anything}]
MatchStage(f) == [limit |-> FALSE, filter |-> f]
LimitStage == [limit |-> TRUE, filter |-> [tenant |-> Anything, status |-> Anything]]
Stages == {MatchStage(f) : f \in Filter} \cup {LimitStage}
Pipeline == UNION {[1 .. n -> Stages] : n \in 0 .. MaxStages}

VARIABLES
    documents,  \* the collection
    author,     \* history: the tenant whose request inserted each document
    answer      \* of the last query: by, pipeline, result

scopeVars == <<documents, author, answer>>

ScopeInit ==
    /\ documents = {} /\ author = <<>>
    /\ answer = [by |-> NoTenant, pipeline |-> <<>>, result |-> {}]

(***************************************************************************)
(* MongoDB: a query as the stages it goes through.                         *)
(***************************************************************************)
Matches(d, f) ==
    f.tenant \in {Anything, d.tenant} /\ f.status \in {Anything, d.status}

Stage(D, s) ==
    IF s.limit THEN {d \in D : \A e \in D : d.id <= e.id}
    ELSE {d \in D : Matches(d, s.filter)}

Evaluate(D, pipeline) ==
    LET after[i \in 0 .. Len(pipeline)] ==
            IF i = 0 THEN D ELSE Stage(after[i - 1], pipeline[i])
    IN  after[Len(pipeline)]

(***************************************************************************)
(* tenantrepo.  Without a tenant each helper panics in development and     *)
(* returns an error elsewhere; nothing is sent either way.                 *)
(***************************************************************************)
\* ctxauth.GetTenantID.
HasTenant(ctx) == ctx # NoTenant

\* Mutant: a tenant in the filter is kept.
ScopeUnlessSet(ctx, f) ==
    IF f.tenant = Anything THEN [f EXCEPT !.tenant = ctx] ELSE f

Scope(ctx, f) == [f EXCEPT !.tenant = ctx]

ScopeAggregate(ctx, pipeline) ==
    <<MatchStage([tenant |-> ctx, status |-> Anything])>> \o pipeline

StampInsertM(ctx, doc) == [doc EXCEPT !.tenant = ctx]

Find(ctx, f) ==
    /\ HasTenant(ctx)
    /\ answer' = [by |-> ctx, pipeline |-> <<MatchStage([f EXCEPT !.tenant = Anything])>>,
                  result |-> Evaluate(documents, <<MatchStage(Scope(ctx, f))>>)]
    /\ UNCHANGED <<documents, author>>

Aggregate(ctx, pipeline) ==
    /\ HasTenant(ctx)
    /\ answer' = [by |-> ctx, pipeline |-> pipeline,
                  result |-> Evaluate(documents, ScopeAggregate(ctx, pipeline))]
    /\ UNCHANGED <<documents, author>>

Insert(ctx, t, s) ==
    /\ HasTenant(ctx) /\ Len(author) < MaxDocs
    /\ LET id == Len(author) + 1
       IN documents' = documents \cup
            {StampInsertM(ctx, [id |-> id, tenant |-> t, status |-> s])}
    /\ author' = Append(author, ctx)
    /\ UNCHANGED answer

ScopeNext ==
    \E ctx \in Contexts :
        \/ \E f \in Filter : Find(ctx, f)
        \/ \E pipeline \in Pipeline : Aggregate(ctx, pipeline)
        \/ \E t \in Tenants \cup {Anything}, s \in Statuses : Insert(ctx, t, s)

ScopeSpec == ScopeInit /\ [][ScopeNext]_scopeVars

\* Each tenant works as in a database of its own: whatever stages a query
\* has and whatever tenant its filter or a document it inserted named, its
\* answer is what the same query gives on the documents inserted under that
\* tenant alone.
TenantsApart ==
    [][answer' # answer =>
        answer'.result = Evaluate({d \in documents : author[d.id] = answer'.by},
                                  answer'.pipeline)]_scopeVars
=============================================================================
