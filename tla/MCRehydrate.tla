----------------------------- MODULE MCRehydrate -----------------------------
EXTENDS Rehydrate, TLC

Ana  == Identity("ana", {"analysts"})
MCIdentities == {Ana}

\* A group's entry, one that is not enough for a Genie Space, and one of the other user.
MCEntries == {Entry("analysts", "CAN_RUN"), Entry("ana", "CAN_READ"), Entry("bob", "CAN_MANAGE")}

Sales(catalog)  == Place(Ref(catalog, "sales", 0), FALSE)
SalesX(catalog) == Place(Ref(catalog, "sales", 1), FALSE)
Orders(catalog) == Place(Ref(catalog, "orders", 0), FALSE)

\* Two tables of which one's name begins the other's, two that are apart, a catalog in
\* capitals, one of another domain.
MCDocs == {{Sales("prod"), SalesX("prod")}, {Sales("prod"), Orders("prod")}, {Sales("PROD")}, {Orders("other")}}

Pair(s, t) == [source |-> s, target |-> t]
S == Ref("prod", "sales", 0)
O == Ref("prod", "orders", 0)

\* None; into another catalog; malformed; back into production in capitals; two at once; a chain.
MCMappings == { <<>>,
                <<Pair(S, Ref("other", "sales", 0))>>,
                <<Pair(S, Malformed)>>,
                <<Pair(S, Ref("PROD", "sales", 0))>>,
                <<Pair(S, Ref("dev", "revenue", 0)), Pair(O, Ref("other", "orders", 0))>>,
                <<Pair(S, Ref("dev", "orders", 0)), Pair(O, Ref("dev", "sales", 0))>> }

RequestSymmetry == Permutations(Requests)
=============================================================================
