SPECIFICATION Spec
CONSTANTS
    Entities = {e1, e2}
    Lists = {"ofac"}
    Queries = {q1, q2}
    Workers = {w1, w2}
    StatusChange = TRUE
    Sources = {"ofac"}
    PassedFlags = {"pep"}
    NoQuery = NoQuery
    NoResult = NoResult
    NoEntity = NoEntity
VIEW FlagView
SYMMETRY Symmetry
INVARIANTS
    MatchBelongs
PROPERTY PepNeverForgotten
