SPECIFICATION Spec
CONSTANTS
    Entities = {e1}
    Lists = {"ofac"}
    Queries = {q1, q2}
    Workers = {w1}
    StatusChange = TRUE
    Sources = {"ofac"}
    PassedFlags = {"ofac", "pep"}
    NoQuery = NoQuery
    NoResult = NoResult
    NoEntity = NoEntity
VIEW HistoryView
SYMMETRY Symmetry
INVARIANTS
    ResultNotTooGood
    AsyncMatchesRecorded
    NotAnnouncedTwice
