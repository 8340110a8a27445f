SPECIFICATION Spec
CONSTANTS
    None = None  j1 = j1  j2 = j2  q1 = q1
    Submissions = {1, 2, 3}
    Problems = {"p1", "p2"}
    Rounds = {"r1", "r2"}
    ProblemOf <- TwoProblems
    RoundOf <- TwoRounds
    Trial = {"r2"}
    Scores = {5}
    Judgings = {j1, j2}
    Requests = {q1}
SYMMETRY Symmetry
INVARIANTS ProblemsSettle RoundsSettle ContestSettles
