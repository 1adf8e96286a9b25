SPECIFICATION Spec
CONSTANTS
    Conds = {0, 14, 15}
    Rns = {0, 1, 8, 9, 15}
    Rds = {0, 15}
    Rss = {0, 1, 15}
    Shs = {0, 1, 2, 3, 4, 5, 6, 7, 8, 9, 10, 11, 12, 13, 14, 15}
    Rms = {0, 3}
INVARIANTS TypeOK LongMultiplication PcOperands StatusWrites SharedBits
CHECK_DEADLOCK FALSE
