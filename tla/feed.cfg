\* Two recomputes, two changes, a reader.
SPECIFICATION Spec
CONSTANTS
    i = i  j = j  one = one  other = other
    call1 = call1  call2 = call2  r = r
    Items = {i, j}
    Bands = {one, other}
    BandOf <- MCBandOf
    Curates = {call1, call2}
    ApiCurates = {call1, call2}
    Readers = {r}
    MaxChanges = 2
SYMMETRY Symmetry
INVARIANTS TypeOK TagIsTruthful FeedIsOneRanking DismissedStayOut CooldownHonoured
CHECK_DEADLOCK FALSE
