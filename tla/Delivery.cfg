SPECIFICATION DeliverySpec
CONSTANTS
    Results = 3
    Workers = {1, 2}
    NoWorker = 0
    Readers = {1}
    MaxDeaths = 3
INVARIANT ReaderBlamesOnlyRaces
PROPERTY DeliversOnce
