CONSTANTS
    Name = {A, B}
    Idx = {i}
    RowKey = {k}
    MaxId = 2
SPECIFICATION CatalogSpec
PROPERTY RestoreIntoEmpty
