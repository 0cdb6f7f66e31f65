\* One writer at a time is enough (mu is exclusive), and a reader beside it.
CONSTANTS
    a1 = a1
    a2 = a2
    x1 = x1
    x2 = x2
    x3 = x3
    br = br
    webp = webp
    given = given
    compress = compress
    image = image
    None = None
    AssetPaths = {a1, a2}
    AssetContents = {c1}
    Variants <- MCVariants
    Readers = {r1}
SPECIFICATION Spec
INVARIANTS IndicesAgree CachesFresh ReadsAreCurrent
PROPERTY Implements
